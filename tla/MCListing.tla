----------------------------- MODULE MCListing -----------------------------
(***************************************************************************)
(* Bytes: "/" is 47, "a" is 97, "b" is 98.  The bucket is left off the     *)
(* keys of its listing, as it is the same for all of them.                 *)
(***************************************************************************)
EXTENDS Listing

slash == <<47>>
a == <<97>>
b == <<98>>
dir == a \o slash

\* a, a/, a/a, a/ba/, b: a key that ends in the delimiter, a group of one and of
\* several, a key inside two groups.  The names of buckets that begin alike.
MCNames == [objects  |-> {a, dir, dir \o a, dir \o b \o dir, b},
            versions |-> {a, dir, dir \o a, dir \o b \o dir, b},
            buckets  |-> {dir \o a, dir \o b, a \o dir \o a, b \o slash \o a, b},
            walk     |-> {a, dir, dir \o a, b},
            uploads  |-> {<<1, 1, 1>>, <<1, 2>>, <<2, 1, 1>>, <<2, 1, 2>>, <<2, 2>>, <<3, 2>>},
            parts    |-> {<<1>>, <<2>>, <<3>>, <<5>>}]

Listing1(kind, prefix, delimiter, start, limit) ==
  [kind |-> kind, prefix |-> prefix, delimiter |-> delimiter, start |-> start, limit |-> limit]

MCRequests ==
       {Listing1(kind, prefix, delimiter, <<>>, limit) :
          kind \in {"objects", "versions"}, prefix \in {<<>>, dir}, delimiter \in {<<>>, slash},
          limit \in 0..2}
  \cup {Listing1("objects", <<>>, slash, start, 1) : start \in {a, dir \o a}}
  \cup {Listing1("buckets", <<>>, slash, <<>>, limit) : limit \in 1..2}
  \cup {Listing1("uploads", <<>>, <<>>, <<>>, limit) : limit \in 1..3}
  \cup {Listing1("walk", <<>>, <<>>, start, limit) : start \in {<<>>, dir}, limit \in 1..2}
  \cup {Listing1("parts", <<>>, <<>>, start, limit) : start \in {<<>>, <<2>>}, limit \in 1..2}
=============================================================================
