------------------------------ MODULE MCRetention -----------------------------
(* A stream of each of two cameras, on a small disk. *)
EXTENDS Retention, TLC

MCCamera == [k \in Streams |-> IF k = "s3" THEN "c2" ELSE "c1"]
MCSizes == [k \in Streams |-> IF k = "s1" THEN 2 ELSE 1]
(* The disk of a start over an archive that is large, or small *)
MCArchives ==
  LET of(k, start) == [stream |-> k, start |-> start]
      recent == of("s3", 2) :> 1 @@ of("s1", 3) :> 2 @@ of("s1", 4) :> 2
  IN {recent, of("s1", 0) :> 2 @@ of("s1", 1) :> 2 @@ recent}

MCPolicies ==
  LET ages == [c \in Cameras |-> IF c = "c1" THEN 3 ELSE NoLimit]
      none == [c \in Cameras |-> NoLimit]
  IN { [total |-> NoLimit, age |-> none], [total |-> NoLimit, age |-> ages],
       [total |-> 4, age |-> ages] }
=============================================================================
