--------------------------- MODULE MCAccessHistory ---------------------------
(* Model-checking instances of AccessHistory.  Strands are numbered along  *)
(* one of the orders in which they can run, so that every dag is isomorphic *)
(* to one of these.                                                        *)
EXTENDS AccessHistory, FiniteSets

Dags == {r \in SUBSET {p \in Strands \X Strands : p[1] < p[2]} :
           \A p, q \in r : p[2] = q[1] => <<p[1], q[2]>> \in r}

(* The nodes that strands may share, each named by its first strand. *)
Nodes(d) == {f \in [Strands -> Strands] :
  /\ \A s \in Strands : f[s] <= s /\ f[f[s]] = f[s]
  /\ \A s, t \in Strands : s # t /\ f[s] = f[t] => <<s, t>> \in d \/ <<t, s>> \in d}

(* Every dag with every choice of accesses, of the strands that share a    *)
(* node and of the pairs that Precedes misses, those among them.           *)
AllCases == UNION {UNION {[before : {d}, prog : [Strands -> Programs], node : {f},
                           known : SUBSET {p \in d : f[p[1]] # f[p[2]]}]
                          : f \in Nodes(d)} : d \in Dags}

(* Strands that are before and after the same strands, alike for Precedes  *)
(* and alone with their nodes, can be renamed into each other; so can the  *)
(* strands of a dag with a single pair.                                    *)
Twins(c, s, t) == \A u \in Strands :
  /\ \A r \in {c.before, c.known} : /\ <<u, s>> \in r <=> <<u, t>> \in r
                                   /\ <<s, u>> \in r <=> <<t, u>> \in r
  /\ u \notin {s, t} => c.node[u] \notin {c.node[s], c.node[t]}

Rank(p) == IF Len(p) > 1 THEN 2 ELSE IF p[1] = "write" THEN 1 ELSE 0

(* Every case in which at most one strand returns to the location, up to   *)
(* the names of the strands.                                               *)
OneReturns == {c \in AllCases :
  /\ \A s, t \in Strands : Len(c.prog[s]) > 1 /\ Len(c.prog[t]) > 1 => s = t
  /\ \A s, t \in Strands :
       s < t /\ Twins(c, s, t) => Rank(c.prog[s]) <= Rank(c.prog[t])
  /\ Cardinality(c.before) = 1 => c.before = {<<1, 2>>}}

(* Every dag with every choice of accesses, and queries that miss nothing. *)
ExactCases == UNION {
  [before : {d}, known : {d}, node : {[s \in Strands |-> s]}, prog : [Strands -> Programs]]
    : d \in Dags}

(* Those in which all strands read, and a last strand writes.              *)
ReadersThenWriter ==
  {c \in ExactCases :
     c.prog = [s \in Strands |-> IF s = N THEN <<"write">> ELSE <<"read">>]}
=============================================================================
