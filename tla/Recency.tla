------------------------------- MODULE Recency -------------------------------
(***************************************************************************)
(* The recency order of clru's CLruCache, the list the service's          *)
(* session cache is built on, as a relation: <<a, b>> is in the order when   *)
(* a was used before b. It is modelled from how the cache uses it: put and   *)
(* get_mut move a key to the front, peek and iter leave it where it is, pop  *)
(* takes it out.                                                            *)
(***************************************************************************)
EXTENDS Naturals

\* pop: the key leaves the list.
Forget(order, k) == {p \in order : p[1] # k /\ p[2] # k}

\* put or get_mut: the key becomes the most recently used of the residents.
Promote(order, resident, k) ==
  Forget(order, k) \union ((resident \ {k}) \X {k})

\* The end of the list: what iter().rev() meets first among the keys of S, if
\* there are any.
Oldest(order, S) == {k \in S : \A j \in S \ {k} : <<k, j>> \in order}

\* iter().rev() with a stop: the keys met before the first one where Stop holds.
Before(order, resident, Stop(_)) ==
  {k \in resident : /\ ~Stop(k)
                    /\ \A j \in resident : <<j, k>> \in order => ~Stop(j)}

=============================================================================
