----------------------------- MODULE MCSsoUsers -----------------------------
(* Small instances of SsoUsers for TLC. *)
EXTENDS SsoUsers, TLC

OneOrNone == {NoLimit, 1}
Symmetry  == Permutations(Handlers)

\* Nobody, one user or both; one that is synced is alone, and only nobody is limited.
SmallInit ==
  /\ Init
  /\ DOMAIN users \in {{}, {1}, {1, 2}}
  /\ dir # <<>> => DOMAIN users = {1}
  /\ limit # NoLimit => DOMAIN users = {}
SmallSpec == SmallInit /\ [][Next]_vars
=============================================================================
