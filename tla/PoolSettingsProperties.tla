------------------------ MODULE PoolSettingsProperties ------------------------
(***************************************************************************)
(* What the saved pools, their migration and their edits promise.          *)
(***************************************************************************)
EXTENDS PoolSettings

---------------------------------------------------------------------------
(* The migration *)

\* "Rename recognizable built-in pools without breaking old workflow labels"
\* (config.py 165): every combination of labels that some saved pool served is
\* served by the pools a start makes of them.
JobsStayServed ==
  [][~up /\ up' /\ saved # None =>
       \A n \in Names(saved) : \A L \in SUBSET matching_labels(saved[n]) :
         match_pool(L, pools') # None]_vars

\* Whatever was configured beyond labels and priority is kept by some pool: only a
\* copy is dropped (config.py 197-210).
VariantsKept ==
  [][~up /\ up' /\ saved # None =>
       {Signature(saved[n]) : n \in Names(saved)}
         = {Signature(pools'[n]) : n \in Names(pools')}]_vars

\* The override of the older release can be got back until an edit replaces it,
\* wherever a start was cut short (main.py 71-83).
BackupHoldsOriginal ==
  edits = 0 => saved = original \/ backup = original

---------------------------------------------------------------------------
(* The edits *)

\* An edit never puts in place two pools that serve exactly the same labels, though
\* each of two edits was checked before the other one was put in place
\* (scheduler.py 254-277).
Apart(P) == Cardinality({matching_labels(P[n]) : n \in Names(P)}) = Cardinality(Names(P))
LabelsDistinct == [][up /\ up' /\ pools' # pools => Apart(pools')]_vars

\* config.py:132: "have identical labels": no two pools are ever served that do.
NeverIdentical == up => Apart(pools)

\* What is saved is what the scheduler and the demand tracker use, edit by edit and
\* start by start (api.py 121-129, 410-460, main.py 62-83).
SavedIsServed == up /\ saved # None => pools = saved

\* README.md:206: "Dashboard overrides persist in `/data` and take precedence after
\* restart": what an edit saved is what the next start serves.
EditsSurviveRestart ==
  [][~up /\ up' /\ edits > 0 => pools' = saved]_vars
==============================================================================
