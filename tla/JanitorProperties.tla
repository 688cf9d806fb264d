-------------------------- MODULE JanitorProperties --------------------------
(***************************************************************************)
(* What teardown and janitor promise about the resources of the host.      *)
(***************************************************************************)
EXTENDS Janitor

\* Every variable has its type; only containers are ever down, and the loop waits
\* for the cleanup it started.
TypeOK ==
  /\ docker \in [Res -> {"unborn", "up", "down", "gone"}]
  /\ \A x \in Res : docker[x] = "down" => IsContainer(x)
  /\ age \in [Res -> 0..MaxAge]
  /\ loop = Resting \/ loop.op = "maintain" \/ loop.of \in Own
  /\ archived \subseteq Own
  /\ faults \in 0..MaxFaults
  /\ pass = NoPass \/
       /\ pass.by = "loop" => loop.op = "maintain"
       /\ pass.todo \cup pass.left \subseteq Res
       /\ pass.old \subseteq pass.seen /\ pass.seen \subseteq Res
       /\ pass.active \subseteq Own /\ pass.late \in 0..MaxLate

---------------------------------------------------------------------------

\* Nothing of a runner that runs is removed, except by the teardown of that very
\* runner: what its job created while the janitor was between two lists is too
\* young for the inventory (docker.py 480-548).
SparesLive ==
  [][\A x \in Res : (x \in Present /\ docker'[x] = "gone" /\ RunsNow(x.of)) =>
       loop.op # "maintain" /\ loop # Resting /\ loop.of = x.of]_vars

\* One pass is enough: what it cannot remove is held by a container of the job that
\* was not among its targets, or that Docker failed to remove (docker.py 614-635).
LeftOnlyIfHeld ==
  pass # NoPass => \A x \in pass.left :
    [kind |-> "sibling", of |-> x.of] \notin pass.targets

\* Whatever fails or goes down on the way, what a runner that ended left on the
\* host is removed in the end; volumes only by opt-in (docker.py 344-372,
\* scheduler.py 700-736).
Leftover(x) == x \in Present /\ ~RunsNow(x.of) /\ (x.kind = "volume" => CleanupVolumes)
LeftoversReaped ==
  \A x \in Res : x.of \in Own => (Leftover(x) ~> docker[x] = "gone")

\* docs/ARCHITECTURE.md:31: "Teardown and a periodic age-gated janitor remove only
\* containers and networks carrying that exact runner-owned namespace".
OnlyOwnNamespace ==
  \A x \in Res : docker[x] = "gone" => x.of \in Own

\* docs/ARCHITECTURE.md:29: "EasyRunners captures diagnostics and removes the
\* container".
DiagnosticsFirst ==
  \A r \in Own : docker[Container(r)] = "gone" => r \in archived
==============================================================================
