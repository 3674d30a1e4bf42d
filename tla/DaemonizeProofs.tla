-------------------------- MODULE DaemonizeProofs --------------------------
(***************************************************************************)
(* For any number of launches, tools and commands: the types of Daemonize, *)
(* and that there is one daemon at a time.                                 *)
(***************************************************************************)
EXTENDS Daemonize, TLAPS

(***************************************************************************)
(* A signal to a process leaves the pending signals well typed.            *)
(***************************************************************************)
LEMMA SendType ==
  ASSUME TypeOK, NEW x, NEW s \in Signal, Send(x, s)
  PROVE  pending' \in [Process -> SUBSET Signal]
BY DEF TypeOK, Send

(***************************************************************************)
(* The end of a launched process keeps the types.                          *)
(***************************************************************************)
LEMMA ParentEndsType ==
  ASSUME TypeOK, NEW l \in Launch, NEW from, NEW to \in ParentPc,
         ParentEnds(l, from, to)
  PROVE  TypeOK'
BY DEF TypeOK, ParentEnds, Advance, ghostVars

(***************************************************************************)
(* So does its progress.                                                   *)
(***************************************************************************)
LEMMA AdvanceType ==
  ASSUME TypeOK, NEW l \in Launch, NEW from, NEW to \in ParentPc,
         Advance(l, from, to),
         lock' \in Launch \cup {Nobody}, UNCHANGED <<child, pending>>
  PROVE  TypeOK'
BY DEF TypeOK, Advance, ghostVars

(***************************************************************************)
(* The end of a child keeps the types.                                     *)
(***************************************************************************)
LEMMA ChildEndsType ==
  ASSUME TypeOK, NEW l \in Launch, ChildEnds(l)
  PROVE  TypeOK'
<1>1. pending' \in [Process -> SUBSET Signal]
  BY DEF TypeOK, ChildEnds, Signal
<1>2. child' \in [Launch -> ChildPc]
  BY DEF TypeOK, ChildEnds, Step, ChildPc
<1> QED BY <1>1, <1>2 DEF TypeOK, ChildEnds, Step

(***************************************************************************)
(* So does its progress.                                                   *)
(***************************************************************************)
LEMMA StepType ==
  ASSUME TypeOK, NEW l \in Launch, NEW from, NEW to \in ChildPc,
         Step(l, from, to),
         lock' \in Launch \cup {Nobody},
         pending' \in [Process -> SUBSET Signal],
         tells' \in [Launch -> {"nobody", "parent", "init"}],
         daemonized' \subseteq Launch
  PROVE  TypeOK'
BY DEF TypeOK, Step

(***************************************************************************)
(* What the tool does keeps the types.                                     *)
(***************************************************************************)
LEMMA TypeToolStep ==
  ASSUME TypeOK, NEW t \in Tool, Look(t) \/ Kill(t) \/ StartDaemon(t)
  PROVE  TypeOK'
<1>1. CASE Look(t)
  <2>1. tool' \in [Tool -> ToolPc]
    BY <1>1 DEF TypeOK, Look, ToolPc, Matches
  <2>2. commands' \in Nat
    BY <1>1 DEF TypeOK, Look
  <2> QED BY <1>1, <2>1, <2>2 DEF TypeOK, Look
<1>2. CASE Kill(t)
  <2>1. tool[t].sig \in Signal
    BY <1>2 DEF TypeOK, Kill, ToolPc, Signal
  <2>2. pending' \in [Process -> SUBSET Signal]
    BY <1>2, <2>1, SendType DEF Kill
  <2>3. tool' \in [Tool -> ToolPc] /\ mistaken' \subseteq Launch
    BY <1>2 DEF TypeOK, Kill, ToolPc
  <2> QED BY <1>2, <2>2, <2>3 DEF TypeOK, Kill
<1>3. CASE StartDaemon(t)
  <2>1. tool' \in [Tool -> ToolPc]
    BY <1>3 DEF TypeOK, StartDaemon, ToolPc
  <2>2. parent' \in [Launch -> ParentPc]
    BY <1>3 DEF TypeOK, StartDaemon, ParentPc
  <2> QED BY <1>3, <2>1, <2>2 DEF TypeOK, StartDaemon, ghostVars
<1> QED BY <1>1, <1>2, <1>3

(***************************************************************************)
(* The steps of a launched process keep the types.                         *)
(***************************************************************************)
LEMMA TypeParentStep ==
  ASSUME TypeOK, NEW l \in Launch, ParentStep(l) \/ AlarmRings(l)
  PROVE  TypeOK'
<1> USE DEF ParentPc, Ended
<1>1. CASE CheckPrereq(l)
  BY <1>1, AdvanceType, ParentEndsType DEF CheckPrereq, TypeOK
<1>2. CASE TakeLock(l)
  BY <1>2, AdvanceType, ParentEndsType DEF TakeLock
<1>3. CASE TrapSignals(l)
  BY <1>3, AdvanceType DEF TrapSignals, TypeOK
<1>4. CASE Fork(l)
  <2>1. CASE ParentEnds(l, "fork", "failure")
    BY <2>1, ParentEndsType
  <2>2. CASE Advance(l, "fork", "alarm") /\ child' = [child EXCEPT ![l] = "forked"]
             /\ UNCHANGED <<pending, lock>>
    BY <2>2 DEF TypeOK, Advance, ghostVars, ChildPc
  <2> QED BY <1>4, <2>1, <2>2 DEF Fork
<1>5. CASE SetAlarm(l)
  BY <1>5, AdvanceType DEF SetAlarm, TypeOK
<1>6. CASE ParentTakes(l)
  <2>1. \A pc, s : Outcome(pc, s) \in ParentPc
    BY DEF Outcome
  <2> QED BY <1>6, <2>1, ParentEndsType DEF ParentTakes
<1>7. CASE AlarmRings(l)
  <2>1. pending' \in [Process -> SUBSET Signal]
    BY <1>7, SendType DEF AlarmRings, Signal
  <2> QED BY <1>7, <2>1 DEF AlarmRings, TypeOK, ghostVars
<1> QED BY <1>1, <1>2, <1>3, <1>4, <1>5, <1>6, <1>7 DEF ParentStep

(***************************************************************************)
(* The steps of a child, and of a launch by init, keep the types.          *)
(***************************************************************************)
LEMMA TypeChildStep ==
  ASSUME TypeOK, NEW l \in Launch, InitRuns(l) \/ ChildStep(l)
  PROVE  TypeOK'
<1> USE DEF ChildPc
<1>1. CASE InitRuns(l)
  BY <1>1 DEF InitRuns, TypeOK, ghostVars
<1>2. CASE AskParent(l)
  <2>1. tells' \in [Launch -> {"nobody", "parent", "init"}]
    BY <1>2 DEF AskParent, TypeOK
  <2> QED BY <1>2, <2>1, StepType DEF AskParent, TypeOK
<1>3. CASE BecomeDaemon(l)
  BY <1>3, StepType, ChildEndsType DEF BecomeDaemon, TypeOK
<1>4. CASE TellParent(l)
  <2>1. pending' \in [Process -> SUBSET Signal]
    BY <1>4, SendType DEF TellParent, Signal, TypeOK
  <2> QED BY <1>4, <2>1, StepType DEF TellParent, TypeOK
<1>5. CASE Serve(l)
  BY <1>5, StepType, ChildEndsType DEF Serve, TypeOK
<1>6. CASE LinkFails(l)
  BY <1>6, ChildEndsType DEF LinkFails
<1>7. CASE ChildTakes(l)
  <2>1. CASE Unlock(l)
    <3>1. pending' \in [Process -> SUBSET Signal] /\ lock' \in Launch \cup {Nobody}
      BY <2>1 DEF Unlock, TypeOK
    <3> QED BY <2>1, <3>1, StepType DEF Unlock, TypeOK
  <2>2. CASE Note(l)
    BY <2>2 DEF Note, TypeOK, ghostVars
  <2> QED BY <1>7, <2>1, <2>2, ChildEndsType DEF ChildTakes
<1>8. CASE Exit(l)
  BY <1>8, ChildEndsType DEF Exit
<1> QED BY <1>1, <1>2, <1>3, <1>4, <1>5, <1>6, <1>7, <1>8 DEF ChildStep

(***************************************************************************)
(* In every state of every behaviour each variable has its type.           *)
(***************************************************************************)
THEOREM DaemonizeTypes == Spec => []TypeOK
<1>1. Init => TypeOK
  BY DEF Init, TypeOK, ParentPc, ChildPc, ToolPc
<1>2. TypeOK /\ [Next]_vars => TypeOK'
  <2>1. ASSUME TypeOK, Next PROVE TypeOK'
    BY <2>1, TypeToolStep, TypeParentStep, TypeChildStep DEF Next
  <2>2. ASSUME TypeOK, UNCHANGED vars PROVE TypeOK'
    BY <2>2 DEF TypeOK, vars, ghostVars
  <2> QED BY <2>1, <2>2
<1> QED BY <1>1, <1>2, PTL DEF Spec
-----------------------------------------------------------------------------
(***************************************************************************)
(* What OneDaemon rests on.                                                *)
(***************************************************************************)
LockInv == LockHeld /\ Forked

(***************************************************************************)
(* A step of one launch that moves the lock only to or from itself leaves  *)
(* the others as they were: the facts of each launch that it has to show.  *)
(***************************************************************************)
LEMMA OthersKeepLock ==
  ASSUME TypeOK, TypeOK', LockInv, NEW l \in Launch,
         \A m \in Launch \ {l} : parent'[m] = parent[m] /\ child'[m] = child[m],
         \/ lock' = lock
         \/ lock = l
         \/ lock = Nobody,
         Active(l)' \/ parent'[l] \in {"trap", "fork"} => lock' = l,
         l \in Orphan => parent'[l] = "none",
         l \notin Orphan /\ parent'[l] \in {"none", "prereq", "lock", "trap", "fork"}
           => child'[l] = "none"
  PROVE  LockInv'
<1>1. LockHeld'
  BY LaunchAssumption DEF LockInv, LockHeld, Active
<1>2. Forked'
  BY DEF LockInv, Forked
<1> QED BY <1>1, <1>2 DEF LockInv

(***************************************************************************)
(* A launched process that ends takes the lock with it only if it has no   *)
(* child, and then none of its launch needs it.                            *)
(***************************************************************************)
LEMMA LockParentEnds ==
  ASSUME TypeOK, TypeOK', LockInv, NEW l \in Launch \ Orphan,
         NEW to \in Ended, ParentEnds(l, parent[l], to)
  PROVE  LockInv'
<1>1. /\ parent'[l] = to /\ child' = child
      /\ \A m \in Launch \ {l} : parent'[m] = parent[m]
      /\ lock' = IF lock = l /\ ~ChildLives(l) THEN Nobody ELSE lock
  BY DEF ParentEnds, Advance, TypeOK
<1>2. Active(l)' => lock' = l
  BY <1>1 DEF Active, ChildLives, LockInv, LockHeld
<1> QED BY <1>1, <1>2, OthersKeepLock DEF Ended

(***************************************************************************)
(* A child that ends takes the lock with it only if its parent has ended.  *)
(***************************************************************************)
LEMMA LockChildEnds ==
  ASSUME TypeOK, TypeOK', LockInv, NEW l \in Launch,
         child[l] \notin {"none", "dead"}, ChildEnds(l)
  PROVE  LockInv'
<1>1. /\ child'[l] = "dead" /\ parent' = parent
      /\ \A m \in Launch \ {l} : child'[m] = child[m]
      /\ lock' = IF lock = l /\ ~ParentLives(l) THEN Nobody ELSE lock
  BY DEF ChildEnds, Step, TypeOK
<1>2. /\ l \in Orphan => parent[l] = "none"
      /\ l \notin Orphan => parent[l] \notin {"none", "prereq", "lock", "trap", "fork"}
  BY DEF LockInv, Forked
<1>3. ~Active(l)'
  BY <1>1 DEF Active
<1> QED BY <1>1, <1>2, <1>3, OthersKeepLock

(***************************************************************************)
(* A child that goes on keeps the lock it has.                             *)
(***************************************************************************)
LEMMA LockStep ==
  ASSUME TypeOK, TypeOK', LockInv, NEW l \in Launch, NEW from, NEW to,
         from \in {"forked", "asked", "ready", "told"},
         Step(l, from, to), lock' = lock
  PROVE  LockInv'
<1>1. /\ child[l] = from /\ parent' = parent
      /\ \A m \in Launch \ {l} : child'[m] = child[m]
  BY DEF Step, TypeOK
<1>2. /\ l \in Orphan => parent[l] = "none"
      /\ l \notin Orphan => parent[l] \notin {"none", "prereq", "lock", "trap", "fork"}
  BY <1>1 DEF LockInv, Forked
<1>3. Active(l)' => lock' = l
  BY <1>1 DEF Active, LockInv, LockHeld
<1> QED BY <1>1, <1>2, <1>3, OthersKeepLock

(***************************************************************************)
(* What the tool and init do keeps the lock where it is needed.            *)
(***************************************************************************)
LEMMA LockToolStep ==
  ASSUME TypeOK, TypeOK', LockInv,
         \/ \E t \in Tool : Look(t) \/ Kill(t) \/ StartDaemon(t)
         \/ \E l \in Launch : InitRuns(l)
  PROVE  LockInv'
<1>1. ASSUME NEW t \in Tool, Look(t) \/ Kill(t) PROVE LockInv'
  BY <1>1 DEF Look, Kill, LockInv, LockHeld, Forked, Active
<1>2. ASSUME NEW t \in Tool, StartDaemon(t) PROVE LockInv'
  <2>1. PICK l \in Launch \ Orphan :
          Unused(l) /\ parent' = [parent EXCEPT ![l] = "prereq"]
    BY <1>2 DEF StartDaemon
  <2>2. /\ child' = child /\ lock' = lock /\ parent'[l] = "prereq"
        /\ child[l] = "none"
        /\ \A m \in Launch \ {l} : parent'[m] = parent[m]
    BY <1>2, <2>1 DEF StartDaemon, Unused, TypeOK
  <2> QED BY <2>2, OthersKeepLock DEF Active
<1>3. ASSUME NEW l \in Launch, InitRuns(l) PROVE LockInv'
  <2>1. /\ l \in Orphan /\ parent' = parent /\ lock' = lock
        /\ parent[l] = "none"
        /\ \A m \in Launch \ {l} : child'[m] = child[m]
    BY <1>3 DEF InitRuns, Unused, TypeOK
  <2> QED BY <2>1, OthersKeepLock DEF Active
<1> QED BY <1>1, <1>2, <1>3

(***************************************************************************)
(* The launched process takes a free lock and forks with it.               *)
(***************************************************************************)
LEMMA LockParentStep ==
  ASSUME TypeOK, TypeOK', LockInv, NEW l \in Launch,
         ParentStep(l) \/ AlarmRings(l)
  PROVE  LockInv'
<1>0. ASSUME parent[l] # "none" PROVE l \in Launch \ Orphan
  BY <1>0 DEF LockInv, Forked
<1>1. ASSUME NEW from, NEW to, Advance(l, from, to)
      PROVE  /\ parent[l] = from /\ parent'[l] = to
             /\ \A m \in Launch \ {l} : parent'[m] = parent[m]
  BY <1>1 DEF Advance, TypeOK
<1>2. ASSUME NEW from, from # "none", NEW to \in Ended, ParentEnds(l, from, to)
      PROVE  LockInv'
  <2>1. parent[l] = from
    BY <1>1, <1>2 DEF ParentEnds
  <2> QED BY <1>0, <1>2, <2>1, LockParentEnds
<1>3. CASE CheckPrereq(l)
  <2>1. CASE Advance(l, "prereq", "lock") /\ UNCHANGED <<child, pending, lock>>
    BY <1>0, <1>1, <2>1, OthersKeepLock DEF Active, LockInv, Forked
  <2> QED BY <1>2, <1>3, <2>1 DEF CheckPrereq, Ended
<1>4. CASE TakeLock(l)
  <2>1. CASE lock = Nobody /\ Advance(l, "lock", "trap") /\ lock' = l
             /\ UNCHANGED <<child, pending>>
    BY <1>0, <1>1, <2>1, OthersKeepLock DEF Active, LockInv, Forked
  <2> QED BY <1>2, <1>4, <2>1 DEF TakeLock, Ended
<1>5. CASE TrapSignals(l)
  BY <1>0, <1>1, <1>5, OthersKeepLock
     DEF TrapSignals, Active, LockInv, Forked, LockHeld
<1>6. CASE Fork(l)
  <2>1. CASE /\ Advance(l, "fork", "alarm")
             /\ child' = [child EXCEPT ![l] = "forked"]
             /\ UNCHANGED <<pending, lock>>
    <3>1. \A m \in Launch \ {l} : child'[m] = child[m]
      BY <2>1 DEF TypeOK
    <3>2. lock = l
      BY <1>1, <2>1 DEF LockInv, LockHeld
    <3> QED BY <1>0, <1>1, <2>1, <3>1, <3>2, OthersKeepLock
  <2> QED BY <1>2, <1>6, <2>1 DEF Fork, Ended
<1>7. CASE SetAlarm(l)
  BY <1>0, <1>1, <1>7, OthersKeepLock DEF SetAlarm, Active, LockInv, LockHeld
<1>8. CASE ParentTakes(l)
  <2>1. \A pc, s : Outcome(pc, s) \in Ended
    BY DEF Outcome, Ended
  <2>2. PICK s \in pending[<<l, "parent">>] :
          ParentEnds(l, parent[l], Outcome(parent[l], s))
    BY <1>8 DEF ParentTakes
  <2>3. l \in Launch \ Orphan
    BY <1>0, <1>8 DEF ParentTakes, ParentLives
  <2> QED BY <2>1, <2>2, <2>3, LockParentEnds
<1>9. CASE AlarmRings(l)
  BY <1>9 DEF AlarmRings, LockInv, LockHeld, Forked, Active
<1> QED BY <1>3, <1>4, <1>5, <1>6, <1>7, <1>8, <1>9 DEF ParentStep

(***************************************************************************)
(* The child keeps the lock until it unlocks it or ends.                   *)
(***************************************************************************)
LEMMA LockChildStep ==
  ASSUME TypeOK, TypeOK', LockInv, NEW l \in Launch, ChildStep(l)
  PROVE  LockInv'
<1>1. CASE AskParent(l)
  BY <1>1, LockStep DEF AskParent
<1>2. CASE BecomeDaemon(l)
  BY <1>2, LockStep, LockChildEnds DEF BecomeDaemon
<1>3. CASE TellParent(l)
  BY <1>3, LockStep DEF TellParent
<1>4. CASE Serve(l)
  BY <1>4, LockStep, LockChildEnds DEF Serve
<1>5. CASE LinkFails(l)
  BY <1>5, LockChildEnds DEF LinkFails
<1>6. CASE ChildTakes(l)
  <2>1. CASE WithExitHandler(l) /\ Unlock(l)
    <3>1. /\ child'[l] = "unlocked" /\ parent' = parent
          /\ \A m \in Launch \ {l} : child'[m] = child[m]
          /\ lock' = IF lock = l THEN Nobody ELSE lock
      BY <2>1 DEF Unlock, Step, TypeOK
    <3>2. parent[l] \notin {"none", "prereq", "lock", "trap", "fork"}
      BY <2>1 DEF WithExitHandler, LockInv, Forked
    <3> QED BY <2>1, <3>1, <3>2, OthersKeepLock DEF Active, WithExitHandler
  <2>2. CASE Note(l)
    BY <2>2 DEF Note, LockInv, LockHeld, Forked, Active
  <2>3. CASE ChildLives(l) /\ ChildEnds(l)
    BY <2>3, LockChildEnds DEF ChildLives
  <2> QED BY <1>6, <2>1, <2>2, <2>3 DEF ChildTakes
<1>7. CASE Exit(l)
  BY <1>7, LockChildEnds DEF Exit
<1> QED BY <1>1, <1>2, <1>3, <1>4, <1>5, <1>6, <1>7 DEF ChildStep

(***************************************************************************)
(* At most one daemon is past the lock, for any number of launches and     *)
(* tools, and whichever of the processes are ended by signals and when.    *)
(***************************************************************************)
THEOREM SingleDaemon == Spec => []OneDaemon
<1>1. Init => LockInv
  BY DEF Init, LockInv, LockHeld, Forked, Active
<1>2. TypeOK /\ TypeOK' /\ LockInv /\ [Next]_vars => LockInv'
  <2>1. ASSUME TypeOK, TypeOK', LockInv, Next PROVE LockInv'
    BY <2>1, LockToolStep, LockParentStep, LockChildStep DEF Next
  <2>2. ASSUME LockInv, UNCHANGED vars PROVE LockInv'
    BY <2>2 DEF vars, LockInv, LockHeld, Forked, Active
  <2> QED BY <2>1, <2>2
<1>3. LockInv => OneDaemon
  BY DEF LockInv, LockHeld, OneDaemon
<1> QED BY <1>1, <1>2, <1>3, DaemonizeTypes, PTL DEF Spec
-----------------------------------------------------------------------------
(***************************************************************************)
(* What SuccessExplained rests on.                                         *)
(***************************************************************************)
ConfirmInv == ConfirmationsExplained /\ SuccessExplained

(***************************************************************************)
(* A step that reports no success, sends no SIGUSR1 to a launched process  *)
(* and makes no child ready.                                               *)
(***************************************************************************)
LEMMA ConfirmKept ==
  ASSUME TypeOK, ConfirmInv,
         daemonized \subseteq daemonized', mistaken \subseteq mistaken',
         \A l \in Launch :
           /\ parent'[l] = "success" => parent[l] = "success"
           /\ "USR1" \in pending'[<<l, "parent">>]
                => \/ "USR1" \in pending[<<l, "parent">>]
                   \/ l \in daemonized' \cup mistaken'
           /\ child'[l] = "ready" => child[l] = "ready" \/ l \in daemonized'
  PROVE  ConfirmInv'
BY DEF ConfirmInv, ConfirmationsExplained, SuccessExplained

(***************************************************************************)
(* The process of a launch is either its parent or its child.              *)
(***************************************************************************)
LEMMA Roles ==
  \A l, m \in Launch : /\ <<l, "parent">> \in Process /\ <<l, "child">> \in Process
                       /\ <<l, "parent">> # <<m, "child">>
                       /\ <<l, "parent">> = <<m, "parent">> => l = m
BY DEF Process, Role

(***************************************************************************)
(* A child that ends confirms nothing.                                     *)
(***************************************************************************)
LEMMA ConfirmChildEnds ==
  ASSUME TypeOK, ConfirmInv, NEW l \in Launch, ChildEnds(l)
  PROVE  ConfirmInv'
<1>1. ASSUME NEW m \in Launch
      PROVE  /\ parent'[m] = parent[m]
             /\ "USR1" \in pending'[<<m, "parent">>]
                  => "USR1" \in pending[<<m, "parent">>]
             /\ child'[m] = "ready" => child[m] = "ready"
  BY <1>1, Roles DEF ChildEnds, Step, TypeOK
<1> QED BY <1>1, ConfirmKept DEF ChildEnds, Step

(***************************************************************************)
(* A launched process that ends reports success only for a SIGUSR1.        *)
(***************************************************************************)
LEMMA ConfirmParentEnds ==
  ASSUME TypeOK, ConfirmInv, NEW l \in Launch, NEW from, NEW to,
         ParentEnds(l, from, to),
         to = "success" => l \in daemonized \cup mistaken
  PROVE  ConfirmInv'
<1>1. /\ child' = child /\ daemonized' = daemonized /\ mistaken' = mistaken
      /\ \A m \in Launch : parent'[m] = IF m = l THEN to ELSE parent[m]
      /\ \A m \in Launch : "USR1" \in pending'[<<m, "parent">>]
                            => "USR1" \in pending[<<m, "parent">>]
  BY Roles DEF ParentEnds, Advance, TypeOK, ghostVars
<1> QED BY <1>1 DEF ConfirmInv, ConfirmationsExplained, SuccessExplained

(***************************************************************************)
(* The tool explains the SIGUSR1 it sends.                                 *)
(***************************************************************************)
LEMMA ConfirmToolStep ==
  ASSUME TypeOK, ConfirmInv,
         \/ \E t \in Tool : Look(t) \/ Kill(t) \/ StartDaemon(t)
         \/ \E l \in Launch : InitRuns(l)
  PROVE  ConfirmInv'
<1>1. ASSUME NEW t \in Tool, Look(t) PROVE ConfirmInv'
  BY <1>1, ConfirmKept DEF Look
<1>2. ASSUME NEW t \in Tool, Kill(t) PROVE ConfirmInv'
  <2>1. ASSUME NEW m \in Launch, "USR1" \in pending'[<<m, "parent">>]
        PROVE  "USR1" \in pending[<<m, "parent">>] \/ m \in mistaken'
    BY <1>2, <2>1, Roles DEF Kill, Send, TypeOK
  <2> QED BY <1>2, <2>1, ConfirmKept DEF Kill
<1>3. ASSUME NEW t \in Tool, StartDaemon(t) PROVE ConfirmInv'
  <2>1. \A m \in Launch : parent'[m] = "success" => parent[m] = "success"
    BY <1>3 DEF StartDaemon, TypeOK
  <2> QED BY <1>3, <2>1, ConfirmKept DEF StartDaemon, ghostVars
<1>4. ASSUME NEW l \in Launch, InitRuns(l) PROVE ConfirmInv'
  <2>1. \A m \in Launch : child'[m] = "ready" => child[m] = "ready"
    BY <1>4 DEF InitRuns, TypeOK
  <2> QED BY <1>4, <2>1, ConfirmKept DEF InitRuns, ghostVars
<1> QED BY <1>1, <1>2, <1>3, <1>4

(***************************************************************************)
(* The launched process reports what it was told.                          *)
(***************************************************************************)
LEMMA ConfirmParentStep ==
  ASSUME TypeOK, ConfirmInv, NEW l \in Launch, ParentStep(l) \/ AlarmRings(l)
  PROVE  ConfirmInv'
<1>1. ASSUME NEW from, NEW to, to # "success", Advance(l, from, to),
             UNCHANGED pending,
             \A m \in Launch : child'[m] = "ready" => child[m] = "ready"
      PROVE  ConfirmInv'
  <2>1. \A m \in Launch : parent'[m] = "success" => parent[m] = "success"
    BY <1>1 DEF Advance, TypeOK
  <2> QED BY <1>1, <2>1, ConfirmKept DEF Advance, ghostVars
<1>2. CASE CheckPrereq(l)
  BY <1>1, <1>2, ConfirmParentEnds DEF CheckPrereq
<1>3. CASE TakeLock(l)
  BY <1>1, <1>3, ConfirmParentEnds DEF TakeLock
<1>4. CASE TrapSignals(l)
  BY <1>1, <1>4 DEF TrapSignals
<1>5. CASE Fork(l)
  <2>1. ASSUME child' = [child EXCEPT ![l] = "forked"]
        PROVE  \A m \in Launch : child'[m] = "ready" => child[m] = "ready"
    BY <2>1 DEF TypeOK
  <2> QED BY <1>1, <1>5, <2>1, ConfirmParentEnds DEF Fork
<1>6. CASE SetAlarm(l)
  BY <1>1, <1>6 DEF SetAlarm
<1>7. CASE ParentTakes(l)
  <2>1. PICK s \in pending[<<l, "parent">>] :
          ParentEnds(l, parent[l], Outcome(parent[l], s))
    BY <1>7 DEF ParentTakes
  <2>2. Outcome(parent[l], s) = "success" => s = "USR1"
    BY DEF Outcome
  <2> QED BY <2>1, <2>2, ConfirmParentEnds DEF ConfirmInv, ConfirmationsExplained
<1>8. CASE AlarmRings(l)
  <2>1. \A m \in Launch : "USR1" \in pending'[<<m, "parent">>]
                          => "USR1" \in pending[<<m, "parent">>]
    BY <1>8, Roles DEF AlarmRings, Send, TypeOK
  <2> QED BY <1>8, <2>1, ConfirmKept DEF AlarmRings, ghostVars
<1> QED BY <1>2, <1>3, <1>4, <1>5, <1>6, <1>7, <1>8 DEF ParentStep

(***************************************************************************)
(* The child confirms once it is a daemon.                                 *)
(***************************************************************************)
LEMMA ConfirmChildStep ==
  ASSUME TypeOK, ConfirmInv, NEW l \in Launch, ChildStep(l)
  PROVE  ConfirmInv'
<1>1. ASSUME NEW from, NEW to, to # "ready", Step(l, from, to),
             daemonized' = daemonized,
             \A m \in Launch : "USR1" \in pending'[<<m, "parent">>]
                               => \/ "USR1" \in pending[<<m, "parent">>]
                                  \/ m \in daemonized
      PROVE  ConfirmInv'
  <2>1. \A m \in Launch : child'[m] = "ready" => child[m] = "ready"
    BY <1>1 DEF Step, TypeOK
  <2> QED BY <1>1, <2>1, ConfirmKept DEF Step
<1>2. CASE AskParent(l)
  BY <1>1, <1>2 DEF AskParent
<1>3. CASE BecomeDaemon(l)
  <2>1. CASE Step(l, "asked", "ready") /\ daemonized' = daemonized \cup {l}
             /\ UNCHANGED <<tells, pending, lock>>
    <3>1. \A m \in Launch : child'[m] = "ready" => child[m] = "ready" \/ m = l
      BY <2>1 DEF Step, TypeOK
    <3> QED BY <2>1, <3>1, ConfirmKept DEF Step
  <2> QED BY <1>3, <2>1, ConfirmChildEnds DEF BecomeDaemon
<1>4. CASE TellParent(l)
  <2>1. l \in daemonized
    BY <1>4 DEF TellParent, Step, ConfirmInv, ConfirmationsExplained
  <2>2. ASSUME NEW m \in Launch, "USR1" \in pending'[<<m, "parent">>]
        PROVE  "USR1" \in pending[<<m, "parent">>] \/ m = l
    <3>1. CASE pending' = pending
      BY <2>2, <3>1
    <3>2. CASE Send(<<l, "parent">>, "USR1")
      BY <2>2, <3>2, Roles DEF Send, TypeOK
    <3> QED BY <1>4, <3>1, <3>2 DEF TellParent
  <2> QED BY <1>1, <1>4, <2>1, <2>2 DEF TellParent
<1>5. CASE Serve(l)
  BY <1>1, <1>5, ConfirmChildEnds DEF Serve
<1>6. CASE LinkFails(l)
  BY <1>6, ConfirmChildEnds DEF LinkFails
<1>7. CASE ChildTakes(l)
  <2>1. CASE Unlock(l)
    <3>1. \A m \in Launch : pending'[<<m, "parent">>] = pending[<<m, "parent">>]
      BY <2>1, Roles DEF Unlock, TypeOK
    <3> QED BY <1>1, <2>1, <3>1 DEF Unlock
  <2>2. CASE Note(l)
    <3>1. \A m \in Launch : pending'[<<m, "parent">>] = pending[<<m, "parent">>]
      BY <2>2, Roles DEF Note, TypeOK
    <3> QED BY <2>2, <3>1, ConfirmKept DEF Note, ghostVars
  <2> QED BY <1>7, <2>1, <2>2, ConfirmChildEnds DEF ChildTakes
<1>8. CASE Exit(l)
  BY <1>8, ConfirmChildEnds DEF Exit
<1> QED BY <1>2, <1>3, <1>4, <1>5, <1>6, <1>7, <1>8 DEF ChildStep

(***************************************************************************)
(* No launch reports success out of nothing: its child became a daemon, or *)
(* a tool signalled the wrong process.                                     *)
(***************************************************************************)
THEOREM SuccessHasACause == Spec => []SuccessExplained
<1>1. Init => ConfirmInv
  BY DEF Init, ConfirmInv, ConfirmationsExplained, SuccessExplained, Process, Role
<1>2. TypeOK /\ ConfirmInv /\ [Next]_vars => ConfirmInv'
  <2>1. ASSUME TypeOK, ConfirmInv, Next PROVE ConfirmInv'
    BY <2>1, ConfirmToolStep, ConfirmParentStep, ConfirmChildStep DEF Next
  <2>2. ASSUME ConfirmInv, UNCHANGED vars PROVE ConfirmInv'
    BY <2>2 DEF vars, ghostVars, ConfirmInv, ConfirmationsExplained, SuccessExplained
  <2> QED BY <2>1, <2>2
<1>3. ConfirmInv => SuccessExplained
  BY DEF ConfirmInv
<1> QED BY <1>1, <1>2, <1>3, DaemonizeTypes, PTL DEF Spec
=============================================================================
