--------------------------- MODULE WorkspaceProofs ---------------------------
(***************************************************************************)
(* Workspace proved for any directories, windows, goals and skills, and for *)
(* any number of commands: where a run and its Codex client work, what its  *)
(* RepoPrompt calls are routed to, and that no client is kept in vain.      *)
(***************************************************************************)
EXTENDS Workspace, TLAPS

\* Between two goals the shell is where the user last said.  In a goal it has not
\* moved yet: what a sticky skill of a typed goal asked for is pending, and nothing
\* is pending before the first fetch.
DirectoryIsKept ==
  /\ run = None => asked = cwd
  /\ run # None =>
       /\ run.cwd = cwd
       /\ asked = IF run.typed /\ sticky # None THEN sticky ELSE cwd
       /\ fetched = {} => sticky = None

\* The client was configured when the goal began, and no command comes in between.
ClientIsConfigured ==
  run # None /\ UsesClient =>
    client = [cwd |-> cwd, model |-> args.model, effort |-> RunEffort(run.goal)]

\* Where the next call may go, too, is a matter of this run.
QueueIsOfRun ==
  run # None =>
    /\ override # None => \E s \in fetched : override = SkillDir[s]
    /\ call # None /\ ~call.named =>
         call.dir \in {run.cwd} \cup {SkillDir[s] : s \in fetched}
    /\ narrowed \subseteq fetched

IInv == TypeOK /\ DirectoryIsKept /\ ClientIsConfigured /\ QueueIsOfRun /\ ClientIsOfUse

-----------------------------------------------------------------------------

\* The shell starts with nothing pending and no client.
LEMMA InitIInv == Init => IInv
<1> SUFFICES ASSUME Init PROVE IInv
  OBVIOUS
<1>1. TypeOK
  BY WorkspaceAssumptions DEF Init, TypeOK, Modes
<1>2. DirectoryIsKept /\ ClientIsConfigured /\ QueueIsOfRun /\ ClientIsOfUse
  BY DEF Init, DirectoryIsKept, ClientIsConfigured, QueueIsOfRun, ClientIsOfUse, UsesClient, UsesPlanner
<1> QED
  BY <1>1, <1>2 DEF IInv

\* What a command of the prompt that only sets an argument keeps.
LEMMA SettingKeeps ==
  ASSUME IInv, AtPrompt, args' \in [provider : Providers,
           model : Models \cup {None}, mode : Modes, effort : BOOLEAN],
         client' = client \/ client' = None,
         client' # None => UsesClient',
         UNCHANGED <<flags, cwd, lastGoal, run, sync, narrowed, serves, open, asked,
                     fetched, call>>
  PROVE  IInv'
<1>1. TypeOK'
  BY DEF IInv, TypeOK, sync
<1>2. DirectoryIsKept'
  BY DEF IInv, DirectoryIsKept, sync
<1>3. ClientIsConfigured' /\ QueueIsOfRun'
  BY DEF AtPrompt, ClientIsConfigured, QueueIsOfRun, UsesClient, UsesPlanner
<1>4. ClientIsOfUse'
  BY DEF IInv, ClientIsOfUse, AtPrompt, UsesClient, UsesPlanner
<1> QED
  BY <1>1, <1>2, <1>3, <1>4 DEF IInv

\* The start of a goal establishes what a run relies on, whatever was pending.
LEMMA StartRunKeeps ==
  ASSUME IInv, AtPrompt, NEW goal \in Goals, NEW typed \in BOOLEAN,
         StartRun(goal, typed), lastGoal' \in Goals \cup {None}
  PROVE  IInv'
<1>1. /\ run' = [goal |-> goal, cwd |-> cwd, mode |-> RunMode(goal), typed |-> typed]
      /\ override' = None /\ bound' = None /\ sticky' = None /\ narrowed' = {}
      /\ client' = IF UsesClient THEN Ensured(goal) ELSE client
      /\ fetched' = {} /\ call' = None
      /\ UNCHANGED <<flags, cwd, args, serves, open, asked>>
  BY DEF StartRun
<1>2. RunMode(goal) \in {"ReadOnly", "Implementation"}
  BY DEF RunMode
<1>3. Ensured(goal) \in [cwd : Dirs, model : Models \cup {None},
                         effort : {"set", "low", "default"}]
  BY DEF IInv, TypeOK, Ensured, RunEffort
<1>4. TypeOK'
  BY <1>1, <1>2, <1>3 DEF IInv, TypeOK
<1>5. DirectoryIsKept'
  BY <1>1 DEF IInv, DirectoryIsKept, AtPrompt
<1>6. RunEffort(goal)' = RunEffort(goal)
  BY <1>1 DEF RunEffort, RunMode
<1>7. ClientIsConfigured'
  BY <1>1, <1>6 DEF ClientIsConfigured, Ensured, RunEffort, RunMode, UsesClient, UsesPlanner
<1>8. QueueIsOfRun'
  BY <1>1 DEF QueueIsOfRun
<1>9. ClientIsOfUse'
  BY <1>1 DEF IInv, ClientIsOfUse, AtPrompt, UsesClient, UsesPlanner
<1> QED
  BY <1>4, <1>5, <1>7, <1>8, <1>9 DEF IInv

\* Every command, call and change of a window keeps the invariant.
LEMMA NextIInv == IInv /\ [Next]_vars => IInv'
<1> SUFFICES ASSUME IInv, [Next]_vars PROVE IInv'
  OBVIOUS
<1>1. ASSUME NEW d \in Dirs, Cd(d) PROVE IInv'
  <2>1. TypeOK'
    BY <1>1 DEF IInv, TypeOK, Cd
  <2>2. DirectoryIsKept' /\ ClientIsConfigured' /\ QueueIsOfRun' /\ ClientIsOfUse'
    BY <1>1 DEF IInv, Cd, AtPrompt, DirectoryIsKept, ClientIsConfigured, QueueIsOfRun,
               ClientIsOfUse, UsesClient, UsesPlanner
  <2> QED
    BY <2>1, <2>2 DEF IInv
<1>2. ASSUME NEW id \in Providers, Provider(id) PROVE IInv'
  <2>1. args' \in [provider : Providers, model : Models \cup {None},
                   mode : Modes, effort : BOOLEAN]
    BY <1>2 DEF IInv, TypeOK, Provider
  <2>2. client' # None => UsesClient'
    BY <1>2 DEF IInv, ClientIsOfUse, Provider, UsesClient, UsesPlanner
  <2> QED
    BY <1>2, <2>1, <2>2, SettingKeeps DEF Provider
<1>3. ASSUME NEW m \in Models \cup {None}, Model(m) PROVE IInv'
  <2>1. args' \in [provider : Providers, model : Models \cup {None},
                   mode : Modes, effort : BOOLEAN]
    BY <1>3 DEF IInv, TypeOK, Model
  <2>2. client' # None => UsesClient'
    BY <1>3 DEF IInv, TypeOK, ClientIsOfUse, Model, UsesClient, UsesPlanner
  <2> QED
    BY <1>3, <2>1, <2>2, SettingKeeps DEF Model
<1>4. ASSUME NEW set \in BOOLEAN, Effort(set) PROVE IInv'
  <2>1. args' \in [provider : Providers, model : Models \cup {None},
                   mode : Modes, effort : BOOLEAN]
    BY <1>4 DEF IInv, TypeOK, Effort
  <2>2. client' # None => UsesClient'
    BY <1>4 DEF IInv, TypeOK, ClientIsOfUse, Effort, UsesClient, UsesPlanner
  <2> QED
    BY <1>4, <2>1, <2>2, SettingKeeps DEF Effort
<1>5. ASSUME NEW m \in Modes, Mode(m) PROVE IInv'
  <2>1. args' \in [provider : Providers, model : Models \cup {None},
                   mode : Modes, effort : BOOLEAN]
    BY <1>5 DEF IInv, TypeOK, Mode
  <2>2. client' # None => UsesClient'
    BY <1>5 DEF IInv, TypeOK, ClientIsOfUse, Mode, UsesClient, UsesPlanner
  <2> QED
    BY <1>5, <2>1, <2>2, SettingKeeps DEF Mode
<1>6. CASE Sync
  <2>1. client # None => client' \in [cwd : Dirs, model : Models \cup {None},
                                      effort : {"set", "low", "default"}]
    BY <1>6 DEF IInv, TypeOK, Sync
  <2>2. TypeOK'
    BY <1>6, <2>1 DEF IInv, TypeOK, Sync
  <2>3. DirectoryIsKept' /\ ClientIsConfigured' /\ QueueIsOfRun'
    BY <1>6 DEF IInv, Sync, AtPrompt, DirectoryIsKept, ClientIsConfigured, QueueIsOfRun, UsesClient, UsesPlanner
  <2>4. ClientIsOfUse'
    BY <1>6 DEF IInv, Sync, AtPrompt, ClientIsOfUse, UsesClient, UsesPlanner
  <2> QED
    BY <2>2, <2>3, <2>4 DEF IInv
<1>7. CASE New
  <2>1. TypeOK'
    BY <1>7 DEF IInv, TypeOK, New, sync
  <2>2. DirectoryIsKept' /\ ClientIsConfigured' /\ QueueIsOfRun' /\ ClientIsOfUse'
    BY <1>7 DEF IInv, New, sync, AtPrompt, DirectoryIsKept, ClientIsConfigured,
               QueueIsOfRun, ClientIsOfUse, UsesClient, UsesPlanner
  <2> QED
    BY <2>1, <2>2 DEF IInv
<1>8. CASE Leave
  <2>1. TypeOK'
    BY <1>8 DEF IInv, TypeOK, Leave, sync
  <2>2. DirectoryIsKept' /\ ClientIsConfigured' /\ QueueIsOfRun' /\ ClientIsOfUse'
    BY <1>8 DEF IInv, Leave, sync, AtPrompt, DirectoryIsKept, ClientIsConfigured,
               QueueIsOfRun, ClientIsOfUse, UsesClient, UsesPlanner
  <2> QED
    BY <2>1, <2>2 DEF IInv
<1>9. ASSUME NEW goal \in Goals, Goal(goal) PROVE IInv'
  BY <1>9, StartRunKeeps DEF Goal
<1>10. CASE Retry
  <2>1. lastGoal \in Goals /\ lastGoal' = lastGoal
    BY <1>10 DEF IInv, TypeOK, Retry
  <2> QED
    BY <1>10, <2>1, StartRunKeeps DEF Retry
<1>11. ASSUME NEW s \in Skills, Fetch(s) PROVE IInv'
  <2>1. SkillDir[s] \in Dirs /\ SkillDir[s] # None
    BY WorkspaceAssumptions
  <2>2. TypeOK'
    BY <1>11, <2>1 DEF IInv, TypeOK, Fetch
  <2>3. DirectoryIsKept'
    BY <1>11, <2>1 DEF IInv, Fetch, InRun, DirectoryIsKept
  <2>4. ClientIsConfigured'
    BY <1>11 DEF IInv, Fetch, ClientIsConfigured, RunEffort, RunMode, UsesClient, UsesPlanner
  <2>5. QueueIsOfRun'
    BY <1>11 DEF IInv, Fetch, InRun, QueueIsOfRun
  <2>6. ClientIsOfUse'
    BY <1>11 DEF IInv, Fetch, ClientIsOfUse, UsesClient, UsesPlanner
  <2> QED
    BY <2>2, <2>3, <2>4, <2>5, <2>6 DEF IInv
<1>12. ASSUME NEW d \in Dirs \cup {None}, Routed(d) PROVE IInv'
  <2> DEFINE dir == IF d = None THEN DefaultDir ELSE d
  <2>1. dir \in Dirs
    BY <1>12 DEF IInv, TypeOK, Routed, InRun, DefaultDir
  <2>2. PICK w \in Windows, by \in {"bind", "hand"} :
          /\ bound' = [dir |-> dir, window |-> w, by |-> by]
          /\ call' = [dir |-> dir, named |-> d # None, by |-> by]
          /\ serves' = serves \/ serves' = [serves EXCEPT ![w] = dir]
    BY <1>12 DEF IInv, TypeOK, Routed
  <2>3. /\ run # None
        /\ override' = IF d = None THEN None ELSE override
        /\ UNCHANGED <<flags, cwd, args, lastGoal, client, run, sticky, narrowed, open,
                       asked, fetched>>
    BY <1>12 DEF Routed, InRun
  <2>4. TypeOK'
    BY <2>1, <2>2, <2>3 DEF IInv, TypeOK
  <2>5. DirectoryIsKept' /\ ClientIsOfUse'
    BY <2>3 DEF IInv, DirectoryIsKept, ClientIsOfUse, UsesClient, UsesPlanner
  <2>6. ClientIsConfigured'
    BY <2>3 DEF IInv, ClientIsConfigured, RunEffort, RunMode, UsesClient, UsesPlanner
  <2>7. QueueIsOfRun'
    BY <2>2, <2>3 DEF IInv, QueueIsOfRun, DefaultDir
  <2> QED
    BY <2>4, <2>5, <2>6, <2>7 DEF IInv
<1>13. ASSUME NEW w \in Windows, ToWindow(w) PROVE IInv'
  <2>1. DefaultDir \in Dirs
    BY <1>13 DEF IInv, TypeOK, ToWindow, InRun, DefaultDir
  <2>2. TypeOK'
    BY <1>13, <2>1 DEF IInv, TypeOK, ToWindow
  <2>3. DirectoryIsKept' /\ ClientIsOfUse'
    BY <1>13 DEF IInv, ToWindow, DirectoryIsKept, ClientIsOfUse, UsesClient, UsesPlanner
  <2>4. ClientIsConfigured'
    BY <1>13 DEF IInv, ToWindow, ClientIsConfigured, RunEffort, RunMode, UsesClient, UsesPlanner
  <2>5. QueueIsOfRun'
    BY <1>13 DEF IInv, ToWindow, InRun, QueueIsOfRun, DefaultDir
  <2> QED
    BY <2>2, <2>3, <2>4, <2>5 DEF IInv
<1>14. CASE BindFails
  <2>1. TypeOK'
    BY <1>14 DEF IInv, TypeOK, BindFails
  <2>2. DirectoryIsKept' /\ ClientIsOfUse' /\ QueueIsOfRun'
    BY <1>14 DEF IInv, BindFails, DirectoryIsKept, ClientIsOfUse, QueueIsOfRun, UsesClient, UsesPlanner
  <2>3. ClientIsConfigured'
    BY <1>14 DEF IInv, BindFails, ClientIsConfigured, RunEffort, RunMode, UsesClient, UsesPlanner
  <2> QED
    BY <2>1, <2>2, <2>3 DEF IInv
<1>15. CASE EndRun
  <2>1. run' = None
    BY <1>15 DEF EndRun
  <2>2. client # None /\ sticky # None =>
          [client EXCEPT !.cwd = sticky] \in [cwd : Dirs, model : Models \cup {None},
                                              effort : {"set", "low", "default"}]
    BY DEF IInv, TypeOK
  <2>3. TypeOK'
    BY <1>15, <2>1, <2>2 DEF IInv, TypeOK, EndRun
  <2>4. DirectoryIsKept'
    BY <1>15, <2>1 DEF IInv, EndRun, InRun, DirectoryIsKept
  <2>5. ClientIsConfigured' /\ QueueIsOfRun'
    BY <2>1 DEF ClientIsConfigured, QueueIsOfRun, UsesClient, UsesPlanner
  <2>6. ClientIsOfUse'
    BY <1>15 DEF IInv, EndRun, ClientIsOfUse, UsesClient, UsesPlanner
  <2> QED
    BY <2>3, <2>4, <2>5, <2>6 DEF IInv
<1>16. ASSUME NEW w \in Windows, NEW d \in Dirs \cup {None}, WindowChanges(w, d) PROVE IInv'
  <2>1. TypeOK'
    BY <1>16 DEF IInv, TypeOK, WindowChanges, sync
  <2>2. DirectoryIsKept' /\ ClientIsOfUse' /\ QueueIsOfRun'
    BY <1>16 DEF IInv, WindowChanges, sync, DirectoryIsKept, ClientIsOfUse, QueueIsOfRun, UsesClient, UsesPlanner
  <2>3. ClientIsConfigured'
    BY <1>16 DEF IInv, WindowChanges, ClientIsConfigured, RunEffort, RunMode, UsesClient, UsesPlanner
  <2> QED
    BY <2>1, <2>2, <2>3 DEF IInv
<1>17. CASE UNCHANGED vars
  <2>1. TypeOK'
    BY <1>17 DEF IInv, TypeOK, vars, sync
  <2>2. DirectoryIsKept' /\ ClientIsOfUse' /\ QueueIsOfRun'
    BY <1>17 DEF IInv, vars, sync, DirectoryIsKept, ClientIsOfUse, QueueIsOfRun, UsesClient, UsesPlanner
  <2>3. ClientIsConfigured'
    BY <1>17 DEF IInv, vars, sync, ClientIsConfigured, RunEffort, RunMode, UsesClient, UsesPlanner
  <2> QED
    BY <2>1, <2>2, <2>3 DEF IInv
<1> QED
  BY <1>1, <1>2, <1>3, <1>4, <1>5, <1>6, <1>7, <1>8, <1>9, <1>10, <1>11, <1>12, <1>13,
     <1>14, <1>15, <1>16, <1>17 DEF Next

\* The invariant holds in every state of the shell.
LEMMA Invariance == Spec => []IInv
<1> QED
  BY InitIInv, NextIInv, PTL DEF Spec

-----------------------------------------------------------------------------

\* The state of the shell and of the thread's RepoPrompt bookkeeping keeps its types.
THEOREM TypeCorrect == Spec => []TypeOK
<1>1. IInv => TypeOK
  BY DEF IInv
<1> QED
  BY <1>1, Invariance, PTL

\* A run, and the Codex client it uses, work in the directory the user last asked
\* for, by /cd or through a sticky skill of a typed goal (CodexSession::ensure,
\* poll_sticky_cwd_into_workspace); with --codex whatever the provider is.
THEOREM WorksWhereAsked == Spec => []RunsWhereAsked
<1>1. IInv => RunsWhereAsked
  BY DEF IInv, DirectoryIsKept, ClientIsConfigured, RunsWhereAsked, InRun, UsesClient, UsesPlanner
<1> QED
  BY <1>1, Invariance, PTL

\* RepoPrompt calls without directories of their own, and the tools that are narrowed,
\* are a matter of the run and of the skills it fetched (the resets of run_goal).
THEOREM CallsAreOfRun == Spec => []CallsStayInRun
<1>1. IInv => CallsStayInRun
  BY DEF IInv, QueueIsOfRun, CallsStayInRun, InRun
<1> QED
  BY <1>1, Invariance, PTL

\* No Codex client is kept while no goal would use it, with whatever flags the shell
\* was started (handle_provider_command).
THEOREM ClientIsUsed == Spec => []ClientIsOfUse
<1>1. IInv => ClientIsOfUse
  BY DEF IInv
<1> QED
  BY <1>1, Invariance, PTL
=============================================================================
