------------------------- MODULE EngineManager_proofs -------------------------
(***************************************************************************)
(* Proofs about EngineManager for any backends, dictations, requests and   *)
(* environments.  The inductive invariant adds to the types under which    *)
(* backend an engine is registered, which thread can be where, which of    *)
(* them have a backend and an engine at hand, and that a backend is noted  *)
(* once in _model_access_times.  A second one, Calm, holds only where      *)
(* nothing goes wrong: it says which registered engines have their model   *)
(* in memory at every place of a load, a change and a dictation.  A third  *)
(* one, LocksKept, says who keeps which lock where, and gives an order in  *)
(* which the threads wait for one another.                                 *)
(***************************************************************************)
EXTENDS EngineManager, FiniteSetTheorems, TLAPS

(* An engine is registered for its own backend: the fallback, which gives    *)
(* whisper a new model or takes it away, meets no in-process engine.         *)
RegistryKeyed == \A b \in Backend : registry[b] # None => registry[b][1] = b

(* The idle time only looks and unloads; a transcription never loads.        *)
Places ==
    /\ at[Idler] \in {"off", "looks", "unloads"}
    /\ \A t \in Transcriber :
          at[t] \in {"off", "looks", "joins", "lazy", "rereads", "marks", "calls", "infers",
                     "unmarks", "touches"}

(* Who loads, or changes the model, has a backend from the first step on,    *)
(* and an engine at hand when it comes to the load.                          *)
MayLoad == {Loader} \cup Starter \cup Changing
NameKnown == \A t \in MayLoad :
    at[t] \in {"off", "spent", "applies", "looks", "asks", "joins", "lazy", "verifies", "replaces",
              "judges", "finishes"} \/ name[t] \in Backend

HeldKnown == \A t \in Thread : at[t] \in {"locks", "loads"} => held[t] \in Engine

(* dict keys: a touch of a backend moves it to the end.                      *)
TouchedOnce == \A i, j \in 1..Len(recency) : recency[i] = recency[j] => i = j

-----------------------------------------------------------------------------
(* The constants, threads and places.                                        *)

LEMMA Constants ==
  /\ Whisper \in Backend /\ Nothing \notin Backend
  /\ MaxStarts \in Nat /\ MaxStarts > 0 /\ MaxChanges \in Nat /\ MaxFailures \in Nat
  /\ \A e \in Environments : /\ e.starts \in 1..MaxStarts /\ e.changes \in 0..MaxChanges
                             /\ e.installed \subseteq Backend /\ e.models \in Nat
  BY EngineAssumption DEF EngineConstants, Environment

LEMMA Threads ==
  /\ Loader \in Thread /\ Hotkey \in Thread /\ Idler \in Thread
  /\ Starter \subseteq Thread /\ Transcriber \subseteq Thread /\ Changer \subseteq Thread
  /\ Changing \subseteq Thread /\ None \notin Engine
  /\ Idler \notin Transcriber \cup Starter \cup Changing \cup {Loader}
  /\ \A t \in Transcriber : t \notin Starter \cup Changing \cup {Loader, Hotkey, Idler}
  BY DEF Thread, Loader, Hotkey, Idler, Starter, Transcriber, Changer, Changing, None,
         Engine

LEMMA ThreadsApart ==
  /\ Loader \notin Transcriber \cup {Idler} /\ Hotkey \notin Transcriber \cup {Idler}
  /\ \A c \in Changer : c \notin Transcriber \cup {Idler}
  /\ \A n : <<"starter", n>> \notin Transcriber /\ <<"starter", n>> # Idler
  /\ \A n : <<"transcriber", n>> # Idler
  BY DEF Transcriber, Idler, Loader, Hotkey, Changer

LEMMA AfterEnsurePlace == \A t : AfterEnsure(t) \in {"tries", "revalidates", "resolves"}
  BY DEF AfterEnsure

LEMMA OthersMove ==
  ASSUME Places, \A u \in Transcriber \cup {Idler} : at'[u] = at[u]
  PROVE  Places'
  BY DEF Places

(* Only loader, start workers and changes load.                              *)
LEMMA WhoLoads ==
  ASSUME Places, NEW t \in Thread,
         at[t] \notin {"off", "looks", "unloads", "joins", "lazy", "rereads", "marks", "calls",
                       "infers", "unmarks", "touches"}
  PROVE  t \in MayLoad
  BY DEF Places, Thread, MayLoad, Changing

LEMMA NextPlaces ==
  ASSUME NEW t \in MayLoad
  PROVE  NextPlace(t) \in {"finishes", "verifies", "judges", "spent", "applies"}
  BY DEF NextPlace, MayLoad, Changing, Loader, Hotkey, Starter, Changer

(* What is created anew is nobody's engine.                                  *)
LEMMA FreshIsUnheld ==
  ASSUME NEW b, CanCreate(b)
  PROVE  /\ Fresh(b)[1] = b /\ \A t \in Thread : held[t] # Fresh(b)
         /\ b \in Backend => Fresh(b) \in Engine
  <1>1. Fresh(b) \in {b} \X Serials /\ Unreferred(Fresh(b))
    BY DEF CanCreate, Fresh
  <1> QED
    BY <1>1 DEF Engine, Unreferred

-----------------------------------------------------------------------------
(* The order of the touches.                                                 *)

LEMMA WithoutType ==
  ASSUME NEW s \in Seq(Backend), \A i, j \in 1..Len(s) : s[i] = s[j] => i = j, NEW b
  PROVE  /\ Without(s, b) \in Seq(Backend)
         /\ \A i, j \in 1..Len(Without(s, b)) : Without(s, b)[i] = Without(s, b)[j] => i = j
         /\ \A i \in 1..Len(Without(s, b)) : Without(s, b)[i] # b
  <1>1. CASE \E i \in 1..Len(s) : s[i] = b
    <2> DEFINE k == CHOOSE i \in 1..Len(s) : s[i] = b
               w == [j \in 1..(Len(s) - 1) |-> IF j < k THEN s[j] ELSE s[j + 1]]
    <2>1. k \in 1..Len(s) /\ s[k] = b
      BY <1>1
    <2>2. Len(s) \in Nat
      OBVIOUS
    <2>3. Without(s, b) = w
      BY <1>1 DEF Without
    <2> HIDE DEF k
    <2>4. \A j \in 1..(Len(s) - 1) : w[j] \in Backend /\ w[j] # b
      BY <2>1, <2>2
    <2>5. w \in Seq(Backend) /\ Len(w) = Len(s) - 1
      <3>1. Len(s) - 1 \in Nat
        BY <2>1, <2>2
      <3>2. w \in [1..(Len(s) - 1) -> Backend]
        BY <2>4
      <3> HIDE DEF w
      <3> QED
        BY <3>1, <3>2
    <2>6. \A i, j \in 1..(Len(s) - 1) : w[i] = w[j] => i = j
      BY <2>1, <2>2
    <2> HIDE DEF w
    <2> QED
      BY <2>3, <2>4, <2>5, <2>6
  <1>2. CASE ~\E i \in 1..Len(s) : s[i] = b
    BY <1>2 DEF Without
  <1> QED
    BY <1>1, <1>2

LEMMA NoMoreThanBackends ==
  ASSUME NEW s \in Seq(Backend), \A i, j \in 1..Len(s) : s[i] = s[j] => i = j
  PROVE  Len(s) <= Cardinality(Backend)
  <1>1. IsFiniteSet(Backend) /\ Len(s) \in Nat
    BY EngineAssumption DEF EngineConstants
  <1>2. s \in [1..Len(s) -> Backend]
    OBVIOUS
  <1>3. s \in Injection(1..Len(s), Backend)
    BY <1>2 DEF Injection, IsInjective
  <1>4. Cardinality(1..Len(s)) <= Cardinality(Backend)
    BY <1>1, <1>3, FS_Injection
  <1>5. Cardinality(1..Len(s)) = Len(s)
    <2>1. ASSUME NEW n \in Nat PROVE Cardinality(1..n) = n
      <3>1. Cardinality(1..n) = IF 1 > n THEN 0 ELSE n - 1 + 1
        BY FS_Interval
      <3> QED
        BY <3>1
    <2> QED
      BY <1>1, <2>1
  <1> QED
    BY <1>4, <1>5

LEMMA AppendType ==
  ASSUME NEW s \in Seq(Backend), NEW b \in Backend
  PROVE  /\ Append(s, b) \in Seq(Backend) /\ Append(s, b) # <<>>
         /\ Len(Append(s, b)) = Len(s) + 1 /\ Len(s) \in Nat
         /\ \A i \in 1..(Len(s) + 1) : Append(s, b)[i] = IF i = Len(s) + 1 THEN b ELSE s[i]
         /\ Head(Append(s, b)) \in Backend
  <1>1. Append(s, b) \in Seq(Backend) /\ Len(Append(s, b)) = Len(s) + 1 /\ Len(s) \in Nat
    OBVIOUS
  <1>2. Append(s, b) # <<>>
    <2>1. Len(Append(s, b)) # 0
      BY <1>1
    <2> QED
      BY <1>1, <2>1
  <1>3. ASSUME NEW i \in 1..(Len(s) + 1)
        PROVE  Append(s, b)[i] = IF i = Len(s) + 1 THEN b ELSE s[i]
    OBVIOUS
  <1>4. ASSUME NEW q \in Seq(Backend), q # <<>> PROVE Head(q) \in Backend
    BY <1>4
  <1> QED
    BY <1>1, <1>2, <1>3, <1>4

LEMMA TouchedType ==
  ASSUME RecencyType, TouchedOnce, NEW b \in Backend
  PROVE  /\ Touched(b) \in Seq(Backend) /\ Head(Touched(b)) \in Backend
         /\ \A i, j \in 1..Len(Touched(b)) : Touched(b)[i] = Touched(b)[j] => i = j
  <1> DEFINE w == Without(recency, b)
  <1>1. /\ w \in Seq(Backend)
        /\ \A i, j \in 1..Len(w) : w[i] = w[j] => i = j
        /\ \A i \in 1..Len(w) : w[i] # b
    BY WithoutType DEF RecencyType, TouchedOnce
  <1>2. Touched(b) = Append(w, b)
    BY DEF Touched
  <1> HIDE DEF w
  <1>3. /\ Append(w, b) \in Seq(Backend) /\ Head(Append(w, b)) \in Backend
        /\ Len(Append(w, b)) = Len(w) + 1 /\ Len(w) \in Nat
        /\ \A i \in 1..(Len(w) + 1) : Append(w, b)[i] = IF i = Len(w) + 1 THEN b ELSE w[i]
    BY <1>1, AppendType
  <1>4. \A i, j \in 1..Len(Append(w, b)) : Append(w, b)[i] = Append(w, b)[j] => i = j
    BY <1>1, <1>3
  <1> QED
    BY <1>2, <1>3, <1>4

-----------------------------------------------------------------------------
(* Steps: each part of the types, then what is added to them.                *)

LEMMA RegistryStep ==
  ASSUME RegistryType, ThreadType, ManagerType, EngineType, NameKnown,
         [EngineManagerNext]_engineManagerVars
  PROVE  RegistryType'
  <1> USE Constants, Threads DEF RegistryType, ThreadType, ManagerType, NameKnown, MayLoad,
                                 Goes, GoesWith, registryVars, engineVars, managerVars,
                                 dictationVars, threadVars
  <1>1. ASSUME NEW t \in Thread, Waits(t) PROVE RegistryType'
    BY <1>1 DEF Waits
  <1>2. ASSUME NEW t \in Thread, Creates(t) PROVE RegistryType'
    <2>1. UNCHANGED <<env, config, waiting, marked, failures>>
      BY <1>2 DEF Creates, registryVars, engineVars, managerVars, dictationVars, threadVars
    <2>2. CASE name[t] \in Backend
      <3>1. Fresh(name[t]) \in Engine
        BY <1>2, <2>2, FreshIsUnheld DEF Creates
      <3>2. registry' = [registry EXCEPT ![name[t]] = Fresh(name[t])]
        BY <1>2 DEF Creates
      <3> QED
        BY <2>1, <3>1, <3>2
    <2>3. CASE name[t] \notin Backend
      <3>1. registry' = [registry EXCEPT ![name[t]] = Fresh(name[t])]
        BY <1>2 DEF Creates
      <3>2. registry' = registry
        BY <2>3, <3>1
      <3> QED
        BY <2>1, <3>2
    <2> QED
      BY <2>2, <2>3
  <1>3. ASSUME NEW t \in Thread, Whispers(t) PROVE RegistryType'
    BY <1>3, FreshIsUnheld DEF Whispers
  <1>4. ASSUME NEW t \in Thread, Counts(t) PROVE RegistryType'
    BY <1>4 DEF Counts
  <1>5. ASSUME NEW t \in Thread, Forgets(t) PROVE RegistryType'
    BY <1>5 DEF Forgets, Concludes
  <1>6. ASSUME NEW t \in Changing, Enters(t) PROVE RegistryType'
    BY <1>6 DEF Enters, Concludes
  <1>7. ASSUME NEW t \in Changing, UnregistersOld(t) PROVE RegistryType'
    BY <1>7 DEF UnregistersOld
  <1>8. ASSUME NEW c \in Changer, NEW b \in Backend, RequestsBackend(c, b)
        PROVE  RegistryType'
    BY <1>8 DEF RequestsBackend, Requests
  <1>9. CASE HotkeyLooks
    BY <1>9 DEF HotkeyLooks, Looks
  <1>10. CASE IdlerLooks
    BY <1>10 DEF IdlerLooks, Looks
  <1>11. ASSUME NEW t \in Starter, Verifies(t) PROVE RegistryType'
    BY <1>11 DEF Verifies, Looks
  <1>12. ASSUME NEW t \in Starter, Replaces(t) PROVE RegistryType'
    BY <1>12 DEF Replaces
  <1>13. ASSUME NEW t \in Starter, Judges(t) PROVE RegistryType'
    BY <1>13 DEF Judges, Looks
  <1>14. ASSUME NEW t \in Transcriber, TranscriberLooks(t) PROVE RegistryType'
    BY <1>14 DEF TranscriberLooks, Looks
  <1>15. ASSUME NEW t \in Transcriber, TranscriberRereads(t) PROVE RegistryType'
    BY <1>15 DEF TranscriberRereads, Looks, Loses
  <1>16. ASSUME NEW t \in Transcriber, Marks(t) PROVE RegistryType'
    BY <1>16 DEF Marks
  <1>17. ASSUME NEW t \in Transcriber, Calls(t) PROVE RegistryType'
    BY <1>17 DEF Calls, Loses
  <1>18. ASSUME NEW t \in Transcriber, Unmarks(t) PROVE RegistryType'
    BY <1>18 DEF Unmarks
  <1>19. ASSUME NEW t \in Transcriber, Recovers(t) PROVE RegistryType'
    BY <1>19 DEF Recovers
  <1>20. ASSUME NEW t \in Thread,
               \/ Ensures(t) \/ Resolves(t) \/ Tries(t) \/ Locks(t) \/ Drops(t)
               \/ LoadReturns(t) \/ LoadRaises(t) \/ LoadIsRefused(t)
               \/ Succeeds(t) \/ Ejects(t) \/ Fails(t)
         PROVE  UNCHANGED <<env, config, registry, waiting, marked, failures>>
    BY <1>20 DEF Ensures, Resolves, Tries, Locks, Drops, LoadReturns, EndsLoad, LoadRaises,
                 LoadIsRefused, Succeeds, Concludes, Ejects, Fails
  <1>21. ASSUME NEW t \in Changing, UnloadsOld(t)
         PROVE  UNCHANGED <<env, config, registry, waiting, marked, failures>>
    BY <1>21 DEF UnloadsOld
  <1>22. ASSUME NEW c \in Changer, NEW b \in Backend, RequestsModel(c, b)
         PROVE  UNCHANGED <<env, config, registry, waiting, marked, failures>>
    BY <1>22 DEF RequestsModel, Requests
  <1>23. ASSUME
               \/ LoaderEnds \/ HotkeyPresses \/ HotkeyStops \/ HotkeyApplies
               \/ IdleTimePasses \/ IdlerUnloads \/ UNCHANGED engineManagerVars
         PROVE  UNCHANGED <<env, config, registry, waiting, marked, failures>>
    BY <1>23 DEF LoaderEnds, HotkeyPresses, HotkeyStops, HotkeyApplies, IdleTimePasses,
                 IdlerUnloads, engineManagerVars
  <1>24. ASSUME NEW t \in Starter, StarterAsks(t) \/ StarterEnters(t) \/ Revalidates(t) \/ Checks(t)
         PROVE  UNCHANGED <<env, config, registry, waiting, marked, failures>>
    BY <1>24 DEF StarterAsks, StarterEnters, Revalidates, Checks, Concludes
  <1>25. ASSUME NEW t \in Starter \cup Transcriber, Joins(t)
         PROVE  UNCHANGED <<env, config, registry, waiting, marked, failures>>
    BY <1>25 DEF Joins
  <1>26. ASSUME NEW t \in Transcriber, TranscriberGivesUp(t) \/ InferenceEnds(t) \/ Touches(t)
         PROVE  UNCHANGED <<env, config, registry, waiting, marked, failures>>
    BY <1>26 DEF TranscriberGivesUp, Loses, InferenceEnds, Touches
  <1> QED
    BY <1>1, <1>2, <1>3, <1>4, <1>5, <1>6, <1>7, <1>8, <1>9, <1>10, <1>11, <1>12, <1>13,
       <1>14, <1>15, <1>16, <1>17, <1>18, <1>19, <1>20, <1>21, <1>22, <1>23, <1>24, <1>25,
       <1>26
    DEF EngineManagerNext, LoadSteps, LoadEnds, ChangeSteps, StarterSteps, TranscriberSteps,
        IdlerSteps

LEMMA EngineStep ==
  ASSUME RegistryType, ThreadType, EngineType, HeldKnown,
         [EngineManagerNext]_engineManagerVars
  PROVE  EngineType'
  <1> USE Constants, Threads DEF RegistryType, ThreadType, EngineType, HeldKnown, Goes,
                                 GoesWith, Unloads, registryVars, engineVars, managerVars,
                                 dictationVars, threadVars
  <1>1. ASSUME NEW t \in Thread, Locks(t) PROVE EngineType'
    BY <1>1 DEF Locks
  <1>2. ASSUME NEW t \in Thread, Creates(t) PROVE EngineType'
    BY <1>2 DEF Creates
  <1>3. ASSUME NEW t \in Thread, Whispers(t) PROVE EngineType'
    BY <1>3, FreshIsUnheld DEF Whispers
  <1>4. ASSUME NEW t \in Thread, Drops(t) PROVE EngineType'
    BY <1>4 DEF Drops
  <1>5. ASSUME NEW t \in Thread, LoadReturns(t) PROVE EngineType'
    BY <1>5 DEF LoadReturns, EndsLoad
  <1>6. ASSUME NEW t \in Thread, LoadRaises(t) PROVE EngineType'
    BY <1>6 DEF LoadRaises, EndsLoad
  <1>7. ASSUME NEW t \in Thread, LoadIsRefused(t) PROVE EngineType'
    BY <1>7 DEF LoadIsRefused, EndsLoad
  <1>8. ASSUME NEW t \in Thread, Ejects(t) PROVE EngineType'
    BY <1>8 DEF Ejects
  <1>9. ASSUME NEW t \in Changing, UnloadsOld(t) PROVE EngineType'
    BY <1>9 DEF UnloadsOld
  <1>10. CASE IdlerUnloads
    BY <1>10 DEF IdlerUnloads
  <1>11. ASSUME NEW t \in Thread,
               \/ Waits(t) \/ Ensures(t) \/ Resolves(t) \/ Tries(t) \/ Counts(t)
               \/ Succeeds(t) \/ Forgets(t) \/ Fails(t)
         PROVE  UNCHANGED <<loaded, loading>>
    BY <1>11 DEF Waits, Ensures, Resolves, Tries, Counts, Succeeds, Concludes, Forgets,
                 Fails
  <1>12. ASSUME NEW t \in Changing, Enters(t) \/ UnregistersOld(t)
         PROVE  UNCHANGED <<loaded, loading>>
    BY <1>12 DEF Enters, Concludes, UnregistersOld
  <1>13. ASSUME NEW c \in Changer, NEW b \in Backend, RequestsModel(c, b) \/ RequestsBackend(c, b)
         PROVE  UNCHANGED <<loaded, loading>>
    BY <1>13 DEF RequestsModel, Requests, RequestsBackend
  <1>14. ASSUME
               \/ LoaderEnds \/ HotkeyPresses \/ HotkeyStops \/ HotkeyLooks
               \/ HotkeyApplies \/ IdleTimePasses \/ IdlerLooks
               \/ UNCHANGED engineManagerVars
         PROVE  UNCHANGED <<loaded, loading>>
    BY <1>14 DEF LoaderEnds, HotkeyPresses, HotkeyStops, HotkeyLooks, Looks, HotkeyApplies,
                 IdleTimePasses, IdlerLooks, engineManagerVars
  <1>15. ASSUME NEW t \in Starter,
               \/ StarterAsks(t) \/ StarterEnters(t) \/ Revalidates(t)
               \/ Checks(t) \/ Verifies(t) \/ Replaces(t) \/ Judges(t)
         PROVE  UNCHANGED <<loaded, loading>>
    BY <1>15 DEF StarterAsks, StarterEnters, Revalidates, Checks, Concludes, Verifies,
                 Looks, Replaces, Judges
  <1>16. ASSUME NEW t \in Starter \cup Transcriber, Joins(t)
         PROVE  UNCHANGED <<loaded, loading>>
    BY <1>16 DEF Joins
  <1>17. ASSUME NEW t \in Transcriber,
               \/ TranscriberLooks(t) \/ TranscriberRereads(t)
               \/ TranscriberGivesUp(t) \/ Marks(t) \/ Calls(t)
               \/ InferenceEnds(t) \/ Unmarks(t) \/ Touches(t) \/ Recovers(t)
         PROVE  UNCHANGED <<loaded, loading>>
    BY <1>17 DEF TranscriberLooks, Looks, TranscriberRereads, Loses, TranscriberGivesUp,
                 Marks, Calls, InferenceEnds, Unmarks, Touches, Recovers
  <1> QED
    BY <1>1, <1>2, <1>3, <1>4, <1>5, <1>6, <1>7, <1>8, <1>9, <1>10, <1>11, <1>12, <1>13,
       <1>14, <1>15, <1>16, <1>17
    DEF EngineManagerNext, LoadSteps, LoadEnds, ChangeSteps, StarterSteps, TranscriberSteps,
        IdlerSteps

LEMMA ArmedByType == ManagerType => \A b : ArmedBy(b) \in BOOLEAN
  <1> SUFFICES ASSUME ManagerType, NEW b PROVE ArmedBy(b) \in BOOLEAN
    OBVIOUS
  <1>1. CASE b = config
    BY <1>1 DEF ArmedBy
  <1>2. CASE b # config
    BY <1>2 DEF ArmedBy, ManagerType
  <1> QED
    BY <1>1, <1>2

LEMMA ManagerStep ==
  ASSUME RegistryType, ThreadType, RecencyType, ManagerType, NameKnown,
         [EngineManagerNext]_engineManagerVars
  PROVE  ManagerType'
  <1> USE Constants, Threads DEF RegistryType, ThreadType, ManagerType, NameKnown, MayLoad,
                                 registryVars, engineVars, managerVars, dictationVars,
                                 threadVars
  <1>1. ASSUME NEW t \in Thread, Succeeds(t) PROVE ManagerType'
    <2>1. armed' \in BOOLEAN
      BY <1>1, ArmedByType DEF Succeeds
    <2>2. lazyLock' \in {lazyLock, None} /\ changeLock' \in {changeLock, None}
      <3>1. (UNCHANGED <<lazyLock, changeLock>>) \/ Concludes(t)
        BY <1>1 DEF Succeeds
      <3> QED
        BY <3>1 DEF Concludes
    <2>3. UNCHANGED <<deferred, pending>>
      BY <1>1 DEF Succeeds
    <2> QED
      BY <2>1, <2>2, <2>3
  <1>2. ASSUME NEW t \in Thread, Forgets(t) PROVE ManagerType'
    BY <1>2 DEF Forgets, Concludes
  <1>3. ASSUME NEW t \in Thread, Fails(t) PROVE ManagerType'
    BY <1>3 DEF Fails, Concludes
  <1>4. ASSUME NEW t \in Changing, Enters(t) PROVE ManagerType'
    <2>1. lazyLock' \in {lazyLock, None} /\ changeLock' \in {changeLock, None, t}
      BY <1>4 DEF Enters, Concludes
    <2>2. name[t] \in Backend /\ kind[t] \in {"model", "backend"}
      BY <1>4 DEF Enters
    <2>3. \/ UNCHANGED deferred
          \/ deferred' = [deferred EXCEPT ![kind[t]] = name[t]]
          \/ deferred' = [k \in DOMAIN deferred |-> Nothing]
      BY <1>4 DEF Enters
    <2>4. deferred' \in [{"model", "backend"} -> Backend \cup {Nothing}]
      BY <2>2, <2>3
    <2>5. armed' = FALSE /\ UNCHANGED pending
      BY <1>4 DEF Enters
    <2> QED
      BY <2>1, <2>4, <2>5
  <1>5. ASSUME NEW c \in Changer, NEW b \in Backend, RequestsModel(c, b) PROVE ManagerType'
    BY <1>5 DEF RequestsModel, Requests
  <1>6. ASSUME NEW c \in Changer, NEW b \in Backend, RequestsBackend(c, b)
        PROVE  ManagerType'
    <2>1. armed' = FALSE /\ UNCHANGED <<pending, lazyLock, changeLock>>
      BY <1>6 DEF RequestsBackend, Requests
    <2>2. UNCHANGED deferred \/ deferred' = [deferred EXCEPT !["backend"] = b]
      BY <1>6 DEF RequestsBackend
    <2>3. deferred' \in [{"model", "backend"} -> Backend \cup {Nothing}]
      BY <2>2
    <2> QED
      BY <2>1, <2>3
  <1>7. CASE LoaderEnds
    BY <1>7 DEF LoaderEnds
  <1>8. CASE HotkeyApplies
    BY <1>8 DEF HotkeyApplies
  <1>9. CASE IdleTimePasses
    BY <1>9 DEF IdleTimePasses
  <1>10. ASSUME NEW t \in Starter, StarterAsks(t) PROVE ManagerType'
    BY <1>10 DEF StarterAsks
  <1>11. ASSUME NEW t \in Starter, StarterEnters(t) PROVE ManagerType'
    BY <1>11 DEF StarterEnters
  <1>12. ASSUME NEW t \in Starter, Checks(t) PROVE ManagerType'
    BY <1>12 DEF Checks, Concludes
  <1>13. ASSUME NEW t \in Transcriber, Touches(t) PROVE ManagerType'
    <2>1. armed' \in BOOLEAN
      BY <1>13, ArmedByType DEF Touches
    <2>2. UNCHANGED <<deferred, pending, lazyLock, changeLock>>
      BY <1>13 DEF Touches
    <2> QED
      BY <2>1, <2>2
  <1>14. ASSUME NEW t \in Thread,
               \/ Waits(t) \/ Ensures(t) \/ Resolves(t) \/ Tries(t) \/ Locks(t)
               \/ Creates(t) \/ Whispers(t) \/ Counts(t) \/ Drops(t)
               \/ LoadReturns(t) \/ LoadRaises(t) \/ LoadIsRefused(t)
               \/ Ejects(t)
         PROVE  UNCHANGED <<armed, deferred, pending, lazyLock, changeLock>>
    BY <1>14 DEF Waits, Ensures, Resolves, Tries, Locks, Creates, Whispers, Counts, Drops,
                 LoadReturns, EndsLoad, LoadRaises, LoadIsRefused, Ejects
  <1>15. ASSUME NEW t \in Changing, UnloadsOld(t) \/ UnregistersOld(t)
         PROVE  UNCHANGED <<armed, deferred, pending, lazyLock, changeLock>>
    BY <1>15 DEF UnloadsOld, UnregistersOld
  <1>16. ASSUME
               \/ HotkeyPresses \/ HotkeyStops \/ HotkeyLooks \/ IdlerLooks
               \/ IdlerUnloads \/ UNCHANGED engineManagerVars
         PROVE  UNCHANGED <<armed, deferred, pending, lazyLock, changeLock>>
    BY <1>16 DEF HotkeyPresses, HotkeyStops, HotkeyLooks, Looks, IdlerLooks, IdlerUnloads,
                 engineManagerVars
  <1>17. ASSUME NEW t \in Starter, Revalidates(t) \/ Verifies(t) \/ Replaces(t) \/ Judges(t)
         PROVE  UNCHANGED <<armed, deferred, pending, lazyLock, changeLock>>
    BY <1>17 DEF Revalidates, Verifies, Looks, Replaces, Judges
  <1>18. ASSUME NEW t \in Starter \cup Transcriber, Joins(t)
         PROVE  UNCHANGED <<armed, deferred, pending, lazyLock, changeLock>>
    BY <1>18 DEF Joins
  <1>19. ASSUME NEW t \in Transcriber,
               \/ TranscriberLooks(t) \/ TranscriberRereads(t)
               \/ TranscriberGivesUp(t) \/ Marks(t) \/ Calls(t)
               \/ InferenceEnds(t) \/ Unmarks(t) \/ Recovers(t)
         PROVE  UNCHANGED <<armed, deferred, pending, lazyLock, changeLock>>
    BY <1>19 DEF TranscriberLooks, Looks, TranscriberRereads, Loses, TranscriberGivesUp,
                 Marks, Calls, InferenceEnds, Unmarks, Recovers
  <1> QED
    BY <1>1, <1>2, <1>3, <1>4, <1>5, <1>6, <1>7, <1>8, <1>9, <1>10, <1>11, <1>12, <1>13,
       <1>14, <1>15, <1>16, <1>17, <1>18, <1>19
    DEF EngineManagerNext, LoadSteps, LoadEnds, ChangeSteps, StarterSteps, TranscriberSteps,
        IdlerSteps

LEMMA DictationStep ==
  ASSUME RegistryType, ThreadType, DictationType, [EngineManagerNext]_engineManagerVars
  PROVE  DictationType'
  <1> USE Constants, Threads DEF RegistryType, ThreadType, DictationType, registryVars,
                                 engineVars, managerVars, dictationVars, threadVars
  <1>1. CASE LoaderEnds
    BY <1>1 DEF LoaderEnds
  <1>2. CASE HotkeyPresses
    BY <1>2 DEF HotkeyPresses
  <1>3. CASE HotkeyStops
    BY <1>3 DEF HotkeyStops
  <1>4. CASE HotkeyApplies
    BY <1>4 DEF HotkeyApplies
  <1>5. ASSUME NEW t \in Starter, Judges(t) PROVE DictationType'
    BY <1>5 DEF Judges, Looks
  <1>6. ASSUME NEW t \in Transcriber, TranscriberRereads(t) PROVE DictationType'
    BY <1>6 DEF TranscriberRereads, Looks, Loses, PhaseAfter
  <1>7. ASSUME NEW t \in Transcriber, TranscriberGivesUp(t) PROVE DictationType'
    BY <1>7 DEF TranscriberGivesUp, Loses, PhaseAfter
  <1>8. ASSUME NEW t \in Transcriber, Calls(t) PROVE DictationType'
    BY <1>8 DEF Calls, Loses, PhaseAfter
  <1>9. ASSUME NEW t \in Transcriber, Touches(t) PROVE DictationType'
    BY <1>9 DEF Touches, PhaseAfter
  <1>10. ASSUME NEW t \in Transcriber, Recovers(t) PROVE DictationType'
    BY <1>10 DEF Recovers
  <1>11. ASSUME NEW t \in Thread,
               \/ Waits(t) \/ Ensures(t) \/ Resolves(t) \/ Tries(t) \/ Locks(t)
               \/ Creates(t) \/ Whispers(t) \/ Counts(t) \/ Drops(t)
               \/ LoadReturns(t) \/ LoadRaises(t) \/ LoadIsRefused(t)
               \/ Succeeds(t) \/ Ejects(t) \/ Forgets(t) \/ Fails(t)
         PROVE  UNCHANGED <<phase, starts, lost>>
    BY <1>11 DEF Waits, Ensures, Resolves, Tries, Locks, Creates, Whispers, Counts, Drops,
                 LoadReturns, EndsLoad, LoadRaises, LoadIsRefused, Succeeds, Concludes,
                 Ejects, Forgets, Fails
  <1>12. ASSUME NEW t \in Changing, Enters(t) \/ UnloadsOld(t) \/ UnregistersOld(t)
         PROVE  UNCHANGED <<phase, starts, lost>>
    BY <1>12 DEF Enters, Concludes, UnloadsOld, UnregistersOld
  <1>13. ASSUME NEW c \in Changer, NEW b \in Backend, RequestsModel(c, b) \/ RequestsBackend(c, b)
         PROVE  UNCHANGED <<phase, starts, lost>>
    BY <1>13 DEF RequestsModel, Requests, RequestsBackend
  <1>14. ASSUME
               \/ HotkeyLooks \/ IdleTimePasses \/ IdlerLooks \/ IdlerUnloads
               \/ UNCHANGED engineManagerVars
         PROVE  UNCHANGED <<phase, starts, lost>>
    BY <1>14 DEF HotkeyLooks, Looks, IdleTimePasses, IdlerLooks, IdlerUnloads,
                 engineManagerVars
  <1>15. ASSUME NEW t \in Starter,
               \/ StarterAsks(t) \/ StarterEnters(t) \/ Revalidates(t)
               \/ Checks(t) \/ Verifies(t) \/ Replaces(t)
         PROVE  UNCHANGED <<phase, starts, lost>>
    BY <1>15 DEF StarterAsks, StarterEnters, Revalidates, Checks, Concludes, Verifies,
                 Looks, Replaces
  <1>16. ASSUME NEW t \in Starter \cup Transcriber, Joins(t)
         PROVE  UNCHANGED <<phase, starts, lost>>
    BY <1>16 DEF Joins
  <1>17. ASSUME NEW t \in Transcriber, TranscriberLooks(t) \/ Marks(t) \/ InferenceEnds(t) \/ Unmarks(t)
         PROVE  UNCHANGED <<phase, starts, lost>>
    BY <1>17 DEF TranscriberLooks, Looks, Marks, InferenceEnds, Unmarks
  <1> QED
    BY <1>1, <1>2, <1>3, <1>4, <1>5, <1>6, <1>7, <1>8, <1>9, <1>10, <1>11, <1>12, <1>13,
       <1>14, <1>15, <1>16, <1>17
    DEF EngineManagerNext, LoadSteps, LoadEnds, ChangeSteps, StarterSteps, TranscriberSteps,
        IdlerSteps

LEMMA KeyedStep ==
  ASSUME RegistryType, RegistryKeyed, [EngineManagerNext]_engineManagerVars
  PROVE  RegistryKeyed'
  <1> USE Constants, Threads DEF RegistryType, RegistryKeyed, registryVars, engineVars,
                                 managerVars, dictationVars, threadVars
  <1>1. ASSUME NEW t \in Thread, Creates(t) PROVE RegistryKeyed'
    BY <1>1, FreshIsUnheld DEF Creates
  <1>2. ASSUME NEW t \in Thread, Whispers(t) PROVE RegistryKeyed'
    BY <1>2, FreshIsUnheld DEF Whispers
  <1>3. ASSUME NEW t \in Thread, Forgets(t) PROVE RegistryKeyed'
    BY <1>3 DEF Forgets, Concludes
  <1>4. ASSUME NEW t \in Changing, UnregistersOld(t) PROVE RegistryKeyed'
    BY <1>4 DEF UnregistersOld
  <1>5. ASSUME NEW t \in Transcriber, Recovers(t) PROVE RegistryKeyed'
    BY <1>5 DEF Recovers
  <1>6. ASSUME NEW t \in Thread,
               \/ Waits(t) \/ Ensures(t) \/ Resolves(t) \/ Tries(t) \/ Locks(t)
               \/ Counts(t) \/ Drops(t) \/ LoadReturns(t) \/ LoadRaises(t)
               \/ LoadIsRefused(t) \/ Succeeds(t) \/ Ejects(t) \/ Fails(t)
         PROVE  UNCHANGED <<registry>>
    BY <1>6 DEF Waits, Ensures, Resolves, Tries, Locks, Counts, Drops, LoadReturns,
                EndsLoad, LoadRaises, LoadIsRefused, Succeeds, Concludes, Ejects, Fails
  <1>7. ASSUME NEW t \in Changing, Enters(t) \/ UnloadsOld(t)
         PROVE  UNCHANGED <<registry>>
    BY <1>7 DEF Enters, Concludes, UnloadsOld
  <1>8. ASSUME NEW c \in Changer, NEW b \in Backend, RequestsModel(c, b) \/ RequestsBackend(c, b)
         PROVE  UNCHANGED <<registry>>
    BY <1>8 DEF RequestsModel, Requests, RequestsBackend
  <1>9. ASSUME
               \/ LoaderEnds \/ HotkeyPresses \/ HotkeyStops \/ HotkeyLooks
               \/ HotkeyApplies \/ IdleTimePasses \/ IdlerLooks \/ IdlerUnloads
               \/ UNCHANGED engineManagerVars
         PROVE  UNCHANGED <<registry>>
    BY <1>9 DEF LoaderEnds, HotkeyPresses, HotkeyStops, HotkeyLooks, Looks, HotkeyApplies,
                IdleTimePasses, IdlerLooks, IdlerUnloads, engineManagerVars
  <1>10. ASSUME NEW t \in Starter,
               \/ StarterAsks(t) \/ StarterEnters(t) \/ Revalidates(t)
               \/ Checks(t) \/ Verifies(t) \/ Replaces(t) \/ Judges(t)
         PROVE  UNCHANGED <<registry>>
    BY <1>10 DEF StarterAsks, StarterEnters, Revalidates, Checks, Concludes, Verifies,
                 Looks, Replaces, Judges
  <1>11. ASSUME NEW t \in Starter \cup Transcriber, Joins(t)
         PROVE  UNCHANGED <<registry>>
    BY <1>11 DEF Joins
  <1>12. ASSUME NEW t \in Transcriber,
               \/ TranscriberLooks(t) \/ TranscriberRereads(t)
               \/ TranscriberGivesUp(t) \/ Marks(t) \/ Calls(t)
               \/ InferenceEnds(t) \/ Unmarks(t) \/ Touches(t)
         PROVE  UNCHANGED <<registry>>
    BY <1>12 DEF TranscriberLooks, Looks, TranscriberRereads, Loses, TranscriberGivesUp,
                 Marks, Calls, InferenceEnds, Unmarks, Touches
  <1> QED
    BY <1>1, <1>2, <1>3, <1>4, <1>5, <1>6, <1>7, <1>8, <1>9, <1>10, <1>11, <1>12
    DEF EngineManagerNext, LoadSteps, LoadEnds, ChangeSteps, StarterSteps, TranscriberSteps,
        IdlerSteps

(* Where a load or a change ends.                                            *)
LEMMA ConcludesPlace ==
  ASSUME ThreadType, NEW t \in MayLoad, Concludes(t)
  PROVE  \E p \in {"finishes", "verifies", "judges", "spent", "applies"} :
            at' = [at EXCEPT ![t] = p]
  BY NextPlaces DEF Concludes, Goes

LEMMA SucceedsNames ==
  ASSUME RegistryType, RecencyType, TouchedOnce, Places, NameKnown,
         NEW t \in Thread, Succeeds(t)
  PROVE  /\ t \in MayLoad /\ recency' = Touched(Served(t)) /\ Served(t) \in Backend
         /\ Head(recency') \in Backend
  <1>1. t \in MayLoad /\ recency' = Touched(Served(t))
    BY WhoLoads DEF Succeeds
  <1>2. name[t] \in Backend
    BY <1>1 DEF NameKnown, Succeeds
  <1>3. Served(t) \in Backend
    BY <1>1, <1>2 DEF Served, RegistryType
  <1> QED
    BY <1>1, <1>3, TouchedType

(* After the touch an old engine is on its way out, or the thread goes on.   *)
LEMMA SucceedsCases ==
  ASSUME RegistryType, ThreadType, RecencyType, TouchedOnce, Places, NameKnown,
         NEW t \in Thread, Succeeds(t)
  PROVE  \/ \E b \in Backend, p \in {"forgets", "ejects"} :
               /\ (p = "ejects" => registry[b] # None)
               /\ at' = [at EXCEPT ![t] = p] /\ held' = [held EXCEPT ![t] = registry[b]]
               /\ leaving' = [leaving EXCEPT ![t] = b]
         \/ /\ UNCHANGED <<held, leaving>>
            /\ \E p \in {"finishes", "verifies", "judges", "spent", "applies"} :
                  at' = [at EXCEPT ![t] = p]
  <1> DEFINE oldest == Head(recency')
  <1>1. t \in MayLoad /\ oldest \in Backend
    BY SucceedsNames
  <1>2. CASE Len(recency') > env.models /\ oldest \notin marked
    <2>1. /\ GoesWith(t, IF registry[oldest] = None THEN "forgets" ELSE "ejects", registry[oldest])
          /\ leaving' = [leaving EXCEPT ![t] = oldest]
      BY <1>2 DEF Succeeds
    <2> HIDE DEF oldest
    <2>2. PICK b \in Backend : b = oldest
      BY <1>1
    <2> QED
      BY <2>1, <2>2 DEF GoesWith, Goes
  <1>3. CASE ~(Len(recency') > env.models /\ oldest \notin marked)
    <2>1. Concludes(t) /\ UNCHANGED <<held, leaving>>
      BY <1>3 DEF Succeeds
    <2> QED
      BY <1>1, <2>1, ConcludesPlace
  <1> QED
    BY <1>2, <1>3

LEMMA RecencyStep ==
  ASSUME RegistryType, RecencyType, TouchedOnce, Places, NameKnown,
         [EngineManagerNext]_engineManagerVars
  PROVE  RecencyType' /\ TouchedOnce'
  <1> USE Constants, Threads DEF RegistryType, registryVars, engineVars, managerVars,
                                 dictationVars, threadVars
  <1>1. ASSUME NEW t \in Thread, Succeeds(t) PROVE RecencyType' /\ TouchedOnce'
    <2>1. Served(t) \in Backend /\ recency' = Touched(Served(t))
      BY <1>1, SucceedsNames
    <2> QED
      BY <2>1, TouchedType, NoMoreThanBackends DEF RecencyType, TouchedOnce
  <1>2. ASSUME NEW t \in Thread, Forgets(t) PROVE RecencyType' /\ TouchedOnce'
    <2>1. recency' = Without(recency, leaving[t])
      BY <1>2 DEF Forgets
    <2> QED
      BY <2>1, WithoutType, NoMoreThanBackends DEF RecencyType, TouchedOnce
  <1>3. ASSUME NEW t \in Transcriber, Touches(t) PROVE RecencyType' /\ TouchedOnce'
    <2>1. recency' = Touched(config) /\ config \in Backend
      BY <1>3 DEF Touches
    <2> QED
      BY <2>1, TouchedType, NoMoreThanBackends DEF RecencyType, TouchedOnce
  <1>4. ASSUME NEW t \in Thread,
               \/ Waits(t) \/ Ensures(t) \/ Resolves(t) \/ Tries(t) \/ Locks(t)
               \/ Creates(t) \/ Whispers(t) \/ Counts(t) \/ Drops(t)
               \/ LoadReturns(t) \/ LoadRaises(t) \/ LoadIsRefused(t)
               \/ Ejects(t) \/ Fails(t)
         PROVE  UNCHANGED <<recency>>
    BY <1>4 DEF Waits, Ensures, Resolves, Tries, Locks, Creates, Whispers, Counts, Drops,
                LoadReturns, EndsLoad, LoadRaises, LoadIsRefused, Ejects, Fails, Concludes
  <1>5. ASSUME NEW t \in Changing, Enters(t) \/ UnloadsOld(t) \/ UnregistersOld(t)
         PROVE  UNCHANGED <<recency>>
    BY <1>5 DEF Enters, Concludes, UnloadsOld, UnregistersOld
  <1>6. ASSUME NEW c \in Changer, NEW b \in Backend, RequestsModel(c, b) \/ RequestsBackend(c, b)
         PROVE  UNCHANGED <<recency>>
    BY <1>6 DEF RequestsModel, Requests, RequestsBackend
  <1>7. ASSUME
               \/ LoaderEnds \/ HotkeyPresses \/ HotkeyStops \/ HotkeyLooks
               \/ HotkeyApplies \/ IdleTimePasses \/ IdlerLooks \/ IdlerUnloads
               \/ UNCHANGED engineManagerVars
         PROVE  UNCHANGED <<recency>>
    BY <1>7 DEF LoaderEnds, HotkeyPresses, HotkeyStops, HotkeyLooks, Looks, HotkeyApplies,
                IdleTimePasses, IdlerLooks, IdlerUnloads, engineManagerVars
  <1>8. ASSUME NEW t \in Starter,
               \/ StarterAsks(t) \/ StarterEnters(t) \/ Revalidates(t)
               \/ Checks(t) \/ Verifies(t) \/ Replaces(t) \/ Judges(t)
         PROVE  UNCHANGED <<recency>>
    BY <1>8 DEF StarterAsks, StarterEnters, Revalidates, Checks, Concludes, Verifies, Looks,
                Replaces, Judges
  <1>9. ASSUME NEW t \in Starter \cup Transcriber, Joins(t)
         PROVE  UNCHANGED <<recency>>
    BY <1>9 DEF Joins
  <1>10. ASSUME NEW t \in Transcriber,
               \/ TranscriberLooks(t) \/ TranscriberRereads(t)
               \/ TranscriberGivesUp(t) \/ Marks(t) \/ Calls(t)
               \/ InferenceEnds(t) \/ Unmarks(t) \/ Recovers(t)
         PROVE  UNCHANGED <<recency>>
    BY <1>10 DEF TranscriberLooks, Looks, TranscriberRereads, Loses, TranscriberGivesUp,
                 Marks, Calls, InferenceEnds, Unmarks, Recovers
  <1>11. UNCHANGED <<recency>> => RecencyType' /\ TouchedOnce'
    BY DEF RecencyType, TouchedOnce
  <1> QED
    BY <1>11, <1>1, <1>2, <1>3, <1>4, <1>5, <1>6, <1>7, <1>8, <1>9, <1>10
    DEF EngineManagerNext, LoadSteps, LoadEnds, ChangeSteps, StarterSteps, TranscriberSteps,
        IdlerSteps

LEMMA PlaceStep ==
  ASSUME RegistryType, ThreadType, RecencyType, TouchedOnce, NameKnown, Places,
         [EngineManagerNext]_engineManagerVars
  PROVE  at' \in [Thread -> Place]
  <1> USE Constants, Threads DEF ThreadType, Place, Goes, GoesWith, registryVars,
                                 engineVars, managerVars, dictationVars, threadVars
  <1>1. ASSUME NEW t \in Thread, Ensures(t) PROVE at' \in [Thread -> Place]
    BY <1>1, AfterEnsurePlace DEF Ensures
  <1>2. ASSUME NEW t \in Thread, Resolves(t) PROVE at' \in [Thread -> Place]
    BY <1>2 DEF Resolves
  <1>3. ASSUME NEW t \in Thread, Tries(t) PROVE at' \in [Thread -> Place]
    BY <1>3 DEF Tries
  <1>4. ASSUME NEW t \in Thread, Locks(t) PROVE at' \in [Thread -> Place]
    BY <1>4 DEF Locks
  <1>5. ASSUME NEW t \in Thread, Creates(t) PROVE at' \in [Thread -> Place]
    BY <1>5, AfterEnsurePlace DEF Creates
  <1>6. ASSUME NEW t \in Thread, Whispers(t) PROVE at' \in [Thread -> Place]
    BY <1>6 DEF Whispers
  <1>7. ASSUME NEW t \in Thread, Counts(t) PROVE at' \in [Thread -> Place]
    BY <1>7 DEF Counts
  <1>8. ASSUME NEW t \in Thread, Drops(t) PROVE at' \in [Thread -> Place]
    BY <1>8 DEF Drops
  <1>9. ASSUME NEW t \in Thread, LoadReturns(t) PROVE at' \in [Thread -> Place]
    BY <1>9 DEF LoadReturns, EndsLoad
  <1>10. ASSUME NEW t \in Thread, LoadRaises(t) PROVE at' \in [Thread -> Place]
    BY <1>10 DEF LoadRaises, EndsLoad
  <1>11. ASSUME NEW t \in Thread, LoadIsRefused(t) PROVE at' \in [Thread -> Place]
    BY <1>11 DEF LoadIsRefused, EndsLoad
  <1>12. ASSUME NEW t \in Thread, Succeeds(t) PROVE at' \in [Thread -> Place]
    BY <1>12, SucceedsCases DEF Succeeds, Concludes
  <1>13. ASSUME NEW t \in Thread, Ejects(t) PROVE at' \in [Thread -> Place]
    BY <1>13 DEF Ejects
  <1>14. ASSUME NEW t \in Thread, Forgets(t) PROVE at' \in [Thread -> Place]
    <2>1. t \in MayLoad /\ Concludes(t)
      BY <1>14, WhoLoads DEF Forgets
    <2> QED
      BY <2>1, ConcludesPlace DEF Place
  <1>15. ASSUME NEW t \in Thread, Fails(t) PROVE at' \in [Thread -> Place]
    <2>1. t \in MayLoad
      BY <1>15, WhoLoads DEF Fails
    <2>2. at' = [at EXCEPT ![t] = "succeeded"] \/ Concludes(t)
      BY <1>15 DEF Fails, Goes
    <2> QED
      BY <2>1, <2>2, ConcludesPlace DEF Place
  <1>16. ASSUME NEW t \in Changing, Enters(t) PROVE at' \in [Thread -> Place]
    <2>1. t \in MayLoad
      BY DEF MayLoad
    <2>2. \/ Concludes(t)
          \/ \E p \in {"unregisters", "unloads"} : at' = [at EXCEPT ![t] = p]
      BY <1>16 DEF Enters, GoesWith, Goes
    <2> QED
      BY <2>1, <2>2, ConcludesPlace DEF Place
  <1>17. ASSUME NEW t \in Changing, UnloadsOld(t) PROVE at' \in [Thread -> Place]
    BY <1>17 DEF UnloadsOld
  <1>18. ASSUME NEW t \in Changing, UnregistersOld(t) PROVE at' \in [Thread -> Place]
    BY <1>18 DEF UnregistersOld
  <1>19. ASSUME NEW c \in Changer, NEW b \in Backend, RequestsModel(c, b)
         PROVE  at' \in [Thread -> Place]
    BY <1>19 DEF RequestsModel, Requests
  <1>20. ASSUME NEW c \in Changer, NEW b \in Backend, RequestsBackend(c, b)
         PROVE  at' \in [Thread -> Place]
    BY <1>20 DEF RequestsBackend, Requests
  <1>21. CASE LoaderEnds
    BY <1>21 DEF LoaderEnds
  <1>22. CASE HotkeyPresses
    BY <1>22 DEF HotkeyPresses
  <1>23. CASE HotkeyStops
    BY <1>23 DEF HotkeyStops
  <1>24. CASE HotkeyLooks
    BY <1>24 DEF HotkeyLooks, Looks
  <1>25. CASE HotkeyApplies
    BY <1>25 DEF HotkeyApplies
  <1>26. CASE IdleTimePasses
    BY <1>26 DEF IdleTimePasses
  <1>27. CASE IdlerLooks
    BY <1>27 DEF IdlerLooks, Looks
  <1>28. CASE IdlerUnloads
    BY <1>28 DEF IdlerUnloads
  <1>29. ASSUME NEW t \in Starter, StarterAsks(t) PROVE at' \in [Thread -> Place]
    BY <1>29 DEF StarterAsks
  <1>30. ASSUME NEW t \in Starter, StarterEnters(t) PROVE at' \in [Thread -> Place]
    BY <1>30 DEF StarterEnters
  <1>31. ASSUME NEW t \in Starter, Revalidates(t) PROVE at' \in [Thread -> Place]
    BY <1>31 DEF Revalidates
  <1>32. ASSUME NEW t \in Starter, Checks(t) PROVE at' \in [Thread -> Place]
    <2>1. t \in MayLoad
      BY DEF MayLoad
    <2>2. at' = [at EXCEPT ![t] = "resolves"] \/ Concludes(t)
      BY <1>32 DEF Checks, Goes
    <2> QED
      BY <2>1, <2>2, ConcludesPlace DEF Place
  <1>33. ASSUME NEW t \in Starter, Verifies(t) PROVE at' \in [Thread -> Place]
    BY <1>33 DEF Verifies, Looks
  <1>34. ASSUME NEW t \in Starter, Replaces(t) PROVE at' \in [Thread -> Place]
    BY <1>34 DEF Replaces
  <1>35. ASSUME NEW t \in Starter, Judges(t) PROVE at' \in [Thread -> Place]
    BY <1>35 DEF Judges, Looks
  <1>36. ASSUME NEW t \in Starter \cup Transcriber, Joins(t) PROVE at' \in [Thread -> Place]
    BY <1>36 DEF Joins
  <1>37. ASSUME NEW t \in Transcriber, TranscriberLooks(t) PROVE at' \in [Thread -> Place]
    BY <1>37 DEF TranscriberLooks, Looks
  <1>38. ASSUME NEW t \in Transcriber, TranscriberRereads(t) PROVE at' \in [Thread -> Place]
    BY <1>38 DEF TranscriberRereads, Looks, Loses
  <1>39. ASSUME NEW t \in Transcriber, TranscriberGivesUp(t) PROVE at' \in [Thread -> Place]
    BY <1>39 DEF TranscriberGivesUp, Loses
  <1>40. ASSUME NEW t \in Transcriber, Marks(t) PROVE at' \in [Thread -> Place]
    BY <1>40 DEF Marks
  <1>41. ASSUME NEW t \in Transcriber, Calls(t) PROVE at' \in [Thread -> Place]
    BY <1>41 DEF Calls, Loses
  <1>42. ASSUME NEW t \in Transcriber, InferenceEnds(t) PROVE at' \in [Thread -> Place]
    BY <1>42 DEF InferenceEnds
  <1>43. ASSUME NEW t \in Transcriber, Unmarks(t) PROVE at' \in [Thread -> Place]
    BY <1>43 DEF Unmarks
  <1>44. ASSUME NEW t \in Transcriber, Touches(t) PROVE at' \in [Thread -> Place]
    BY <1>44 DEF Touches
  <1>45. ASSUME NEW t \in Thread, Waits(t)
         PROVE  UNCHANGED <<at>>
    BY <1>45 DEF Waits
  <1>46. ASSUME NEW t \in Transcriber, Recovers(t)
         PROVE  UNCHANGED <<at>>
    BY <1>46 DEF Recovers
  <1>47. CASE UNCHANGED engineManagerVars
    BY <1>47 DEF engineManagerVars
  <1> QED
    BY <1>1, <1>2, <1>3, <1>4, <1>5, <1>6, <1>7, <1>8, <1>9, <1>10, <1>11, <1>12, <1>13,
       <1>14, <1>15, <1>16, <1>17, <1>18, <1>19, <1>20, <1>21, <1>22, <1>23, <1>24, <1>25,
       <1>26, <1>27, <1>28, <1>29, <1>30, <1>31, <1>32, <1>33, <1>34, <1>35, <1>36, <1>37,
       <1>38, <1>39, <1>40, <1>41, <1>42, <1>43, <1>44, <1>45, <1>46, <1>47
    DEF EngineManagerNext, LoadSteps, LoadEnds, ChangeSteps, StarterSteps, TranscriberSteps,
        IdlerSteps

LEMMA HeldStep ==
  ASSUME RegistryType, RecencyType, TouchedOnce, ThreadType, Places, NameKnown,
         [EngineManagerNext]_engineManagerVars
  PROVE  held' \in [Thread -> Engine \cup {None}]
  <1> USE Constants, Threads DEF RegistryType, ThreadType, Goes, GoesWith, registryVars,
                                 engineVars, managerVars, dictationVars, threadVars
  <1>1. ASSUME NEW t \in Thread, Resolves(t) PROVE held' \in [Thread -> Engine \cup {None}]
    BY <1>1 DEF Resolves
  <1>2. ASSUME NEW t \in Thread, Tries(t) PROVE held' \in [Thread -> Engine \cup {None}]
    BY <1>2 DEF Tries
  <1>3. ASSUME NEW t \in Thread, Succeeds(t) PROVE held' \in [Thread -> Engine \cup {None}]
    <2>1. UNCHANGED held \/ \E b \in Backend : held' = [held EXCEPT ![t] = registry[b]]
      BY <1>3, SucceedsCases
    <2> QED
      BY <2>1
  <1>4. ASSUME NEW t \in Changing, Enters(t) PROVE held' \in [Thread -> Engine \cup {None}]
    BY <1>4 DEF Enters, Concludes
  <1>5. ASSUME NEW t \in Changing, UnregistersOld(t)
        PROVE  held' \in [Thread -> Engine \cup {None}]
    BY <1>5 DEF UnregistersOld
  <1>6. CASE IdlerLooks
    BY <1>6 DEF IdlerLooks, Looks
  <1>7. CASE IdlerUnloads
    BY <1>7 DEF IdlerUnloads
  <1>8. ASSUME NEW t \in Starter, Revalidates(t)
        PROVE  held' \in [Thread -> Engine \cup {None}]
    BY <1>8 DEF Revalidates
  <1>9. ASSUME NEW t \in Transcriber, TranscriberLooks(t)
        PROVE  held' \in [Thread -> Engine \cup {None}]
    BY <1>9 DEF TranscriberLooks, Looks
  <1>10. ASSUME NEW t \in Transcriber, TranscriberRereads(t)
         PROVE  held' \in [Thread -> Engine \cup {None}]
    BY <1>10 DEF TranscriberRereads, Looks, Loses
  <1>11. ASSUME NEW t \in Transcriber, InferenceEnds(t)
         PROVE  held' \in [Thread -> Engine \cup {None}]
    BY <1>11 DEF InferenceEnds
  <1>12. ASSUME NEW t \in Thread,
               \/ Waits(t) \/ Ensures(t) \/ Locks(t) \/ Creates(t)
               \/ Whispers(t) \/ Counts(t) \/ Drops(t) \/ LoadReturns(t)
               \/ LoadRaises(t) \/ LoadIsRefused(t) \/ Ejects(t) \/ Forgets(t)
               \/ Fails(t)
         PROVE  UNCHANGED <<held>>
    BY <1>12 DEF Waits, Ensures, Locks, Creates, Whispers, Counts, Drops, LoadReturns,
                 EndsLoad, LoadRaises, LoadIsRefused, Ejects, Forgets, Concludes, Fails
  <1>13. ASSUME NEW t \in Changing, UnloadsOld(t)
         PROVE  UNCHANGED <<held>>
    BY <1>13 DEF UnloadsOld
  <1>14. ASSUME NEW c \in Changer, NEW b \in Backend, RequestsModel(c, b) \/ RequestsBackend(c, b)
         PROVE  UNCHANGED <<held>>
    BY <1>14 DEF RequestsModel, Requests, RequestsBackend
  <1>15. ASSUME
               \/ LoaderEnds \/ HotkeyPresses \/ HotkeyStops \/ HotkeyLooks
               \/ HotkeyApplies \/ IdleTimePasses \/ UNCHANGED engineManagerVars
         PROVE  UNCHANGED <<held>>
    BY <1>15 DEF LoaderEnds, HotkeyPresses, HotkeyStops, HotkeyLooks, Looks, HotkeyApplies,
                 IdleTimePasses, engineManagerVars
  <1>16. ASSUME NEW t \in Starter,
               \/ StarterAsks(t) \/ StarterEnters(t) \/ Checks(t) \/ Verifies(t)
               \/ Replaces(t) \/ Judges(t)
         PROVE  UNCHANGED <<held>>
    BY <1>16 DEF StarterAsks, StarterEnters, Checks, Concludes, Verifies, Looks, Replaces,
                 Judges
  <1>17. ASSUME NEW t \in Starter \cup Transcriber, Joins(t)
         PROVE  UNCHANGED <<held>>
    BY <1>17 DEF Joins
  <1>18. ASSUME NEW t \in Transcriber,
               \/ TranscriberGivesUp(t) \/ Marks(t) \/ Calls(t) \/ Unmarks(t)
               \/ Touches(t) \/ Recovers(t)
         PROVE  UNCHANGED <<held>>
    BY <1>18 DEF TranscriberGivesUp, Loses, Marks, Calls, Unmarks, Touches, Recovers
  <1> QED
    BY <1>1, <1>2, <1>3, <1>4, <1>5, <1>6, <1>7, <1>8, <1>9, <1>10, <1>11, <1>12, <1>13,
       <1>14, <1>15, <1>16, <1>17, <1>18
    DEF EngineManagerNext, LoadSteps, LoadEnds, ChangeSteps, StarterSteps, TranscriberSteps,
        IdlerSteps

LEMMA NamesStep ==
  ASSUME RegistryType, ManagerType, ThreadType, [EngineManagerNext]_engineManagerVars
  PROVE  (name' \in [Thread -> Backend \cup {Nothing}] /\ kind' \in [Thread -> {"model", "backend"}])
  <1> USE Constants, Threads DEF RegistryType, ManagerType, ThreadType, registryVars,
                                 engineVars, managerVars, dictationVars, threadVars
  <1>1. ASSUME NEW t \in Thread, Tries(t)
        PROVE  (name' \in [Thread -> Backend \cup {Nothing}]
               /\ kind' \in [Thread -> {"model", "backend"}])
    BY <1>1 DEF Tries
  <1>2. ASSUME NEW c \in Changer, NEW b \in Backend, RequestsModel(c, b)
        PROVE  (name' \in [Thread -> Backend \cup {Nothing}]
               /\ kind' \in [Thread -> {"model", "backend"}])
    BY <1>2 DEF RequestsModel, Requests
  <1>3. ASSUME NEW c \in Changer, NEW b \in Backend, RequestsBackend(c, b)
        PROVE  (name' \in [Thread -> Backend \cup {Nothing}]
               /\ kind' \in [Thread -> {"model", "backend"}])
    BY <1>3 DEF RequestsBackend, Requests
  <1>4. CASE HotkeyLooks
    BY <1>4 DEF HotkeyLooks, Looks
  <1>5. CASE HotkeyApplies
    BY <1>5 DEF HotkeyApplies
  <1>6. ASSUME NEW t \in Starter, StarterEnters(t)
        PROVE  (name' \in [Thread -> Backend \cup {Nothing}]
               /\ kind' \in [Thread -> {"model", "backend"}])
    BY <1>6 DEF StarterEnters
  <1>7. ASSUME NEW t \in Starter, Revalidates(t)
        PROVE  (name' \in [Thread -> Backend \cup {Nothing}]
               /\ kind' \in [Thread -> {"model", "backend"}])
    BY <1>7 DEF Revalidates
  <1>8. ASSUME NEW t \in Starter, Replaces(t)
        PROVE  (name' \in [Thread -> Backend \cup {Nothing}]
               /\ kind' \in [Thread -> {"model", "backend"}])
    BY <1>8 DEF Replaces
  <1>9. ASSUME NEW t \in Transcriber, Marks(t)
        PROVE  (name' \in [Thread -> Backend \cup {Nothing}]
               /\ kind' \in [Thread -> {"model", "backend"}])
    BY <1>9 DEF Marks
  <1>10. ASSUME NEW t \in Thread,
               \/ Waits(t) \/ Ensures(t) \/ Resolves(t) \/ Locks(t)
               \/ Creates(t) \/ Whispers(t) \/ Counts(t) \/ Drops(t)
               \/ LoadReturns(t) \/ LoadRaises(t) \/ LoadIsRefused(t)
               \/ Succeeds(t) \/ Ejects(t) \/ Forgets(t) \/ Fails(t)
         PROVE  UNCHANGED <<name, kind>>
    BY <1>10 DEF Waits, Ensures, Resolves, Locks, Creates, Whispers, Counts, Drops,
                 LoadReturns, EndsLoad, LoadRaises, LoadIsRefused, Succeeds, Concludes,
                 Ejects, Forgets, Fails
  <1>11. ASSUME NEW t \in Changing, Enters(t) \/ UnloadsOld(t) \/ UnregistersOld(t)
         PROVE  UNCHANGED <<name, kind>>
    BY <1>11 DEF Enters, Concludes, UnloadsOld, UnregistersOld
  <1>12. ASSUME
               \/ LoaderEnds \/ HotkeyPresses \/ HotkeyStops \/ IdleTimePasses
               \/ IdlerLooks \/ IdlerUnloads \/ UNCHANGED engineManagerVars
         PROVE  UNCHANGED <<name, kind>>
    BY <1>12 DEF LoaderEnds, HotkeyPresses, HotkeyStops, IdleTimePasses, IdlerLooks, Looks,
                 IdlerUnloads, engineManagerVars
  <1>13. ASSUME NEW t \in Starter, StarterAsks(t) \/ Checks(t) \/ Verifies(t) \/ Judges(t)
         PROVE  UNCHANGED <<name, kind>>
    BY <1>13 DEF StarterAsks, Checks, Concludes, Verifies, Looks, Judges
  <1>14. ASSUME NEW t \in Starter \cup Transcriber, Joins(t)
         PROVE  UNCHANGED <<name, kind>>
    BY <1>14 DEF Joins
  <1>15. ASSUME NEW t \in Transcriber,
               \/ TranscriberLooks(t) \/ TranscriberRereads(t)
               \/ TranscriberGivesUp(t) \/ Calls(t) \/ InferenceEnds(t)
               \/ Unmarks(t) \/ Touches(t) \/ Recovers(t)
         PROVE  UNCHANGED <<name, kind>>
    BY <1>15 DEF TranscriberLooks, Looks, TranscriberRereads, Loses, TranscriberGivesUp,
                 Calls, InferenceEnds, Unmarks, Touches, Recovers
  <1> QED
    BY <1>1, <1>2, <1>3, <1>4, <1>5, <1>6, <1>7, <1>8, <1>9, <1>10, <1>11, <1>12, <1>13,
       <1>14, <1>15
    DEF EngineManagerNext, LoadSteps, LoadEnds, ChangeSteps, StarterSteps, TranscriberSteps,
        IdlerSteps

LEMMA LeavingStep ==
  ASSUME RegistryType, RecencyType, TouchedOnce, ThreadType, Places, NameKnown,
         [EngineManagerNext]_engineManagerVars
  PROVE  leaving' \in [Thread -> Backend \cup {Nothing}]
  <1> USE Constants, Threads DEF RegistryType, ThreadType, GoesWith, registryVars,
                                 engineVars, managerVars, dictationVars, threadVars
  <1>1. ASSUME NEW t \in Thread, Succeeds(t)
        PROVE  leaving' \in [Thread -> Backend \cup {Nothing}]
    <2>1. UNCHANGED leaving \/ \E b \in Backend : leaving' = [leaving EXCEPT ![t] = b]
      BY <1>1, SucceedsCases
    <2> QED
      BY <2>1
  <1>2. ASSUME NEW t \in Thread, Forgets(t)
        PROVE  leaving' \in [Thread -> Backend \cup {Nothing}]
    BY <1>2 DEF Forgets, Concludes
  <1>3. ASSUME NEW t \in Changing, Enters(t)
        PROVE  leaving' \in [Thread -> Backend \cup {Nothing}]
    BY <1>3 DEF Enters, Concludes
  <1>4. ASSUME NEW t \in Changing, UnregistersOld(t)
        PROVE  leaving' \in [Thread -> Backend \cup {Nothing}]
    BY <1>4 DEF UnregistersOld
  <1>5. ASSUME NEW t \in Thread,
               \/ Waits(t) \/ Ensures(t) \/ Resolves(t) \/ Tries(t) \/ Locks(t)
               \/ Creates(t) \/ Whispers(t) \/ Counts(t) \/ Drops(t)
               \/ LoadReturns(t) \/ LoadRaises(t) \/ LoadIsRefused(t)
               \/ Ejects(t) \/ Fails(t)
         PROVE  UNCHANGED <<leaving>>
    BY <1>5 DEF Waits, Ensures, Resolves, Tries, Locks, Creates, Whispers, Counts, Drops,
                LoadReturns, EndsLoad, LoadRaises, LoadIsRefused, Ejects, Fails, Concludes
  <1>6. ASSUME NEW t \in Changing, UnloadsOld(t)
         PROVE  UNCHANGED <<leaving>>
    BY <1>6 DEF UnloadsOld
  <1>7. ASSUME NEW c \in Changer, NEW b \in Backend, RequestsModel(c, b) \/ RequestsBackend(c, b)
         PROVE  UNCHANGED <<leaving>>
    BY <1>7 DEF RequestsModel, Requests, RequestsBackend
  <1>8. ASSUME
               \/ LoaderEnds \/ HotkeyPresses \/ HotkeyStops \/ HotkeyLooks
               \/ HotkeyApplies \/ IdleTimePasses \/ IdlerLooks \/ IdlerUnloads
               \/ UNCHANGED engineManagerVars
         PROVE  UNCHANGED <<leaving>>
    BY <1>8 DEF LoaderEnds, HotkeyPresses, HotkeyStops, HotkeyLooks, Looks, HotkeyApplies,
                IdleTimePasses, IdlerLooks, IdlerUnloads, engineManagerVars
  <1>9. ASSUME NEW t \in Starter,
               \/ StarterAsks(t) \/ StarterEnters(t) \/ Revalidates(t)
               \/ Checks(t) \/ Verifies(t) \/ Replaces(t) \/ Judges(t)
         PROVE  UNCHANGED <<leaving>>
    BY <1>9 DEF StarterAsks, StarterEnters, Revalidates, Checks, Concludes, Verifies, Looks,
                Replaces, Judges
  <1>10. ASSUME NEW t \in Starter \cup Transcriber, Joins(t)
         PROVE  UNCHANGED <<leaving>>
    BY <1>10 DEF Joins
  <1>11. ASSUME NEW t \in Transcriber,
               \/ TranscriberLooks(t) \/ TranscriberRereads(t)
               \/ TranscriberGivesUp(t) \/ Marks(t) \/ Calls(t)
               \/ InferenceEnds(t) \/ Unmarks(t) \/ Touches(t) \/ Recovers(t)
         PROVE  UNCHANGED <<leaving>>
    BY <1>11 DEF TranscriberLooks, Looks, TranscriberRereads, Loses, TranscriberGivesUp,
                 Marks, Calls, InferenceEnds, Unmarks, Touches, Recovers
  <1> QED
    BY <1>1, <1>2, <1>3, <1>4, <1>5, <1>6, <1>7, <1>8, <1>9, <1>10, <1>11
    DEF EngineManagerNext, LoadSteps, LoadEnds, ChangeSteps, StarterSteps, TranscriberSteps,
        IdlerSteps

LEMMA PlacesStep ==
  ASSUME RegistryType, ThreadType, RecencyType, TouchedOnce, NameKnown, HeldKnown, Places,
         [EngineManagerNext]_engineManagerVars
  PROVE  Places'
  <1> USE Constants, Threads DEF ThreadType, Places, Goes, GoesWith, registryVars,
                                 engineVars, managerVars, dictationVars, threadVars
  <1>1. ASSUME NEW t \in Thread, Ensures(t) PROVE Places'
    BY <1>1, AfterEnsurePlace DEF Ensures
  <1>2. ASSUME NEW t \in Thread, Resolves(t) PROVE Places'
    BY <1>2 DEF Resolves
  <1>3. ASSUME NEW t \in Thread, Tries(t) PROVE Places'
    BY <1>3 DEF Tries
  <1>4. ASSUME NEW t \in Thread, Locks(t) PROVE Places'
    BY <1>4 DEF Locks
  <1>5. ASSUME NEW t \in Thread, Creates(t) PROVE Places'
    BY <1>5, AfterEnsurePlace DEF Creates
  <1>6. ASSUME NEW t \in Thread, Whispers(t) PROVE Places'
    BY <1>6 DEF Whispers
  <1>7. ASSUME NEW t \in Thread, Counts(t) PROVE Places'
    BY <1>7 DEF Counts
  <1>8. ASSUME NEW t \in Thread, Drops(t) PROVE Places'
    BY <1>8 DEF Drops
  <1>9. ASSUME NEW t \in Thread, LoadReturns(t) PROVE Places'
    BY <1>9 DEF LoadReturns, EndsLoad
  <1>10. ASSUME NEW t \in Thread, LoadRaises(t) PROVE Places'
    BY <1>10 DEF LoadRaises, EndsLoad
  <1>11. ASSUME NEW t \in Thread, LoadIsRefused(t) PROVE Places'
    BY <1>11 DEF LoadIsRefused, EndsLoad
  <1>12. ASSUME NEW t \in Thread, Succeeds(t) PROVE Places'
    BY <1>12 DEF Succeeds, Concludes
  <1>13. ASSUME NEW t \in Thread, Ejects(t) PROVE Places'
    BY <1>13 DEF Ejects
  <1>14. ASSUME NEW t \in Thread, Forgets(t) PROVE Places'
    BY <1>14 DEF Forgets, Concludes
  <1>15. ASSUME NEW t \in Thread, Fails(t) PROVE Places'
    BY <1>15 DEF Fails, Concludes
  <1>16. ASSUME NEW t \in Changing, Enters(t) PROVE Places'
    BY <1>16 DEF Enters, Concludes
  <1>17. ASSUME NEW t \in Changing, UnloadsOld(t) PROVE Places'
    BY <1>17 DEF UnloadsOld
  <1>18. ASSUME NEW t \in Changing, UnregistersOld(t) PROVE Places'
    BY <1>18 DEF UnregistersOld
  <1>19. ASSUME NEW c \in Changer, NEW b \in Backend, RequestsModel(c, b) PROVE Places'
    <2>1. \A u \in Transcriber \cup {Idler} : at'[u] = at[u]
      BY <1>19, ThreadsApart DEF RequestsModel, Requests, Goes, ThreadType
    <2> QED
      BY <2>1, OthersMove
  <1>20. ASSUME NEW c \in Changer, NEW b \in Backend, RequestsBackend(c, b) PROVE Places'
    <2>1. \A u \in Transcriber \cup {Idler} : at'[u] = at[u]
      BY <1>20, ThreadsApart DEF RequestsBackend, Requests, Goes, ThreadType
    <2> QED
      BY <2>1, OthersMove
  <1>21. CASE LoaderEnds
    <2>1. \A u \in Transcriber \cup {Idler} : at'[u] = at[u]
      BY <1>21, ThreadsApart DEF LoaderEnds, Goes, ThreadType
    <2> QED
      BY <2>1, OthersMove
  <1>22. CASE HotkeyPresses
    BY <1>22 DEF HotkeyPresses
  <1>23. CASE HotkeyStops
    BY <1>23 DEF HotkeyStops
  <1>24. CASE HotkeyLooks
    <2>1. \A u \in Transcriber \cup {Idler} : at'[u] = at[u]
      BY <1>24, ThreadsApart DEF HotkeyLooks, Goes, ThreadType
    <2> QED
      BY <2>1, OthersMove
  <1>25. CASE HotkeyApplies
    <2>1. \A u \in Transcriber \cup {Idler} : at'[u] = at[u]
      BY <1>25, ThreadsApart DEF HotkeyApplies, Goes, ThreadType
    <2> QED
      BY <2>1, OthersMove
  <1>26. CASE IdleTimePasses
    BY <1>26 DEF IdleTimePasses
  <1>27. CASE IdlerLooks
    BY <1>27 DEF IdlerLooks, Looks
  <1>28. CASE IdlerUnloads
    BY <1>28 DEF IdlerUnloads
  <1>29. ASSUME NEW t \in Starter, StarterAsks(t) PROVE Places'
    BY <1>29 DEF StarterAsks
  <1>30. ASSUME NEW t \in Starter, StarterEnters(t) PROVE Places'
    BY <1>30 DEF StarterEnters
  <1>31. ASSUME NEW t \in Starter, Revalidates(t) PROVE Places'
    BY <1>31 DEF Revalidates
  <1>32. ASSUME NEW t \in Starter, Checks(t) PROVE Places'
    BY <1>32 DEF Checks, Concludes
  <1>33. ASSUME NEW t \in Starter, Verifies(t) PROVE Places'
    BY <1>33 DEF Verifies, Looks
  <1>34. ASSUME NEW t \in Starter, Replaces(t) PROVE Places'
    BY <1>34 DEF Replaces
  <1>35. ASSUME NEW t \in Starter, Judges(t) PROVE Places'
    BY <1>35 DEF Judges, Looks
  <1>36. ASSUME NEW t \in Starter \cup Transcriber, Joins(t) PROVE Places'
    BY <1>36 DEF Joins
  <1>37. ASSUME NEW t \in Transcriber, TranscriberLooks(t) PROVE Places'
    BY <1>37 DEF TranscriberLooks, Looks
  <1>38. ASSUME NEW t \in Transcriber, TranscriberRereads(t) PROVE Places'
    BY <1>38 DEF TranscriberRereads, Looks, Loses
  <1>39. ASSUME NEW t \in Transcriber, TranscriberGivesUp(t) PROVE Places'
    BY <1>39 DEF TranscriberGivesUp, Loses
  <1>40. ASSUME NEW t \in Transcriber, Marks(t) PROVE Places'
    BY <1>40 DEF Marks
  <1>41. ASSUME NEW t \in Transcriber, Calls(t) PROVE Places'
    BY <1>41 DEF Calls, Loses
  <1>42. ASSUME NEW t \in Transcriber, InferenceEnds(t) PROVE Places'
    BY <1>42 DEF InferenceEnds
  <1>43. ASSUME NEW t \in Transcriber, Unmarks(t) PROVE Places'
    BY <1>43 DEF Unmarks
  <1>44. ASSUME NEW t \in Transcriber, Touches(t) PROVE Places'
    BY <1>44 DEF Touches
  <1>45. ASSUME NEW t \in Thread, Waits(t)
         PROVE  UNCHANGED <<at>>
    BY <1>45 DEF Waits
  <1>46. ASSUME NEW t \in Transcriber, Recovers(t)
         PROVE  UNCHANGED <<at>>
    BY <1>46 DEF Recovers
  <1>47. CASE UNCHANGED engineManagerVars
    BY <1>47 DEF engineManagerVars
  <1> QED
    BY <1>1, <1>2, <1>3, <1>4, <1>5, <1>6, <1>7, <1>8, <1>9, <1>10, <1>11, <1>12, <1>13,
       <1>14, <1>15, <1>16, <1>17, <1>18, <1>19, <1>20, <1>21, <1>22, <1>23, <1>24, <1>25,
       <1>26, <1>27, <1>28, <1>29, <1>30, <1>31, <1>32, <1>33, <1>34, <1>35, <1>36, <1>37,
       <1>38, <1>39, <1>40, <1>41, <1>42, <1>43, <1>44, <1>45, <1>46, <1>47
    DEF EngineManagerNext, LoadSteps, LoadEnds, ChangeSteps, StarterSteps, TranscriberSteps,
        IdlerSteps

LEMMA NameKnownStep ==
  ASSUME RegistryType, ThreadType, RecencyType, TouchedOnce, NameKnown, HeldKnown, Places,
         ManagerType, [EngineManagerNext]_engineManagerVars
  PROVE  NameKnown'
  <1> USE Constants, Threads DEF RegistryType, ManagerType, ThreadType, NameKnown, MayLoad,
                                 Goes, GoesWith, registryVars, engineVars, managerVars,
                                 dictationVars, threadVars
  <1>1. ASSUME NEW t \in Thread, Ensures(t) PROVE NameKnown'
    BY <1>1, AfterEnsurePlace DEF Ensures
  <1>2. ASSUME NEW t \in Thread, Resolves(t) PROVE NameKnown'
    BY <1>2 DEF Resolves
  <1>3. ASSUME NEW t \in Thread, Tries(t) PROVE NameKnown'
    BY <1>3 DEF Tries
  <1>4. ASSUME NEW t \in Thread, Locks(t) PROVE NameKnown'
    BY <1>4 DEF Locks
  <1>5. ASSUME NEW t \in Thread, Creates(t) PROVE NameKnown'
    BY <1>5, AfterEnsurePlace DEF Creates
  <1>6. ASSUME NEW t \in Thread, Whispers(t) PROVE NameKnown'
    BY <1>6 DEF Whispers
  <1>7. ASSUME NEW t \in Thread, Counts(t) PROVE NameKnown'
    BY <1>7 DEF Counts
  <1>8. ASSUME NEW t \in Thread, Drops(t) PROVE NameKnown'
    BY <1>8 DEF Drops
  <1>9. ASSUME NEW t \in Thread, LoadReturns(t) PROVE NameKnown'
    BY <1>9 DEF LoadReturns, EndsLoad
  <1>10. ASSUME NEW t \in Thread, LoadRaises(t) PROVE NameKnown'
    BY <1>10 DEF LoadRaises, EndsLoad
  <1>11. ASSUME NEW t \in Thread, LoadIsRefused(t) PROVE NameKnown'
    BY <1>11 DEF LoadIsRefused, EndsLoad
  <1>12. ASSUME NEW t \in Thread, Succeeds(t) PROVE NameKnown'
    <2>1. t \in MayLoad /\ name[t] \in Backend
      BY <1>12, SucceedsNames DEF NameKnown, Succeeds
    <2>2. UNCHANGED name /\ \E p : at' = [at EXCEPT ![t] = p]
      BY <1>12, SucceedsCases DEF Succeeds
    <2> QED
      BY <2>1, <2>2
  <1>13. ASSUME NEW t \in Thread, Ejects(t) PROVE NameKnown'
    BY <1>13 DEF Ejects
  <1>14. ASSUME NEW t \in Thread, Forgets(t) PROVE NameKnown'
    BY <1>14 DEF Forgets, Concludes
  <1>15. ASSUME NEW t \in Thread, Fails(t) PROVE NameKnown'
    BY <1>15 DEF Fails, Concludes
  <1>16. ASSUME NEW t \in Changing, Enters(t) PROVE NameKnown'
    BY <1>16 DEF Enters, Concludes
  <1>17. ASSUME NEW t \in Changing, UnloadsOld(t) PROVE NameKnown'
    BY <1>17 DEF UnloadsOld
  <1>18. ASSUME NEW t \in Changing, UnregistersOld(t) PROVE NameKnown'
    BY <1>18 DEF UnregistersOld
  <1>19. ASSUME NEW c \in Changer, NEW b \in Backend, RequestsModel(c, b) PROVE NameKnown'
    BY <1>19 DEF RequestsModel, Requests
  <1>20. ASSUME NEW c \in Changer, NEW b \in Backend, RequestsBackend(c, b) PROVE NameKnown'
    BY <1>20 DEF RequestsBackend, Requests
  <1>21. CASE LoaderEnds
    BY <1>21 DEF LoaderEnds
  <1>22. CASE HotkeyPresses
    BY <1>22 DEF HotkeyPresses
  <1>23. CASE HotkeyStops
    BY <1>23 DEF HotkeyStops
  <1>24. CASE HotkeyLooks
    BY <1>24 DEF HotkeyLooks, Looks
  <1>25. CASE HotkeyApplies
    BY <1>25 DEF HotkeyApplies
  <1>26. CASE IdleTimePasses
    BY <1>26 DEF IdleTimePasses
  <1>27. CASE IdlerLooks
    BY <1>27 DEF IdlerLooks, Looks
  <1>28. CASE IdlerUnloads
    BY <1>28 DEF IdlerUnloads
  <1>29. ASSUME NEW t \in Starter, StarterAsks(t) PROVE NameKnown'
    BY <1>29 DEF StarterAsks
  <1>30. ASSUME NEW t \in Starter, StarterEnters(t) PROVE NameKnown'
    BY <1>30 DEF StarterEnters
  <1>31. ASSUME NEW t \in Starter, Revalidates(t) PROVE NameKnown'
    BY <1>31 DEF Revalidates
  <1>32. ASSUME NEW t \in Starter, Checks(t) PROVE NameKnown'
    BY <1>32 DEF Checks, Concludes
  <1>33. ASSUME NEW t \in Starter, Verifies(t) PROVE NameKnown'
    BY <1>33 DEF Verifies, Looks
  <1>34. ASSUME NEW t \in Starter, Replaces(t) PROVE NameKnown'
    BY <1>34 DEF Replaces
  <1>35. ASSUME NEW t \in Starter, Judges(t) PROVE NameKnown'
    BY <1>35 DEF Judges, Looks
  <1>36. ASSUME NEW t \in Starter \cup Transcriber, Joins(t) PROVE NameKnown'
    BY <1>36 DEF Joins
  <1>37. ASSUME NEW t \in Transcriber, TranscriberLooks(t) PROVE NameKnown'
    BY <1>37 DEF TranscriberLooks, Looks
  <1>38. ASSUME NEW t \in Transcriber, TranscriberRereads(t) PROVE NameKnown'
    BY <1>38 DEF TranscriberRereads, Looks, Loses
  <1>39. ASSUME NEW t \in Transcriber, TranscriberGivesUp(t) PROVE NameKnown'
    BY <1>39 DEF TranscriberGivesUp, Loses
  <1>40. ASSUME NEW t \in Transcriber, Marks(t) PROVE NameKnown'
    BY <1>40 DEF Marks
  <1>41. ASSUME NEW t \in Transcriber, Calls(t) PROVE NameKnown'
    BY <1>41 DEF Calls, Loses
  <1>42. ASSUME NEW t \in Transcriber, InferenceEnds(t) PROVE NameKnown'
    BY <1>42 DEF InferenceEnds
  <1>43. ASSUME NEW t \in Transcriber, Unmarks(t) PROVE NameKnown'
    BY <1>43 DEF Unmarks
  <1>44. ASSUME NEW t \in Transcriber, Touches(t) PROVE NameKnown'
    BY <1>44 DEF Touches
  <1>45. ASSUME NEW t \in Thread, Waits(t)
         PROVE  UNCHANGED <<at, name>>
    BY <1>45 DEF Waits
  <1>46. ASSUME NEW t \in Transcriber, Recovers(t)
         PROVE  UNCHANGED <<at, name>>
    BY <1>46 DEF Recovers
  <1>47. CASE UNCHANGED engineManagerVars
    BY <1>47 DEF engineManagerVars
  <1> QED
    BY <1>1, <1>2, <1>3, <1>4, <1>5, <1>6, <1>7, <1>8, <1>9, <1>10, <1>11, <1>12, <1>13,
       <1>14, <1>15, <1>16, <1>17, <1>18, <1>19, <1>20, <1>21, <1>22, <1>23, <1>24, <1>25,
       <1>26, <1>27, <1>28, <1>29, <1>30, <1>31, <1>32, <1>33, <1>34, <1>35, <1>36, <1>37,
       <1>38, <1>39, <1>40, <1>41, <1>42, <1>43, <1>44, <1>45, <1>46, <1>47
    DEF EngineManagerNext, LoadSteps, LoadEnds, ChangeSteps, StarterSteps, TranscriberSteps,
        IdlerSteps

LEMMA HeldKnownStep ==
  ASSUME RegistryType, ThreadType, RecencyType, TouchedOnce, NameKnown, HeldKnown, Places,
         [EngineManagerNext]_engineManagerVars
  PROVE  HeldKnown'
  <1> USE Constants, Threads DEF RegistryType, ThreadType, HeldKnown, Goes, GoesWith,
                                 registryVars, engineVars, managerVars, dictationVars,
                                 threadVars
  <1>1. ASSUME NEW t \in Thread, Ensures(t) PROVE HeldKnown'
    BY <1>1, AfterEnsurePlace DEF Ensures
  <1>2. ASSUME NEW t \in Thread, Resolves(t) PROVE HeldKnown'
    BY <1>2 DEF Resolves
  <1>3. ASSUME NEW t \in Thread, Tries(t) PROVE HeldKnown'
    BY <1>3 DEF Tries
  <1>4. ASSUME NEW t \in Thread, Locks(t) PROVE HeldKnown'
    BY <1>4 DEF Locks
  <1>5. ASSUME NEW t \in Thread, Creates(t) PROVE HeldKnown'
    BY <1>5, AfterEnsurePlace DEF Creates
  <1>6. ASSUME NEW t \in Thread, Whispers(t) PROVE HeldKnown'
    BY <1>6 DEF Whispers
  <1>7. ASSUME NEW t \in Thread, Counts(t) PROVE HeldKnown'
    BY <1>7 DEF Counts
  <1>8. ASSUME NEW t \in Thread, Drops(t) PROVE HeldKnown'
    BY <1>8 DEF Drops
  <1>9. ASSUME NEW t \in Thread, LoadReturns(t) PROVE HeldKnown'
    BY <1>9 DEF LoadReturns, EndsLoad
  <1>10. ASSUME NEW t \in Thread, LoadRaises(t) PROVE HeldKnown'
    BY <1>10 DEF LoadRaises, EndsLoad
  <1>11. ASSUME NEW t \in Thread, LoadIsRefused(t) PROVE HeldKnown'
    BY <1>11 DEF LoadIsRefused, EndsLoad
  <1>12. ASSUME NEW t \in Thread, Succeeds(t) PROVE HeldKnown'
    <2>1. \E p \in Place \ {"locks", "loads"} : at' = [at EXCEPT ![t] = p]
      BY <1>12, SucceedsCases DEF Place
    <2>2. \A u \in Thread \ {t} : held'[u] = held[u]
      <3>1. UNCHANGED held \/ \E b \in Backend : held' = [held EXCEPT ![t] = registry[b]]
        BY <1>12, SucceedsCases
      <3> QED
        BY <3>1
    <2> QED
      BY <2>1, <2>2
  <1>13. ASSUME NEW t \in Thread, Ejects(t) PROVE HeldKnown'
    BY <1>13 DEF Ejects
  <1>14. ASSUME NEW t \in Thread, Forgets(t) PROVE HeldKnown'
    <2>1. t \in MayLoad /\ UNCHANGED held
      BY <1>14, WhoLoads DEF Forgets, threadVars
    <2>2. Concludes(t)
      BY <1>14 DEF Forgets, Goes, GoesWith
    <2>3. \E p \in Place \ {"locks", "loads"} : at' = [at EXCEPT ![t] = p]
      BY <2>1, <2>2, ConcludesPlace DEF Place
    <2> QED
      BY <2>1, <2>3
  <1>15. ASSUME NEW t \in Thread, Fails(t) PROVE HeldKnown'
    <2>1. t \in MayLoad /\ UNCHANGED held
      BY <1>15, WhoLoads DEF Fails, threadVars
    <2>2. Concludes(t) \/ at' = [at EXCEPT ![t] = "succeeded"]
      BY <1>15 DEF Fails, Goes, GoesWith
    <2>3. \E p \in Place \ {"locks", "loads"} : at' = [at EXCEPT ![t] = p]
      BY <2>1, <2>2, ConcludesPlace DEF Place
    <2> QED
      BY <2>1, <2>3
  <1>16. ASSUME NEW t \in Changing, Enters(t) PROVE HeldKnown'
    <2>1. t \in MayLoad
      BY DEF MayLoad
    <2>2. \/ Concludes(t)
          \/ \E p \in {"unregisters", "unloads"} : at' = [at EXCEPT ![t] = p]
      BY <1>16 DEF Enters, GoesWith, Goes
    <2>3. \E p \in Place \ {"locks", "loads"} : at' = [at EXCEPT ![t] = p]
      BY <2>1, <2>2, ConcludesPlace DEF Place
    <2>4. \A u \in Thread \ {t} : held'[u] = held[u]
      BY <1>16 DEF Enters, GoesWith
    <2> QED
      BY <2>3, <2>4
  <1>17. ASSUME NEW t \in Changing, UnloadsOld(t) PROVE HeldKnown'
    BY <1>17 DEF UnloadsOld
  <1>18. ASSUME NEW t \in Changing, UnregistersOld(t) PROVE HeldKnown'
    BY <1>18 DEF UnregistersOld
  <1>19. ASSUME NEW c \in Changer, NEW b \in Backend, RequestsModel(c, b) PROVE HeldKnown'
    BY <1>19 DEF RequestsModel, Requests
  <1>20. ASSUME NEW c \in Changer, NEW b \in Backend, RequestsBackend(c, b) PROVE HeldKnown'
    BY <1>20 DEF RequestsBackend, Requests
  <1>21. CASE LoaderEnds
    BY <1>21 DEF LoaderEnds
  <1>22. CASE HotkeyPresses
    BY <1>22 DEF HotkeyPresses
  <1>23. CASE HotkeyStops
    BY <1>23 DEF HotkeyStops
  <1>24. CASE HotkeyLooks
    BY <1>24 DEF HotkeyLooks, Looks
  <1>25. CASE HotkeyApplies
    <2>1. UNCHANGED held
      BY <1>25 DEF HotkeyApplies
    <2>2. \A t \in Thread : at'[t] \in {at[t], "enters", "off", "asks"}
      BY <1>25 DEF HotkeyApplies
    <2> QED
      BY <2>1, <2>2
  <1>26. CASE IdleTimePasses
    BY <1>26 DEF IdleTimePasses
  <1>27. CASE IdlerLooks
    BY <1>27 DEF IdlerLooks, Looks
  <1>28. CASE IdlerUnloads
    BY <1>28 DEF IdlerUnloads
  <1>29. ASSUME NEW t \in Starter, StarterAsks(t) PROVE HeldKnown'
    BY <1>29 DEF StarterAsks
  <1>30. ASSUME NEW t \in Starter, StarterEnters(t) PROVE HeldKnown'
    BY <1>30 DEF StarterEnters
  <1>31. ASSUME NEW t \in Starter, Revalidates(t) PROVE HeldKnown'
    BY <1>31 DEF Revalidates
  <1>32. ASSUME NEW t \in Starter, Checks(t) PROVE HeldKnown'
    <2>1. t \in MayLoad /\ UNCHANGED held
      BY <1>32 DEF Checks, MayLoad, threadVars
    <2>2. Concludes(t) \/ at' = [at EXCEPT ![t] = "resolves"]
      BY <1>32 DEF Checks, Goes, GoesWith
    <2>3. \E p \in Place \ {"locks", "loads"} : at' = [at EXCEPT ![t] = p]
      BY <2>1, <2>2, ConcludesPlace DEF Place
    <2> QED
      BY <2>1, <2>3
  <1>33. ASSUME NEW t \in Starter, Verifies(t) PROVE HeldKnown'
    BY <1>33 DEF Verifies, Looks
  <1>34. ASSUME NEW t \in Starter, Replaces(t) PROVE HeldKnown'
    BY <1>34 DEF Replaces
  <1>35. ASSUME NEW t \in Starter, Judges(t) PROVE HeldKnown'
    BY <1>35 DEF Judges, Looks
  <1>36. ASSUME NEW t \in Starter \cup Transcriber, Joins(t) PROVE HeldKnown'
    BY <1>36 DEF Joins
  <1>37. ASSUME NEW t \in Transcriber, TranscriberLooks(t) PROVE HeldKnown'
    BY <1>37 DEF TranscriberLooks, Looks
  <1>38. ASSUME NEW t \in Transcriber, TranscriberRereads(t) PROVE HeldKnown'
    BY <1>38 DEF TranscriberRereads, Looks, Loses
  <1>39. ASSUME NEW t \in Transcriber, TranscriberGivesUp(t) PROVE HeldKnown'
    BY <1>39 DEF TranscriberGivesUp, Loses
  <1>40. ASSUME NEW t \in Transcriber, Marks(t) PROVE HeldKnown'
    BY <1>40 DEF Marks
  <1>41. ASSUME NEW t \in Transcriber, Calls(t) PROVE HeldKnown'
    BY <1>41 DEF Calls, Loses
  <1>42. ASSUME NEW t \in Transcriber, InferenceEnds(t) PROVE HeldKnown'
    BY <1>42 DEF InferenceEnds
  <1>43. ASSUME NEW t \in Transcriber, Unmarks(t) PROVE HeldKnown'
    BY <1>43 DEF Unmarks
  <1>44. ASSUME NEW t \in Transcriber, Touches(t) PROVE HeldKnown'
    BY <1>44 DEF Touches
  <1>45. ASSUME NEW t \in Thread, Waits(t)
         PROVE  UNCHANGED <<at, held>>
    BY <1>45 DEF Waits
  <1>46. ASSUME NEW t \in Transcriber, Recovers(t)
         PROVE  UNCHANGED <<at, held>>
    BY <1>46 DEF Recovers
  <1>47. CASE UNCHANGED engineManagerVars
    BY <1>47 DEF engineManagerVars
  <1> QED
    BY <1>1, <1>2, <1>3, <1>4, <1>5, <1>6, <1>7, <1>8, <1>9, <1>10, <1>11, <1>12, <1>13,
       <1>14, <1>15, <1>16, <1>17, <1>18, <1>19, <1>20, <1>21, <1>22, <1>23, <1>24, <1>25,
       <1>26, <1>27, <1>28, <1>29, <1>30, <1>31, <1>32, <1>33, <1>34, <1>35, <1>36, <1>37,
       <1>38, <1>39, <1>40, <1>41, <1>42, <1>43, <1>44, <1>45, <1>46, <1>47
    DEF EngineManagerNext, LoadSteps, LoadEnds, ChangeSteps, StarterSteps, TranscriberSteps,
        IdlerSteps

(* A thread that moves elsewhere does no harm to an inference, unless the    *)
(* engine of another one is unloaded.                                        *)
LEMMA InferenceKept ==
  ASSUME ThreadType, InferenceKeepsEngine, NEW t \in Thread, NEW p \in Place \ {"infers"},
         at' = [at EXCEPT ![t] = p], \A u \in Thread \ {t} : held'[u] = held[u],
         \A e \in loaded : InProcess(e) /\ Inferring(e) => e \in loaded'
  PROVE  InferenceKeepsEngine'
  BY Threads DEF ThreadType, InferenceKeepsEngine, Inferring, InProcess

LEMMA InferenceStep ==
  ASSUME RegistryType, ThreadType, RecencyType, TouchedOnce, NameKnown, HeldKnown, Places,
         RegistryKeyed, EngineType,
         InferenceKeepsEngine, [EngineManagerNext]_engineManagerVars
  PROVE  InferenceKeepsEngine'
  <1> USE Constants, Threads DEF InferenceKeepsEngine, ThreadType, RegistryType, EngineType,
                                 Inferring, Goes, GoesWith, Unloads, Ready, registryVars,
                                 engineVars, managerVars, dictationVars, threadVars
  <1>1. ASSUME NEW t \in Thread, Ensures(t) PROVE InferenceKeepsEngine'
    BY <1>1, AfterEnsurePlace DEF Ensures
  <1>2. ASSUME NEW t \in Thread, Resolves(t) PROVE InferenceKeepsEngine'
    BY <1>2 DEF Resolves
  <1>3. ASSUME NEW t \in Thread, Tries(t) PROVE InferenceKeepsEngine'
    BY <1>3 DEF Tries
  <1>4. ASSUME NEW t \in Thread, Locks(t) PROVE InferenceKeepsEngine'
    BY <1>4 DEF Locks
  <1>5. ASSUME NEW t \in Thread, Creates(t) PROVE InferenceKeepsEngine'
    <2>1. /\ at' = [at EXCEPT ![t] = AfterEnsure(t)] /\ UNCHANGED held
          /\ loaded' = loaded \ {Fresh(name[t])} /\ CanCreate(name[t])
      BY <1>5 DEF Creates, Goes
    <2>2. AfterEnsure(t) \in Place \ {"infers"}
      BY AfterEnsurePlace DEF Place
    <2>3. \A e \in loaded : Inferring(e) => e \in loaded'
      BY <2>1, FreshIsUnheld DEF Inferring
    <2> QED
      BY <2>1, <2>2, <2>3, InferenceKept
  <1>6. ASSUME NEW t \in Thread, Whispers(t) PROVE InferenceKeepsEngine'
    <2> DEFINE e == IF registry[Whisper] = None THEN Fresh(Whisper) ELSE registry[Whisper]
    <2>1. PICK p \in {"succeeded", "failed"} : at' = [at EXCEPT ![t] = p]
      BY <1>6 DEF Whispers, Goes
    <2>2. e[1] = Whisper
      BY <1>6, FreshIsUnheld DEF Whispers, RegistryKeyed
    <2>3. UNCHANGED held /\ loaded \ {e} \subseteq loaded'
      BY <1>6 DEF Whispers
    <2> HIDE DEF e
    <2>4. \A f \in loaded : InProcess(f) => f \in loaded'
      BY <2>2, <2>3 DEF InProcess
    <2> QED
      BY <2>1, <2>3, <2>4, InferenceKept DEF Place
  <1>7. ASSUME NEW t \in Thread, Counts(t) PROVE InferenceKeepsEngine'
    BY <1>7 DEF Counts
  <1>8. ASSUME NEW t \in Thread, Drops(t) PROVE InferenceKeepsEngine'
    BY <1>8 DEF Drops
  <1>9. ASSUME NEW t \in Thread, LoadReturns(t) PROVE InferenceKeepsEngine'
    BY <1>9 DEF LoadReturns, EndsLoad
  <1>10. ASSUME NEW t \in Thread, LoadRaises(t) PROVE InferenceKeepsEngine'
    BY <1>10 DEF LoadRaises, EndsLoad
  <1>11. ASSUME NEW t \in Thread, LoadIsRefused(t) PROVE InferenceKeepsEngine'
    BY <1>11 DEF LoadIsRefused, EndsLoad
  <1>12. ASSUME NEW t \in Thread, Succeeds(t) PROVE InferenceKeepsEngine'
    <2>1. \E p \in Place \ {"infers"} : at' = [at EXCEPT ![t] = p]
      BY <1>12, SucceedsCases DEF Place
    <2>2. \A u \in Thread \ {t} : held'[u] = held[u]
      <3>1. UNCHANGED held \/ \E b \in Backend : held' = [held EXCEPT ![t] = registry[b]]
        BY <1>12, SucceedsCases
      <3> QED
        BY <3>1
    <2>3. UNCHANGED loaded
      BY <1>12 DEF Succeeds, engineVars
    <2> QED
      BY <2>1, <2>2, <2>3, InferenceKept
  <1>13. ASSUME NEW t \in Thread, Ejects(t) PROVE InferenceKeepsEngine'
    BY <1>13 DEF Ejects
  <1>14. ASSUME NEW t \in Thread, Forgets(t) PROVE InferenceKeepsEngine'
    <2>1. t \in MayLoad /\ UNCHANGED <<held, loaded>>
      BY <1>14, WhoLoads DEF Forgets, threadVars, engineVars
    <2>2. Concludes(t)
      BY <1>14 DEF Forgets, Goes
    <2>3. \E p \in Place \ {"infers"} : at' = [at EXCEPT ![t] = p]
      BY <2>1, <2>2, ConcludesPlace DEF Place
    <2> QED
      BY <2>1, <2>3, InferenceKept
  <1>15. ASSUME NEW t \in Thread, Fails(t) PROVE InferenceKeepsEngine'
    <2>1. t \in MayLoad /\ UNCHANGED <<held, loaded>>
      BY <1>15, WhoLoads DEF Fails, threadVars, engineVars
    <2>2. Concludes(t) \/ at' = [at EXCEPT ![t] = "succeeded"]
      BY <1>15 DEF Fails, Goes
    <2>3. \E p \in Place \ {"infers"} : at' = [at EXCEPT ![t] = p]
      BY <2>1, <2>2, ConcludesPlace DEF Place
    <2> QED
      BY <2>1, <2>3, InferenceKept
  <1>16. ASSUME NEW t \in Changing, Enters(t) PROVE InferenceKeepsEngine'
    BY <1>16 DEF Enters, Concludes
  <1>17. ASSUME NEW t \in Changing, UnloadsOld(t) PROVE InferenceKeepsEngine'
    BY <1>17 DEF UnloadsOld
  <1>18. ASSUME NEW t \in Changing, UnregistersOld(t) PROVE InferenceKeepsEngine'
    BY <1>18 DEF UnregistersOld
  <1>19. ASSUME NEW c \in Changer, NEW b \in Backend, RequestsModel(c, b)
         PROVE  InferenceKeepsEngine'
    BY <1>19 DEF RequestsModel, Requests
  <1>20. ASSUME NEW c \in Changer, NEW b \in Backend, RequestsBackend(c, b)
         PROVE  InferenceKeepsEngine'
    BY <1>20 DEF RequestsBackend, Requests
  <1>21. CASE LoaderEnds
    BY <1>21 DEF LoaderEnds
  <1>22. CASE HotkeyPresses
    BY <1>22 DEF HotkeyPresses
  <1>23. CASE HotkeyStops
    BY <1>23 DEF HotkeyStops
  <1>24. CASE HotkeyLooks
    BY <1>24 DEF HotkeyLooks, Looks
  <1>25. CASE HotkeyApplies
    BY <1>25 DEF HotkeyApplies
  <1>26. CASE IdleTimePasses
    BY <1>26 DEF IdleTimePasses
  <1>27. CASE IdlerLooks
    BY <1>27 DEF IdlerLooks, Looks
  <1>28. CASE IdlerUnloads
    BY <1>28 DEF IdlerUnloads
  <1>29. ASSUME NEW t \in Starter, StarterAsks(t) PROVE InferenceKeepsEngine'
    BY <1>29 DEF StarterAsks
  <1>30. ASSUME NEW t \in Starter, StarterEnters(t) PROVE InferenceKeepsEngine'
    BY <1>30 DEF StarterEnters
  <1>31. ASSUME NEW t \in Starter, Revalidates(t) PROVE InferenceKeepsEngine'
    BY <1>31 DEF Revalidates
  <1>32. ASSUME NEW t \in Starter, Checks(t) PROVE InferenceKeepsEngine'
    BY <1>32 DEF Checks, Concludes
  <1>33. ASSUME NEW t \in Starter, Verifies(t) PROVE InferenceKeepsEngine'
    BY <1>33 DEF Verifies, Looks
  <1>34. ASSUME NEW t \in Starter, Replaces(t) PROVE InferenceKeepsEngine'
    BY <1>34 DEF Replaces
  <1>35. ASSUME NEW t \in Starter, Judges(t) PROVE InferenceKeepsEngine'
    BY <1>35 DEF Judges, Looks
  <1>36. ASSUME NEW t \in Starter \cup Transcriber, Joins(t) PROVE InferenceKeepsEngine'
    BY <1>36 DEF Joins
  <1>37. ASSUME NEW t \in Transcriber, TranscriberLooks(t) PROVE InferenceKeepsEngine'
    BY <1>37 DEF TranscriberLooks, Looks
  <1>38. ASSUME NEW t \in Transcriber, TranscriberRereads(t) PROVE InferenceKeepsEngine'
    BY <1>38 DEF TranscriberRereads, Looks, Loses
  <1>39. ASSUME NEW t \in Transcriber, TranscriberGivesUp(t) PROVE InferenceKeepsEngine'
    BY <1>39 DEF TranscriberGivesUp, Loses
  <1>40. ASSUME NEW t \in Transcriber, Marks(t) PROVE InferenceKeepsEngine'
    BY <1>40 DEF Marks
  <1>41. ASSUME NEW t \in Transcriber, Calls(t) PROVE InferenceKeepsEngine'
    BY <1>41 DEF Calls, Loses
  <1>42. ASSUME NEW t \in Transcriber, InferenceEnds(t) PROVE InferenceKeepsEngine'
    BY <1>42 DEF InferenceEnds
  <1>43. ASSUME NEW t \in Transcriber, Unmarks(t) PROVE InferenceKeepsEngine'
    BY <1>43 DEF Unmarks
  <1>44. ASSUME NEW t \in Transcriber, Touches(t) PROVE InferenceKeepsEngine'
    BY <1>44 DEF Touches
  <1>45. ASSUME NEW t \in Thread, Waits(t)
         PROVE  UNCHANGED <<loaded, at, held>>
    BY <1>45 DEF Waits
  <1>46. ASSUME NEW t \in Transcriber, Recovers(t)
         PROVE  UNCHANGED <<loaded, at, held>>
    BY <1>46 DEF Recovers
  <1>47. CASE UNCHANGED engineManagerVars
    BY <1>47 DEF engineManagerVars
  <1> QED
    BY <1>1, <1>2, <1>3, <1>4, <1>5, <1>6, <1>7, <1>8, <1>9, <1>10, <1>11, <1>12, <1>13,
       <1>14, <1>15, <1>16, <1>17, <1>18, <1>19, <1>20, <1>21, <1>22, <1>23, <1>24, <1>25,
       <1>26, <1>27, <1>28, <1>29, <1>30, <1>31, <1>32, <1>33, <1>34, <1>35, <1>36, <1>37,
       <1>38, <1>39, <1>40, <1>41, <1>42, <1>43, <1>44, <1>45, <1>46, <1>47
    DEF EngineManagerNext, LoadSteps, LoadEnds, ChangeSteps, StarterSteps, TranscriberSteps,
        IdlerSteps


-----------------------------------------------------------------------------
(* The inductive invariant and the theorems.                                 *)

IInv ==
    /\ EngineManagerTypeOK /\ RegistryKeyed /\ TouchedOnce
    /\ Places /\ NameKnown /\ HeldKnown /\ InferenceKeepsEngine

LEMMA InitInv == EngineManagerInit => IInv
  <1> SUFFICES ASSUME EngineManagerInit PROVE IInv
    OBVIOUS
  <1> USE Constants, Threads DEF EngineManagerInit
  <1>1. RegistryType /\ RegistryKeyed
    BY DEF RegistryType, RegistryKeyed
  <1>2. RecencyType /\ TouchedOnce
    <2>1. recency = <<>> /\ IsFiniteSet(Backend)
      BY EngineAssumption DEF EngineConstants
    <2>2. Cardinality(Backend) \in Nat
      BY <2>1, FS_CardinalityType
    <2> QED
      BY <2>1, <2>2 DEF RecencyType, TouchedOnce
  <1>3. EngineType /\ ManagerType
    BY DEF EngineType, ManagerType
  <1>4. DictationType
    BY DEF DictationType
  <1>5. ThreadType
    BY DEF ThreadType, Place
  <1>6. Places /\ NameKnown /\ HeldKnown /\ InferenceKeepsEngine
    BY DEF Places, NameKnown, MayLoad, HeldKnown, InferenceKeepsEngine
  <1> QED
    BY <1>1, <1>2, <1>3, <1>4, <1>5, <1>6 DEF IInv, EngineManagerTypeOK

LEMMA StepInv == IInv /\ [EngineManagerNext]_engineManagerVars => IInv'
  <1> SUFFICES ASSUME IInv, [EngineManagerNext]_engineManagerVars PROVE IInv'
    OBVIOUS
  <1> USE DEF IInv, EngineManagerTypeOK
  <1>1. RegistryType' /\ RegistryKeyed'
    BY RegistryStep, KeyedStep
  <1>2. RecencyType' /\ TouchedOnce'
    BY RecencyStep
  <1>3. EngineType' /\ ManagerType' /\ DictationType'
    BY EngineStep, ManagerStep, DictationStep
  <1>4. ThreadType'
    BY PlaceStep, HeldStep, NamesStep, LeavingStep DEF ThreadType
  <1>5. Places' /\ NameKnown' /\ HeldKnown'
    BY PlacesStep, NameKnownStep, HeldKnownStep
  <1>6. InferenceKeepsEngine'
    BY InferenceStep
  <1> QED
    BY <1>1, <1>2, <1>3, <1>4, <1>5, <1>6

(* What the proofs below rest on, in every reachable state: no step of any   *)
(* of the threads breaks the inductive invariant.                            *)
THEOREM InvariantHolds == EngineManagerSpec => []IInv
  BY InitInv, StepInv, PTL DEF EngineManagerSpec

(* Every variable keeps its type, for any backends, dictations and requests: *)
(* in particular _model_access_times names each backend once at most.        *)
THEOREM EngineTypeCorrect == EngineManagerSpec => []EngineManagerTypeOK
  <1>1. IInv => EngineManagerTypeOK
    BY DEF IInv
  <1> QED
    BY <1>1, InvariantHolds, PTL

(* No in-process engine is unloaded under an inference, whether the unload   *)
(* is one of a change, an eviction, a failed load or the idle time, and no   *)
(* object under one is created anew.                                         *)
THEOREM InferencesKeepTheirEngine == EngineManagerSpec => []InferenceKeepsEngine
  <1>1. IInv => InferenceKeepsEngine
    BY DEF IInv
  <1> QED
    BY <1>1, InvariantHolds, PTL
-----------------------------------------------------------------------------
(* Where nothing goes wrong.                                                 *)

Untroubled == env.troubles = {}

(* A change past its first section, the places of a loader whose engine is   *)
(* not there yet, and the threads that may create or unload an engine.       *)
ChangePlace == {"unloads", "unregisters", "ensures", "creates", "resolves", "locks", "loads",
                "counts", "succeeded", "ejects", "forgets"}
ColdPlace == {"ensures", "creates", "tries", "locks", "loads"}
AtRest(t) == at[t] \in {"off", "spent"}

Cold == \A b \in Backend : registry[b] = None
InMemory(b) == registry[b] \in loaded
Serving == ~Cold /\ \A b \in Backend : registry[b] # None => InMemory(b)

(* No load fails, nobody falls back, the idle time does not run.             *)
CalmPlaces ==
    /\ armed = FALSE /\ lost = {} /\ deferred["backend"] = Nothing
    /\ failures = [b \in Backend |-> 0]
    /\ at[Idler] = "off"
    /\ at[Hotkey] \in {"off", "looks", "applies", "enters"} \cup ChangePlace
    /\ at[Loader] \in {"off", "counts", "succeeded", "forgets", "finishes"} \cup ColdPlace
    /\ \A t \in Starter : at[t] \in {"off", "asks", "joins", "lazy", "ensures", "revalidates",
                                     "checks", "verifies"}
    /\ \A t \in Transcriber : at[t] \in {"off", "looks", "joins", "rereads", "marks", "calls",
                                         "infers", "unmarks", "touches"}
    /\ \A c \in Changer : at[c] \in {"off", "spent", "enters"} \cup ChangePlace

(* The hotkey is at work before a recording only, a transcription after it;  *)
(* a mark is a transcription's.                                              *)
PhaseTurns ==
    /\ at[Hotkey] # "off" => phase = "idle" /\ \A c \in Changer : AtRest(c)
    /\ \A t \in Transcriber : at[t] # "off" => phase = "busy" /\ t[2] = starts
    /\ \A b \in marked : \E t \in Transcriber : at[t] \in {"calls", "infers", "unmarks"} /\ name[t] = b

(* A change is alone, but for a transcription while it is yet to begin; so   *)
(* is the hotkey with what was put off.                                      *)
ChangeTurns ==
    /\ \A c \in Changer : ~AtRest(c) =>
        /\ \A u \in Thread \ Transcriber : u # c => AtRest(u)
        /\ at[c] \in ChangePlace \/ kind[c] = "backend" => phase = "idle"
    /\ at[Hotkey] \in ChangePlace \cup {"enters"} =>
        kind[Hotkey] = "model" /\ at[Loader] = "off" /\ \A t \in Starter : at[t] = "off"
    /\ deferred["model"] # Nothing => at[Loader] = "off" /\ \A t \in Starter : at[t] = "off"

(* While one is made, every registered engine has its model in memory but    *)
(* the one that is left or thrown out and the one that is to be loaded.      *)
ChangeKeeps(t) ==
    /\ kind[t] = "model" \/ at[t] \notin {"unloads", "unregisters"} => name[t] = config
    /\ \A b \in Backend : registry[b] # None /\ ~InMemory(b) =>
        \/ at[t] \in {"unloads", "unregisters", "ejects", "forgets"} /\ b = leaving[t]
        \/ at[t] \in {"resolves", "locks", "loads"} /\ b = config
    /\ at[t] \in {"unloads", "unregisters"} => leaving[t] \in Backend
    /\ at[t] \in {"unloads", "ejects"} => held[t] = registry[leaving[t]] /\ held[t] # None
    /\ at[t] \in {"resolves", "locks", "loads"} => registry[config] # None
    /\ at[t] \in {"locks", "loads"} => held[t] = registry[config]
    /\ at[t] \in {"counts", "succeeded", "ejects", "forgets"} => InMemory(config)
    /\ at[t] \in {"ejects", "forgets"} => leaving[t] \in Backend /\ leaving[t] # config

ChangesKeep == \A t \in Changing : at[t] \in ChangePlace => ChangeKeeps(t)

(* The loader finds nothing and leaves the one engine there is.              *)
LoaderKeeps ==
    at[Loader] # "off" =>
        /\ \A b \in Backend : b # config => registry[b] = None
        /\ at[Loader] \in {"ensures", "creates"} => Cold /\ name[Loader] = config
        /\ at[Loader] \in {"tries", "locks", "loads"} => registry[config] # None /\ ~InMemory(config)
        /\ at[Loader] \in {"locks", "loads"} => held[Loader] = registry[config]
        /\ at[Loader] \notin ColdPlace => InMemory(config)
        /\ at[Loader] = "forgets" => leaving[Loader] # config

(* Nothing was ever begun, or there are engines, and whichever a look meets  *)
(* serves; the configured one is among them unless it has been put off.      *)
NothingYet ==
    /\ Cold /\ phase = "idle" /\ at[Hotkey] \notin {"applies", "enters"}
    /\ deferred["model"] = Nothing /\ \A t \in Starter : at[t] = "off"

Settled == (\A t \in Changing : at[t] \notin ChangePlace) /\ at[Loader] = "off"
SettledServes ==
    Settled => /\ Serving \/ NothingYet
               /\ deferred["model"] = Nothing /\ at[Hotkey] # "enters" /\ ~Cold => registry[config] # None

(* Who is past the wait for the loader finds what it left.                   *)
UsersFind ==
    /\ \A t \in Starter :
        /\ at[t] \notin {"off", "asks", "joins"} => at[Loader] \notin ColdPlace
        /\ at[t] \in {"ensures", "revalidates", "checks"} => lazyLock = t
        /\ at[t] = "ensures" => name[t] = config
        /\ at[t] = "checks" => held[t] \in loaded
    /\ \A t \in Transcriber :
        /\ at[t] \notin {"off", "looks", "joins"} => at[Loader] \notin ColdPlace
        /\ at[t] = "rereads" => at[Loader] = "off"
        /\ at[t] \in {"marks", "calls"} => held[t] \in loaded

Calm == /\ CalmPlaces /\ PhaseTurns /\ ChangeTurns /\ ChangesKeep /\ LoaderKeeps
        /\ SettledServes /\ UsersFind
CalmInv == Untroubled => Calm

(* Who is who.                                                               *)
LEMMA Roles ==
  /\ Loader \in Thread /\ Hotkey \in Thread /\ Idler \in Thread
  /\ \A t \in Thread : t \in {Loader, Idler} \cup Starter \cup Transcriber \cup Changing
  /\ \A t \in Changing : t = Hotkey \/ t \in Changer
  /\ Hotkey \in Changing /\ \A t \in Changer : t \in Changing /\ t \in Thread
  /\ \A t \in Changing : /\ t \in Thread /\ t \notin Starter /\ t \notin Transcriber
                         /\ t # Loader /\ t # Idler
  /\ \A t \in Starter : /\ t \in Thread /\ t \notin Transcriber /\ t \notin Changing
                        /\ t # Loader /\ t # Hotkey /\ t # Idler
  /\ \A t \in Transcriber : /\ t \in Thread /\ t \notin Starter /\ t \notin Changing
                            /\ t # Loader /\ t # Hotkey /\ t # Idler
  /\ Loader # Hotkey /\ Loader # Idler /\ Hotkey # Idler /\ Hotkey \notin Changer
  /\ Loader \notin Starter /\ Loader \notin Transcriber /\ Loader \notin Changing
  BY DEF Thread, Loader, Hotkey, Idler, Starter, Transcriber, Changer, Changing

(* The transcription of a recording is known by its number.                  *)
LEMMA OneTranscriber ==
  ASSUME NEW t \in Transcriber, NEW u \in Transcriber, t[2] = u[2]
  PROVE  t = u
  BY DEF Transcriber

LEMMA EnvironmentFacts ==
  ASSUME RegistryType
  PROVE  env.models \in Nat /\ env.models > 0 /\ MaxFailures \in Nat /\ MaxFailures > 0
  BY EngineAssumption DEF EngineConstants, Environment, RegistryType

(* No breaker is open where no load has failed.                              *)
LEMMA NoneDisabled ==
  ASSUME RegistryType, CalmPlaces
  PROVE  ~Disabled(config)
  BY EnvironmentFacts DEF Disabled, CalmPlaces, RegistryType

(* A look meets what is in memory or nothing, and something where all that   *)
(* is registered serves.                                                     *)
LEMMA LooksMeet ==
  ASSUME RegistryType, EngineType, NEW e, Sees(e)
  PROVE  /\ e # None => e \in loaded
         /\ Serving => e # None
         /\ (\A b \in Backend : ~InMemory(b)) => e = None
  <1>1. config \in Backend /\ Whisper \in Backend /\ loaded \subseteq Engine /\ None \notin Engine
    BY Constants, Threads DEF RegistryType, EngineType
  <1>2. None \notin loaded
    BY <1>1
  <1> DEFINE registered == {registry[b] : b \in Backend} \ {None}
  <1>3. \A r \in registered : \E b \in Backend : r = registry[b] /\ r # None
    OBVIOUS
  <1>4. Serving => registered # {} /\ \A r \in registered : r \in loaded
    BY DEF Serving, Cold, InMemory
  <1>5. (\A b \in Backend : ~InMemory(b)) =>
            /\ registry[config] \notin loaded /\ registry[Whisper] \notin loaded
            /\ \A r \in registered : r \notin loaded
    BY <1>1 DEF InMemory
  <1>6. \/ registry[config] \in loaded /\ e = registry[config]
        \/ IF registry[Whisper] \in loaded THEN e = registry[Whisper]
           ELSE IF registered = {} THEN e = None
           ELSE \E first \in registered : e = IF first \in loaded THEN first ELSE None
    BY DEF Sees, Ready
  <1> HIDE DEF registered
  <1> QED
    BY <1>2, <1>3, <1>4, <1>5, <1>6

(* An engine that is unloaded is another one than that of another backend.   *)
LEMMA UnloadKeepsOthers ==
  ASSUME RegistryType, RegistryKeyed, NEW b \in Backend, NEW c \in Backend, b # c,
         registry[b] # None
  PROVE  registry[b] # registry[c]
  BY DEF RegistryKeyed

(* The oldest of several touched backends is not the one touched last.       *)
LEMMA OldestIsAnother ==
  ASSUME RecencyType, TouchedOnce, NEW b \in Backend, Len(Touched(b)) > 1
  PROVE  Head(Touched(b)) # b /\ Head(Touched(b)) \in Backend
  <1> DEFINE w == Without(recency, b)
  <1>1. w \in Seq(Backend) /\ \A i \in 1..Len(w) : w[i] # b
    BY WithoutType DEF RecencyType, TouchedOnce
  <1>2. Touched(b) = Append(w, b)
    BY DEF Touched
  <1> HIDE DEF w
  <1>3. /\ Append(w, b) \in Seq(Backend) /\ Len(Append(w, b)) = Len(w) + 1 /\ Len(w) \in Nat
        /\ \A i \in 1..(Len(w) + 1) : Append(w, b)[i] = IF i = Len(w) + 1 THEN b ELSE w[i]
    BY <1>1, AppendType
  <1>4. Len(w) >= 1
    BY <1>2, <1>3
  <1>5. Append(w, b)[1] = w[1] /\ w[1] # b
    BY <1>1, <1>3, <1>4
  <1>6. Head(Append(w, b)) = Append(w, b)[1]
    BY <1>3
  <1> QED
    BY <1>2, <1>5, <1>6, TouchedType

-----------------------------------------------------------------------------
(* Where nothing goes wrong: a change.                                       *)

LEMMA ChangeAlone ==
  ASSUME Calm, NEW t \in Changing,
         at[t] \in ChangePlace \/ (at[t] = "enters" /\ phase = "idle")
  PROVE  /\ phase = "idle" /\ marked = {} /\ at[Loader] = "off" /\ at[Idler] = "off"
         /\ \A u \in Thread : u # t => AtRest(u)
         /\ \A u \in Starter \cup Transcriber : at[u] = "off"
         /\ t # Hotkey => at[Hotkey] = "off"
         /\ t = Hotkey => kind[t] = "model"
  <1> USE Roles DEF Calm, AtRest
  <1>1. ~AtRest(t) /\ at[t] # "off"
    BY DEF ChangePlace
  <1>2. phase = "idle"
    BY <1>1 DEF PhaseTurns, ChangeTurns
  <1>3. \A u \in Transcriber : at[u] = "off"
    BY <1>2 DEF PhaseTurns
  <1>4. marked = {}
    BY <1>3 DEF PhaseTurns
  <1>5. CASE t = Hotkey
    <2>1. /\ at[Loader] = "off" /\ (\A u \in Starter : at[u] = "off")
          /\ (\A u \in Changer : AtRest(u)) /\ kind[t] = "model"
      BY <1>1, <1>5 DEF PhaseTurns, ChangeTurns
    <2>2. at[Idler] = "off"
      BY DEF CalmPlaces
    <2> QED
      BY <1>2, <1>3, <1>4, <1>5, <2>1, <2>2
  <1>6. CASE t \in Changer
    <2>1. \A u \in Thread \ Transcriber : u # t => AtRest(u)
      BY <1>1, <1>6 DEF ChangeTurns
    <2>2. /\ at[Loader] # "spent" /\ at[Hotkey] # "spent" /\ \A u \in Starter : at[u] # "spent"
          /\ at[Idler] = "off"
      BY DEF CalmPlaces, ChangePlace, ColdPlace
    <2> QED
      BY <1>2, <1>3, <1>4, <1>6, <2>1, <2>2
  <1> QED
    BY <1>5, <1>6

ChangeLeaves == UNCHANGED <<env, armed, deferred, phase, starts, lost, kind, marked>>

LEMMA ChangeGoesOn ==
  ASSUME ThreadType, Calm, NEW t \in Changing,
         at[t] \in ChangePlace \/ (at[t] = "enters" /\ phase = "idle"),
         NEW p \in ChangePlace, at' = [at EXCEPT ![t] = p],
         ChangeLeaves, failures' = failures, ChangeKeeps(t)'
  PROVE  Calm'
  <1> USE Roles DEF Calm, ThreadType, ChangeLeaves
  <1>1. /\ phase = "idle" /\ marked = {} /\ at[Loader] = "off" /\ at[Idler] = "off"
        /\ \A u \in Thread : u # t => AtRest(u)
        /\ \A u \in Starter \cup Transcriber : at[u] = "off"
        /\ t # Hotkey => at[Hotkey] = "off"
        /\ t = Hotkey => kind[t] = "model"
    BY ChangeAlone
  <1>2. /\ at'[t] = p /\ \A u \in Thread : u # t => at'[u] = at[u]
        /\ at'[Loader] = "off" /\ at'[Idler] = "off"
        /\ \A u \in Starter \cup Transcriber : at'[u] = "off"
        /\ t # Hotkey => at'[Hotkey] = "off"
    BY <1>1
  <1>3. "off" \notin ChangePlace /\ "spent" \notin ChangePlace
    BY DEF ChangePlace
  <1>4. CalmPlaces'
    BY <1>2 DEF CalmPlaces
  <1>5. PhaseTurns'
    BY <1>1, <1>2 DEF PhaseTurns, AtRest
  <1>6. ChangeTurns'
    BY <1>1, <1>2, <1>3 DEF ChangeTurns, AtRest
  <1>7. ChangesKeep'
    BY <1>1, <1>2, <1>3 DEF ChangesKeep, AtRest
  <1>8. LoaderKeeps' /\ UsersFind'
    BY <1>2 DEF LoaderKeeps, UsersFind
  <1>9. SettledServes'
    BY <1>2 DEF SettledServes, Settled
  <1> QED
    BY <1>4, <1>5, <1>6, <1>7, <1>8, <1>9

LEMMA ChangeIsOver ==
  ASSUME ThreadType, Calm, NEW t \in Changing, at[t] \in ChangePlace,
         at' = [at EXCEPT ![t] = NextPlace(t)],
         ChangeLeaves, failures' = failures, config' \in Backend,
         registry'[config'] # None, \A b \in Backend : registry'[b] # None => InMemory(b)'
  PROVE  Calm'
  <1> USE Roles DEF Calm, ThreadType, ChangeLeaves
  <1>1. /\ phase = "idle" /\ marked = {} /\ at[Loader] = "off" /\ at[Idler] = "off"
        /\ \A u \in Thread : u # t => AtRest(u)
        /\ \A u \in Starter \cup Transcriber : at[u] = "off"
        /\ t # Hotkey => at[Hotkey] = "off"
    BY ChangeAlone
  <1>2. NextPlace(t) = IF t = Hotkey THEN "applies" ELSE "spent"
    BY DEF NextPlace
  <1>3. /\ at'[t] = IF t = Hotkey THEN "applies" ELSE "spent"
        /\ \A u \in Thread : u # t => at'[u] = at[u]
        /\ at'[Loader] = "off" /\ at'[Idler] = "off"
        /\ \A u \in Starter \cup Transcriber : at'[u] = "off"
        /\ t # Hotkey => at'[Hotkey] = "off"
    BY <1>1, <1>2
  <1>4. {"off", "spent", "applies"} \cap ChangePlace = {}
    BY DEF ChangePlace
  <1>5. CalmPlaces'
    BY <1>3 DEF CalmPlaces
  <1>6. PhaseTurns'
    BY <1>1, <1>3 DEF PhaseTurns, AtRest
  <1>7. ChangeTurns'
    BY <1>1, <1>3, <1>4 DEF ChangeTurns, AtRest
  <1>8. ChangesKeep'
    BY <1>1, <1>3, <1>4 DEF ChangesKeep, AtRest
  <1>9. LoaderKeeps' /\ UsersFind'
    BY <1>3 DEF LoaderKeeps, UsersFind
  <1>10. SettledServes'
    BY DEF SettledServes, Serving, Cold
  <1> QED
    BY <1>5, <1>6, <1>7, <1>8, <1>9, <1>10

LEMMA ChangeUnloads ==
  ASSUME RegistryType, ThreadType, EngineType, RegistryKeyed, Calm, NEW t \in Changing,
         at[t] \in ChangePlace, UnloadsOld(t) \/ (t \in Thread /\ Ejects(t))
  PROVE  Calm'
  <1> USE Roles DEF RegistryType, ThreadType
  <1>1. ChangeKeeps(t)
    BY DEF Calm, ChangesKeep
  <1>2. /\ at[t] \in {"unloads", "ejects"} /\ loaded' = loaded \ {held[t]}
        /\ \E p \in {"unregisters", "forgets"} : /\ at' = [at EXCEPT ![t] = p]
                                                  /\ p = IF at[t] = "unloads" THEN "unregisters" ELSE "forgets"
        /\ UNCHANGED <<config, registry, held, name, leaving, kind, failures>> /\ ChangeLeaves
    BY DEF UnloadsOld, Ejects, Unloads, Goes, registryVars, managerVars, dictationVars, ChangeLeaves
  <1>3. PICK p \in {"unregisters", "forgets"} :
            at' = [at EXCEPT ![t] = p] /\ p = IF at[t] = "unloads" THEN "unregisters" ELSE "forgets"
    BY <1>2
  <1>4. at'[t] = p /\ t \in Thread
    BY <1>3
  <1>5. leaving[t] \in Backend /\ held[t] = registry[leaving[t]] /\ held[t] # None
    BY <1>1, <1>2 DEF ChangeKeeps
  <1>6. \A b \in Backend : registry[b] # None /\ b # leaving[t] => registry[b] # held[t]
    BY <1>5, UnloadKeepsOthers
  <1>7. \A b \in Backend : registry[b] # None /\ ~InMemory(b)' => b = leaving[t]
    BY <1>1, <1>2, <1>6 DEF ChangeKeeps, InMemory
  <1>8. p = "forgets" => InMemory(config)' /\ leaving[t] # config
    <2>1. SUFFICES ASSUME p = "forgets" PROVE InMemory(config)' /\ leaving[t] # config
      OBVIOUS
    <2>2. at[t] = "ejects" /\ InMemory(config) /\ leaving[t] # config /\ config \in Backend
      BY <1>1, <1>2, <1>3, <2>1 DEF ChangeKeeps
    <2>3. registry[config] # None
      BY <2>2, Threads DEF InMemory, EngineType
    <2> QED
      BY <1>2, <1>6, <2>2, <2>3 DEF InMemory
  <1>9. ChangeKeeps(t)'
    BY <1>1, <1>2, <1>3, <1>4, <1>5, <1>7, <1>8 DEF ChangeKeeps
  <1>10. p \in ChangePlace
    BY DEF ChangePlace
  <1> QED
    BY <1>2, <1>3, <1>9, <1>10, ChangeGoesOn

LEMMA ChangeUnregisters ==
  ASSUME RegistryType, ThreadType, EngineType, NameKnown, Calm, NEW t \in Changing,
         at[t] \in ChangePlace, UnregistersOld(t)
  PROVE  Calm'
  <1> USE Roles DEF RegistryType, ThreadType
  <1>1. ChangeKeeps(t)
    BY DEF Calm, ChangesKeep
  <1>2. /\ at[t] = "unregisters" /\ at' = [at EXCEPT ![t] = "ensures"]
        /\ registry' = [registry EXCEPT ![leaving[t]] = None]
        /\ config' = IF kind[t] = "backend" THEN name[t] ELSE config
        /\ UNCHANGED <<loaded, name, kind, failures>> /\ ChangeLeaves
    BY DEF UnregistersOld, GoesWith, Goes, engineVars, managerVars, dictationVars, ChangeLeaves
  <1>3. at'[t] = "ensures" /\ leaving[t] \in Backend
    BY <1>1, <1>2 DEF ChangeKeeps
  <1>4. name[t] = config'
    BY <1>1, <1>2 DEF ChangeKeeps
  <1>5. \A b \in Backend : registry'[b] # None => InMemory(b)'
    BY <1>1, <1>2, <1>3 DEF ChangeKeeps, InMemory
  <1>6. ChangeKeeps(t)'
    BY <1>2, <1>3, <1>4, <1>5 DEF ChangeKeeps
  <1> QED
    BY <1>2, <1>6, ChangeGoesOn DEF ChangePlace

LEMMA ChangeFinds ==
  ASSUME RegistryType, ThreadType, EngineType, NameKnown, Calm, NEW t \in Changing,
         at[t] \in ChangePlace, Ensures(t) \/ Creates(t) \/ Resolves(t)
  PROVE  Calm'
  <1> USE Roles DEF RegistryType, ThreadType
  <1>1. ChangeKeeps(t) /\ t \in Thread
    BY DEF Calm, ChangesKeep
  <1>2. AfterEnsure(t) = "resolves"
    BY DEF AfterEnsure, FallsBack
  <1>3. CASE Ensures(t)
    <2>1. /\ at[t] = "ensures" /\ name[t] = config
          /\ UNCHANGED <<config, registry, loaded, held, name, leaving, kind, failures>> /\ ChangeLeaves
      BY <1>1, <1>3 DEF Ensures, registryVars, engineVars, managerVars, dictationVars, ChangeLeaves,
                        ChangeKeeps
    <2>2. \/ registry[config] # None /\ at' = [at EXCEPT ![t] = "resolves"]
          \/ registry[config] = None /\ at' = [at EXCEPT ![t] = "creates"]
      BY <1>2, <1>3, <2>1 DEF Ensures, Goes
    <2>3. at'[t] \in {"resolves", "creates"} /\ (at'[t] = "resolves" => registry[config] # None)
      BY <1>1, <2>2
    <2>4. ChangeKeeps(t)'
      BY <1>1, <2>1, <2>3 DEF ChangeKeeps, InMemory
    <2> QED
      BY <2>1, <2>2, <2>4, ChangeGoesOn DEF ChangePlace
  <1>4. CASE Creates(t)
    <2>1. /\ at[t] = "creates" /\ name[t] = config /\ at' = [at EXCEPT ![t] = "resolves"]
          /\ CanCreate(name[t]) /\ registry' = [registry EXCEPT ![name[t]] = Fresh(name[t])]
          /\ loaded' = loaded \ {Fresh(name[t])}
          /\ UNCHANGED <<config, held, name, leaving, kind, failures>> /\ ChangeLeaves
      BY <1>1, <1>2, <1>4 DEF Creates, Goes, managerVars, dictationVars, ChangeLeaves, ChangeKeeps
    <2>2. /\ Fresh(config) \in Engine /\ \A b \in Backend : registry[b] # Fresh(config)
      <3>1. Fresh(config) \in {config} \X Serials /\ Unreferred(Fresh(config))
        BY <2>1 DEF CanCreate, Fresh
      <3> QED
        BY <3>1 DEF Unreferred, Engine
    <2>3. at'[t] = "resolves" /\ Fresh(config) # None
      BY <1>1, <2>1, <2>2, Threads
    <2>4. registry'[config'] # None /\ \A b \in Backend : b # config => registry'[b] = registry[b]
      BY <2>1, <2>2, <2>3
    <2>5. \A b \in Backend : registry'[b] # None /\ ~InMemory(b)' => b = config
      BY <1>1, <2>1, <2>2, <2>4 DEF ChangeKeeps, InMemory
    <2>6. ChangeKeeps(t)'
      BY <2>1, <2>3, <2>4, <2>5 DEF ChangeKeeps
    <2> QED
      BY <2>1, <2>6, ChangeGoesOn DEF ChangePlace
  <1>5. CASE Resolves(t)
    <2>1. at[t] = "resolves" /\ registry[config] # None
      BY <1>1, <1>5 DEF Resolves, ChangeKeeps
    <2>2. ~Disabled(config)
      BY NoneDisabled DEF Calm
    <2>3. /\ at' = [at EXCEPT ![t] = "locks"] /\ held' = [held EXCEPT ![t] = registry[config]]
          /\ UNCHANGED <<config, registry, loaded, name, leaving, kind, failures>> /\ ChangeLeaves
      BY <1>5, <2>1, <2>2 DEF Resolves, GoesWith, Goes, registryVars, engineVars, managerVars,
                              dictationVars, ChangeLeaves
    <2>4. at'[t] = "locks" /\ held'[t] = registry[config]
      BY <1>1, <2>3
    <2>5. ChangeKeeps(t)'
      BY <1>1, <2>1, <2>3, <2>4 DEF ChangeKeeps, InMemory
    <2> QED
      BY <2>3, <2>5, ChangeGoesOn DEF ChangePlace
  <1> QED
    BY <1>3, <1>4, <1>5

LEMMA ChangeLoads ==
  ASSUME RegistryType, ThreadType, EngineType, NameKnown, Untroubled, Calm, NEW t \in Changing,
         at[t] \in ChangePlace, Locks(t) \/ LoadReturns(t) \/ Counts(t)
  PROVE  Calm'
  <1> USE Roles DEF RegistryType, ThreadType
  <1>1. ChangeKeeps(t) /\ t \in Thread
    BY DEF Calm, ChangesKeep
  <1>2. CASE Locks(t)
    <2>1. /\ at[t] = "locks" /\ name[t] = config /\ held[t] = registry[config]
          /\ UNCHANGED <<config, registry, loaded, held, name, leaving, kind, failures>> /\ ChangeLeaves
      BY <1>1, <1>2 DEF Locks, registryVars, managerVars, dictationVars, ChangeLeaves, ChangeKeeps
    <2>2. \/ InMemory(config) /\ at' = [at EXCEPT ![t] = "counts"]
          \/ at' = [at EXCEPT ![t] = "loads"]
      BY <1>2, <2>1 DEF Locks, Goes, Ready, InMemory
    <2>3. at'[t] \in {"counts", "loads"} /\ (at'[t] = "counts" => InMemory(config))
      BY <1>1, <2>2
    <2>4. ChangeKeeps(t)'
      BY <1>1, <2>1, <2>3 DEF ChangeKeeps, InMemory
    <2> QED
      BY <2>1, <2>2, <2>4, ChangeGoesOn DEF ChangePlace
  <1>3. CASE LoadReturns(t)
    <2>1. /\ at[t] = "loads" /\ name[t] = config /\ held[t] = registry[config]
          /\ at' = [at EXCEPT ![t] = "counts"] /\ loaded' = loaded \cup {held[t]}
          /\ UNCHANGED <<config, registry, held, name, leaving, kind, failures>> /\ ChangeLeaves
      BY <1>1, <1>3 DEF LoadReturns, EndsLoad, Goes, registryVars, managerVars, dictationVars,
                        ChangeLeaves, ChangeKeeps, Untroubled
    <2>2. at'[t] = "counts" /\ InMemory(config)'
      BY <1>1, <2>1 DEF InMemory
    <2>3. ChangeKeeps(t)'
      BY <1>1, <2>1, <2>2 DEF ChangeKeeps, InMemory
    <2> QED
      BY <2>1, <2>3, ChangeGoesOn DEF ChangePlace
  <1>4. CASE Counts(t)
    <2>1. at[t] = "counts"
      BY <1>4 DEF Counts, ChangePlace
    <2>2. Counted(t) = config
      BY DEF Counted, FallsBack
    <2>3. /\ name[t] = config /\ at' = [at EXCEPT ![t] = "succeeded"]
          /\ failures' = [failures EXCEPT ![config] = 0]
          /\ UNCHANGED <<config, registry, loaded, held, name, leaving, kind>> /\ ChangeLeaves
      BY <1>1, <1>4, <2>1, <2>2 DEF Counts, Goes, engineVars, managerVars, dictationVars,
                                    ChangeLeaves, ChangeKeeps
    <2>4. failures' = failures
      BY <2>3 DEF Calm, CalmPlaces
    <2>5. at'[t] = "succeeded"
      BY <1>1, <2>3
    <2>6. ChangeKeeps(t)'
      BY <1>1, <2>1, <2>3, <2>5 DEF ChangeKeeps, InMemory
    <2> QED
      BY <2>3, <2>4, <2>6, ChangeGoesOn DEF ChangePlace
  <1> QED
    BY <1>2, <1>3, <1>4

(* The idle-unload deadline is set where the idle time may run out only.     *)
LEMMA NeverArmed ==
  ASSUME Untroubled, CalmPlaces, NEW b
  PROVE  ArmedBy(b) = FALSE
  BY DEF ArmedBy, Untroubled, CalmPlaces

LEMMA ChangeSucceeds ==
  ASSUME RegistryType, ThreadType, RecencyType, EngineType, TouchedOnce, NameKnown, Untroubled, Calm,
         NEW t \in Changing, at[t] \in ChangePlace, Succeeds(t)
  PROVE  Calm'
  <1> USE Roles DEF RegistryType, ThreadType
  <1>1. ChangeKeeps(t) /\ t \in Thread
    BY DEF Calm, ChangesKeep
  <1>2. at[t] = "succeeded" /\ name[t] = config /\ InMemory(config)
    BY <1>1 DEF Succeeds, ChangeKeeps
  <1>3. Served(t) = config
    BY <1>2 DEF Served
  <1>4. recency' = Touched(config) /\ armed' = FALSE
    BY <1>3, NeverArmed DEF Succeeds, Calm
  <1>5. /\ UNCHANGED <<config, registry, loaded, name, kind, failures>> /\ ChangeLeaves
    BY <1>4 DEF Succeeds, engineVars, dictationVars, ChangeLeaves, Calm, CalmPlaces
  <1> DEFINE oldest == Head(recency')
  <1>6. CASE Len(recency') > env.models /\ oldest \notin marked
    <2>1. /\ GoesWith(t, IF registry[oldest] = None THEN "forgets" ELSE "ejects", registry[oldest])
          /\ leaving' = [leaving EXCEPT ![t] = oldest]
      BY <1>6 DEF Succeeds
    <2>2. Len(Touched(config)) \in Nat
      BY TouchedType
    <2>3. oldest # config /\ oldest \in Backend
      BY <1>4, <1>6, <2>2, EnvironmentFacts, OldestIsAnother
    <2> HIDE DEF oldest
    <2>4. PICK p \in {"forgets", "ejects"} :
              /\ (p = "ejects" => registry[oldest] # None)
              /\ at' = [at EXCEPT ![t] = p] /\ held' = [held EXCEPT ![t] = registry[oldest]]
      BY <2>1 DEF GoesWith, Goes
    <2>5. at'[t] = p /\ held'[t] = registry[oldest] /\ leaving'[t] = oldest
      BY <1>1, <2>1, <2>4
    <2>6. ChangeKeeps(t)'
      BY <1>1, <1>2, <1>5, <2>3, <2>4, <2>5 DEF ChangeKeeps, InMemory
    <2>7. p \in ChangePlace
      BY DEF ChangePlace
    <2> QED
      BY <1>5, <2>4, <2>6, <2>7, ChangeGoesOn
  <1>7. CASE ~(Len(recency') > env.models /\ oldest \notin marked)
    <2>1. at' = [at EXCEPT ![t] = NextPlace(t)]
      BY <1>7 DEF Succeeds, Concludes, Goes
    <2>2. registry'[config'] # None /\ config' \in Backend
      BY <1>2, <1>5, Threads DEF InMemory, EngineType
    <2>3. \A b \in Backend : registry'[b] # None => InMemory(b)'
      BY <1>1, <1>2, <1>5 DEF ChangeKeeps, InMemory
    <2> QED
      BY <1>5, <2>1, <2>2, <2>3, ChangeIsOver
  <1> QED
    BY <1>6, <1>7

LEMMA ChangeForgets ==
  ASSUME RegistryType, ThreadType, EngineType, NameKnown, Calm, NEW t \in Changing,
         at[t] \in ChangePlace, Forgets(t)
  PROVE  Calm'
  <1> USE Roles DEF RegistryType, ThreadType
  <1>1. ChangeKeeps(t) /\ t \in Thread
    BY DEF Calm, ChangesKeep
  <1>2. /\ at[t] = "forgets" /\ at' = [at EXCEPT ![t] = NextPlace(t)]
        /\ registry' = [registry EXCEPT ![leaving[t]] = None]
        /\ UNCHANGED <<config, loaded, name, kind, failures>> /\ ChangeLeaves
    BY DEF Forgets, Concludes, Goes, engineVars, dictationVars, ChangeLeaves
  <1>3. InMemory(config) /\ leaving[t] \in Backend /\ leaving[t] # config
    BY <1>1, <1>2 DEF ChangeKeeps
  <1>4. registry'[config'] # None /\ config' \in Backend
    BY <1>2, <1>3, Threads DEF InMemory, EngineType
  <1>5. \A b \in Backend : registry'[b] # None => InMemory(b)'
    BY <1>1, <1>2, <1>3 DEF ChangeKeeps, InMemory
  <1> QED
    BY <1>2, <1>4, <1>5, ChangeIsOver

(* A change takes its first look: it has nothing to do, puts itself off, or  *)
(* begins.                                                                   *)
LEMMA ChangeEnters ==
  ASSUME RegistryType, ThreadType, EngineType, ManagerType, NameKnown, Calm,
         NEW t \in Changing, Enters(t)
  PROVE  Calm'
  <1> USE Roles DEF RegistryType, ThreadType
  <1>1. at[t] = "enters" /\ t \in Thread /\ ~AtRest(t)
    BY DEF Enters, AtRest
  <1>2. name[t] \in Backend /\ name[t] # Nothing
    BY <1>1, Constants DEF NameKnown, MayLoad
  <1>3. UNCHANGED <<env, registry, loaded, failures, marked, phase, starts, lost, name, kind>> /\ armed' = armed
    BY DEF Enters, engineVars, dictationVars, Calm, CalmPlaces
  <1>4. /\ at[Loader] = "off" /\ \A u \in Starter : at[u] = "off"
        /\ \A u \in Changing : u # t => AtRest(u) /\ at[u] \notin ChangePlace
    <2>1. CASE t = Hotkey
      BY <1>1, <2>1 DEF Calm, PhaseTurns, ChangeTurns, AtRest, ChangePlace
    <2>2. CASE t \in Changer
      <3>1. \A u \in Thread \ Transcriber : u # t => AtRest(u)
        BY <1>1, <2>2 DEF Calm, ChangeTurns
      <3> QED
        BY <2>2, <3>1 DEF Calm, CalmPlaces, ChangePlace, ColdPlace, AtRest
    <2> QED
      BY <2>1, <2>2
  <1>5. Settled
    BY <1>1, <1>4 DEF Settled, ChangePlace
  <1>6. Serving \/ NothingYet
    BY <1>5 DEF Calm, SettledServes
  <1>7. phase = "idle" => marked = {}
    BY DEF Calm, PhaseTurns
  <1>8. t = Hotkey => phase = "idle" /\ kind[t] = "model"
    BY <1>1 DEF Calm, PhaseTurns, ChangeTurns
  <1>9. CASE ~ActiveWork /\ config \notin marked /\ (kind[t] = "model" \/ name[t] # config)
    <2>1. phase = "idle"
      BY <1>9 DEF ActiveWork
    <2>2. /\ config' = IF kind[t] = "model" THEN name[t] ELSE config
          /\ leaving' = [leaving EXCEPT ![t] = config]
          /\ GoesWith(t, IF registry[config] = None THEN "unregisters" ELSE "unloads", registry[config])
          /\ UNCHANGED deferred
      BY <1>9 DEF Enters
    <2>3. PICK p \in {"unregisters", "unloads"} :
              /\ (p = "unloads" => registry[config] # None)
              /\ at' = [at EXCEPT ![t] = p] /\ held' = [held EXCEPT ![t] = registry[config]]
      BY <2>2 DEF GoesWith, Goes
    <2>4. at'[t] = p /\ held'[t] = registry[config] /\ leaving'[t] = config
      BY <1>1, <2>2, <2>3
    <2>5. \A b \in Backend : registry[b] # None => InMemory(b)
      BY <1>6 DEF Serving, NothingYet, Cold
    <2>6. ChangeKeeps(t)'
      BY <1>3, <2>2, <2>3, <2>4, <2>5 DEF ChangeKeeps, InMemory
    <2>7. ChangeLeaves /\ failures' = failures
      BY <1>3, <2>2 DEF ChangeLeaves
    <2>8. p \in ChangePlace
      BY DEF ChangePlace
    <2> QED
      BY <1>1, <2>1, <2>3, <2>6, <2>7, <2>8, ChangeGoesOn
  <1>10. CASE ~(~ActiveWork /\ config \notin marked /\ (kind[t] = "model" \/ name[t] # config))
    <2>1. /\ Concludes(t)
          /\ \/ config' = config /\ deferred' = deferred /\ kind[t] = "backend"
             \/ ActiveWork /\ config' = name[t] /\ deferred' = [deferred EXCEPT ![kind[t]] = name[t]]
      BY <1>7, <1>10 DEF Enters, ActiveWork
    <2>2. t \in Changer /\ at[Hotkey] = "off"
      <3>1. t # Hotkey
        BY <1>8, <2>1 DEF ActiveWork
      <3>2. AtRest(Hotkey)
        BY <1>4, <3>1
      <3> QED
        BY <3>1, <3>2 DEF Calm, CalmPlaces, AtRest, ChangePlace
    <2>3. at' = [at EXCEPT ![t] = "spent"]
      BY <2>1, <2>2 DEF Concludes, Goes, NextPlace
    <2>4. at'[t] = "spent" /\ \A u \in Thread : u # t => at'[u] = at[u]
      BY <1>1, <2>3
    <2>5. \/ config' = config /\ deferred' = deferred
          \/ phase # "idle" /\ config' = name[t] /\ deferred' = [deferred EXCEPT !["model"] = name[t]]
      <3>1. ActiveWork => kind[t] = "model"
        BY <1>1, <2>2 DEF Calm, ChangeTurns, ActiveWork
      <3> QED
        BY <2>1, <3>1 DEF ActiveWork
    <2>6. deferred'["backend"] = deferred["backend"] /\ deferred'["model"] \in {deferred["model"], name[t]}
      BY <2>5 DEF ManagerType
    <2>7. CalmPlaces'
      BY <1>3, <2>2, <2>4, <2>6 DEF Calm, CalmPlaces
    <2>8. PhaseTurns'
      BY <1>3, <2>2, <2>4 DEF Calm, PhaseTurns, AtRest
    <2>9. ChangeTurns'
      BY <1>3, <1>4, <2>2, <2>4, <2>6 DEF Calm, ChangeTurns, AtRest, ChangePlace
    <2>10. ChangesKeep'
      BY <1>4, <2>4 DEF ChangesKeep, ChangePlace
    <2>11. LoaderKeeps'
      BY <1>4, <2>4 DEF LoaderKeeps
    <2>12. UsersFind'
      <3>1. \A u \in Starter : at'[u] = "off"
        BY <1>4, <2>2, <2>4
      <3>2. \A u \in Transcriber : at'[u] = at[u] /\ held'[u] = held[u]
        BY <2>2, <2>4, <1>10, <2>1 DEF Enters, Concludes
      <3> QED
        BY <1>3, <1>4, <2>4, <3>1, <3>2 DEF Calm, UsersFind
    <2>13. SettledServes'
      <3>1. (Serving \/ NothingYet)'
        <4>1. CASE Serving
          BY <1>3, <4>1 DEF Serving, Cold, InMemory
        <4>2. CASE NothingYet
          BY <1>3, <1>4, <2>2, <2>4, <2>5, <4>2 DEF NothingYet, Cold
        <4> QED
          BY <1>6, <4>1, <4>2
      <3>2. deferred'["model"] = Nothing /\ ~Cold' => registry'[config'] # None
        <4>1. CASE config' = config /\ deferred' = deferred
          BY <1>3, <1>5, <2>2, <4>1 DEF Calm, SettledServes, Cold
        <4>2. CASE phase # "idle" /\ config' = name[t] /\ deferred' = [deferred EXCEPT !["model"] = name[t]]
          BY <1>2, <4>2 DEF ManagerType
        <4> QED
          BY <2>5, <4>1, <4>2
      <3> QED
        BY <3>1, <3>2 DEF SettledServes
    <2> QED
      BY <2>7, <2>8, <2>9, <2>10, <2>11, <2>12, <2>13 DEF Calm
  <1> QED
    BY <1>9, <1>10

(* A request finds nobody at work but a transcription, and no backend is put *)
(* off.                                                                      *)
LEMMA ChangeRequested ==
  ASSUME RegistryType, ThreadType, EngineType, ManagerType, Untroubled, Calm,
         NEW c \in Changer, NEW b \in Backend, RequestsModel(c, b) \/ RequestsBackend(c, b)
  PROVE  Calm'
  <1> USE Roles DEF RegistryType, ThreadType
  <1>1. /\ at[c] = "off" /\ \A u \in Thread \ Transcriber : AtRest(u)
        /\ UNCHANGED <<env, registry, loaded, failures, marked, phase, starts, lost, held, lazyLock>>
        /\ armed' = armed
    BY DEF RequestsModel, RequestsBackend, Requests, Resting, AtRest, Untroubled, engineVars,
           dictationVars, Calm, CalmPlaces
  <1>2. /\ at' = [at EXCEPT ![c] = "enters"] /\ UNCHANGED <<config, deferred>>
        /\ \E k \in {"model", "backend"} : /\ kind' = [kind EXCEPT ![c] = k]
                                           /\ k = "backend" => phase = "idle"
        /\ name' = [name EXCEPT ![c] = b]
    BY DEF RequestsModel, RequestsBackend, Requests, Goes, ActiveWork, Untroubled
  <1>3. /\ at'[c] = "enters" /\ \A u \in Thread : u # c => at'[u] = at[u]
        /\ kind'[c] = "backend" => phase = "idle"
        /\ \A u \in Transcriber \cup Starter \cup {Loader} : name'[u] = name[u]
    BY <1>2
  <1>4. /\ at[Loader] = "off" /\ at[Hotkey] = "off" /\ \A u \in Starter : at[u] = "off"
        /\ \A u \in Changing : AtRest(u) /\ at[u] \notin ChangePlace
    BY <1>1 DEF Calm, CalmPlaces, ChangePlace, ColdPlace, AtRest
  <1>5. CalmPlaces'
    BY <1>1, <1>2, <1>3 DEF Calm, CalmPlaces
  <1>6. PhaseTurns'
    BY <1>1, <1>3, <1>4 DEF Calm, PhaseTurns
  <1>7. ChangeTurns'
    BY <1>1, <1>2, <1>3, <1>4 DEF Calm, ChangeTurns, AtRest, ChangePlace
  <1>8. ChangesKeep' /\ LoaderKeeps'
    BY <1>3, <1>4 DEF ChangesKeep, LoaderKeeps, ChangePlace
  <1>9. UsersFind'
    BY <1>1, <1>3, <1>4 DEF Calm, UsersFind
  <1>10. SettledServes'
    <2>1. Settled
      BY <1>4 DEF Settled
    <2> QED
      BY <1>1, <1>2, <1>3, <1>4, <2>1
      DEF Calm, SettledServes, Serving, NothingYet, Cold, InMemory
  <1> QED
    BY <1>5, <1>6, <1>7, <1>8, <1>9, <1>10 DEF Calm

-----------------------------------------------------------------------------
(* Where nothing goes wrong: the loader.                                     *)

LEMMA LoaderAlone ==
  ASSUME Calm, at[Loader] # "off"
  PROVE  /\ \A c \in Changer : AtRest(c)
         /\ \A t \in Changing : at[t] \notin ChangePlace /\ at[t] # "enters"
         /\ deferred["model"] = Nothing
  <1> USE Roles DEF Calm
  <1>1. ~AtRest(Loader)
    BY DEF AtRest, CalmPlaces, ColdPlace
  <1>2. \A c \in Changer : AtRest(c)
    BY <1>1 DEF ChangeTurns
  <1>3. at[Hotkey] \notin ChangePlace \cup {"enters"} /\ deferred["model"] = Nothing
    BY DEF ChangeTurns
  <1> QED
    BY <1>2, <1>3 DEF AtRest, ChangePlace

LEMMA LoaderGoesOn ==
  ASSUME ThreadType, Calm, at[Loader] # "off",
         NEW p \in {"counts", "succeeded", "forgets", "finishes"} \cup ColdPlace,
         at' = [at EXCEPT ![Loader] = p], at[Loader] \notin ColdPlace => p \notin ColdPlace,
         ChangeLeaves, config' = config, failures' = failures,
         lazyLock # Loader => lazyLock' = lazyLock,
         \A t \in Thread : t # Loader => held'[t] = held[t] /\ name'[t] = name[t],
         \A t \in Thread : held[t] \in loaded => held[t] \in loaded',
         LoaderKeeps'
  PROVE  Calm'
  <1> USE Roles DEF ThreadType, ChangeLeaves
  <1>1. /\ at'[Loader] = p /\ \A t \in Thread : t # Loader => at'[t] = at[t]
    OBVIOUS
  <1>2. /\ \A c \in Changer : AtRest(c)
        /\ \A t \in Changing : at[t] \notin ChangePlace /\ at[t] # "enters"
        /\ deferred["model"] = Nothing
    BY LoaderAlone
  <1>3. p # "off" /\ p # "spent"
    BY DEF ColdPlace
  <1>4. CalmPlaces'
    BY <1>1 DEF Calm, CalmPlaces
  <1>5. PhaseTurns'
    BY <1>1 DEF Calm, PhaseTurns, AtRest
  <1>6. ChangeTurns'
    BY <1>1, <1>2 DEF ChangeTurns, AtRest
  <1>7. ChangesKeep' /\ SettledServes'
    BY <1>1, <1>2, <1>3 DEF ChangesKeep, SettledServes, Settled
  <1>8. UsersFind'
    BY <1>1 DEF Calm, UsersFind
  <1> QED
    BY <1>4, <1>5, <1>6, <1>7, <1>8 DEF Calm

LEMMA LoaderFinds ==
  ASSUME RegistryType, ThreadType, EngineType, Calm, at[Loader] # "off",
         Ensures(Loader) \/ Creates(Loader) \/ Tries(Loader)
  PROVE  Calm'
  <1> USE Roles DEF RegistryType, ThreadType
  <1>1. /\ \A b \in Backend : b # config => registry[b] = None
        /\ at[Loader] \in {"ensures", "creates"} => Cold /\ name[Loader] = config
        /\ at[Loader] \in {"tries", "locks", "loads"} => registry[config] # None /\ ~InMemory(config)
    BY DEF Calm, LoaderKeeps
  <1>2. AfterEnsure(Loader) = "tries" /\ FallsBack(Loader)
    BY DEF AfterEnsure, FallsBack
  <1>3. CASE Ensures(Loader)
    <2>1. /\ at[Loader] = "ensures" /\ registry[name[Loader]] = None
          /\ UNCHANGED <<config, registry, loaded, held, name, failures, lazyLock>> /\ ChangeLeaves
      BY <1>1, <1>3 DEF Ensures, registryVars, engineVars, managerVars, dictationVars, ChangeLeaves, Cold
    <2>2. at' = [at EXCEPT ![Loader] = "creates"]
      BY <1>3, <2>1 DEF Ensures, Goes
    <2>3. at'[Loader] = "creates"
      BY <2>2
    <2>4. LoaderKeeps'
      BY <1>1, <2>1, <2>3 DEF LoaderKeeps, Cold, ColdPlace
    <2> QED
      BY <2>1, <2>2, <2>4, LoaderGoesOn DEF ColdPlace
  <1>4. CASE Creates(Loader)
    <2>1. /\ at[Loader] = "creates" /\ name[Loader] = config /\ Cold
          /\ at' = [at EXCEPT ![Loader] = "tries"] /\ CanCreate(name[Loader])
          /\ registry' = [registry EXCEPT ![name[Loader]] = Fresh(name[Loader])]
          /\ loaded' = loaded \ {Fresh(name[Loader])}
          /\ UNCHANGED <<config, held, name, failures, lazyLock>> /\ ChangeLeaves
      BY <1>1, <1>2, <1>4 DEF Creates, Goes, managerVars, dictationVars, ChangeLeaves
    <2>2. Fresh(config) \in Engine /\ \A t \in Thread : held[t] # Fresh(config)
      BY <2>1, FreshIsUnheld
    <2>3. at'[Loader] = "tries" /\ Fresh(config) # None /\ registry'[config] = Fresh(config)
      BY <2>1, <2>2, Threads
    <2>4. LoaderKeeps'
      BY <1>1, <2>1, <2>3 DEF LoaderKeeps, InMemory, ColdPlace
    <2>5. \A t \in Thread : held[t] \in loaded => held[t] \in loaded'
      BY <2>1, <2>2
    <2> QED
      BY <2>1, <2>4, <2>5, LoaderGoesOn DEF ColdPlace
  <1>5. CASE Tries(Loader)
    <2>1. at[Loader] = "tries" /\ registry[config] # None /\ ~Disabled(config)
      BY <1>1, <1>5, NoneDisabled DEF Tries, Calm
    <2>2. /\ at' = [at EXCEPT ![Loader] = "locks"] /\ held' = [held EXCEPT ![Loader] = registry[config]]
          /\ name' = [name EXCEPT ![Loader] = config]
          /\ UNCHANGED <<config, registry, loaded, failures, lazyLock>> /\ ChangeLeaves
      BY <1>5, <2>1 DEF Tries, GoesWith, Goes, registryVars, engineVars, managerVars,
                        dictationVars, ChangeLeaves
    <2>3. at'[Loader] = "locks" /\ held'[Loader] = registry[config]
      BY <2>2
    <2>4. LoaderKeeps'
      BY <1>1, <2>1, <2>2, <2>3 DEF LoaderKeeps, InMemory, ColdPlace
    <2> QED
      BY <2>2, <2>1, <2>4, LoaderGoesOn DEF ColdPlace
  <1> QED
    BY <1>3, <1>4, <1>5

LEMMA LoaderLoads ==
  ASSUME RegistryType, ThreadType, EngineType, Untroubled, Calm, at[Loader] # "off",
         Locks(Loader) \/ LoadReturns(Loader) \/ Counts(Loader)
  PROVE  Calm'
  <1> USE Roles DEF RegistryType, ThreadType
  <1>1. /\ \A b \in Backend : b # config => registry[b] = None
        /\ at[Loader] \in {"tries", "locks", "loads"} => registry[config] # None /\ ~InMemory(config)
        /\ at[Loader] \in {"locks", "loads"} => held[Loader] = registry[config]
        /\ at[Loader] \notin ColdPlace => InMemory(config)
    BY DEF Calm, LoaderKeeps
  <1>2. CASE Locks(Loader)
    <2>1. /\ at[Loader] = "locks" /\ at' = [at EXCEPT ![Loader] = "loads"]
          /\ UNCHANGED <<config, registry, loaded, held, name, failures, lazyLock>> /\ ChangeLeaves
      BY <1>1, <1>2 DEF Locks, Ready, InMemory, Goes, registryVars, managerVars, dictationVars,
                        ChangeLeaves
    <2>2. at'[Loader] = "loads"
      BY <2>1
    <2>3. LoaderKeeps'
      BY <1>1, <2>1, <2>2 DEF LoaderKeeps, InMemory, ColdPlace
    <2> QED
      BY <2>1, <2>3, LoaderGoesOn DEF ColdPlace
  <1>3. CASE LoadReturns(Loader)
    <2>1. /\ at[Loader] = "loads" /\ at' = [at EXCEPT ![Loader] = "counts"]
          /\ loaded' = loaded \cup {held[Loader]} /\ held[Loader] = registry[config]
          /\ UNCHANGED <<config, registry, held, name, failures, lazyLock>> /\ ChangeLeaves
      BY <1>1, <1>3 DEF LoadReturns, EndsLoad, Goes, registryVars, managerVars, dictationVars,
                        ChangeLeaves, Untroubled
    <2>2. at'[Loader] = "counts"
      BY <2>1
    <2>3. LoaderKeeps'
      BY <1>1, <2>1, <2>2 DEF LoaderKeeps, InMemory, ColdPlace
    <2> QED
      BY <2>1, <2>3, LoaderGoesOn DEF ColdPlace
  <1>4. CASE Counts(Loader)
    <2>1. at[Loader] = "counts"
      BY <1>4 DEF Counts, Calm, CalmPlaces, ColdPlace
    <2>2. /\ at' = [at EXCEPT ![Loader] = "succeeded"]
          /\ failures' = [failures EXCEPT ![Counted(Loader)] = 0]
          /\ UNCHANGED <<config, registry, loaded, held, name, lazyLock>> /\ ChangeLeaves
      BY <1>4, <2>1 DEF Counts, Goes, engineVars, managerVars, dictationVars, ChangeLeaves
    <2>3. failures' = failures
      BY <2>2 DEF Calm, CalmPlaces
    <2>4. at'[Loader] = "succeeded"
      BY <2>2
    <2>5. LoaderKeeps'
      BY <1>1, <2>1, <2>2, <2>4 DEF LoaderKeeps, InMemory, ColdPlace
    <2> QED
      BY <2>1, <2>2, <2>3, <2>5, LoaderGoesOn DEF ColdPlace
  <1> QED
    BY <1>2, <1>3, <1>4

LEMMA LoaderSucceeds ==
  ASSUME RegistryType, ThreadType, RecencyType, ManagerType, EngineType, TouchedOnce, Untroubled, Calm,
         at[Loader] # "off", Succeeds(Loader) \/ Forgets(Loader)
  PROVE  Calm'
  <1> USE Roles DEF RegistryType, ThreadType
  <1>1. at[Loader] \in {"succeeded", "forgets"}
    BY DEF Succeeds, Forgets
  <1>2. /\ \A b \in Backend : b # config => registry[b] = None
        /\ InMemory(config) /\ (at[Loader] = "forgets" => leaving[Loader] # config)
    BY <1>1 DEF Calm, LoaderKeeps, ColdPlace
  <1>3. NextPlace(Loader) = "finishes"
    BY DEF NextPlace
  <1>4. lazyLock # Loader => lazyLock' = lazyLock
    BY DEF Succeeds, Forgets, Concludes
  <1>5. CASE Succeeds(Loader)
    <2>1. Served(Loader) = config
      BY DEF Served, FallsBack
    <2>2. recency' = Touched(config) /\ armed' = FALSE
      BY <1>5, <2>1, NeverArmed DEF Succeeds, Calm
    <2>3. UNCHANGED <<config, registry, loaded, name, failures>> /\ ChangeLeaves
      BY <1>5, <2>2 DEF Succeeds, engineVars, dictationVars, ChangeLeaves, Calm, CalmPlaces
    <2> DEFINE oldest == Head(recency')
    <2>4. CASE Len(recency') > env.models /\ oldest \notin marked
      <3>1. /\ GoesWith(Loader, IF registry[oldest] = None THEN "forgets" ELSE "ejects", registry[oldest])
            /\ leaving' = [leaving EXCEPT ![Loader] = oldest] /\ lazyLock' = lazyLock
        BY <1>5, <2>4 DEF Succeeds
      <3>2. Len(Touched(config)) \in Nat
        BY TouchedType
      <3>3. oldest # config /\ oldest \in Backend
        BY <2>2, <2>4, <3>2, EnvironmentFacts, OldestIsAnother
      <3> HIDE DEF oldest
      <3>4. at' = [at EXCEPT ![Loader] = "forgets"] /\ held' = [held EXCEPT ![Loader] = None]
        BY <1>2, <3>1, <3>3 DEF GoesWith, Goes
      <3>5. at'[Loader] = "forgets" /\ leaving'[Loader] = oldest
        BY <3>1, <3>4
      <3>6. LoaderKeeps'
        BY <1>2, <2>3, <3>3, <3>5 DEF LoaderKeeps, InMemory, ColdPlace
      <3> QED
        BY <2>3, <3>1, <3>4, <3>6, LoaderGoesOn DEF ColdPlace
    <2>5. CASE ~(Len(recency') > env.models /\ oldest \notin marked)
      <3>1. at' = [at EXCEPT ![Loader] = "finishes"] /\ UNCHANGED <<held, leaving>>
        BY <1>3, <1>5, <2>5 DEF Succeeds, Concludes, Goes
      <3>2. at'[Loader] = "finishes"
        BY <3>1
      <3>3. LoaderKeeps'
        BY <1>2, <2>3, <3>2 DEF LoaderKeeps, InMemory, ColdPlace
      <3> QED
        BY <1>4, <2>3, <3>1, <3>3, LoaderGoesOn DEF ColdPlace
    <2> QED
      BY <2>4, <2>5
  <1>6. CASE Forgets(Loader)
    <2>1. /\ at' = [at EXCEPT ![Loader] = "finishes"] /\ at[Loader] = "forgets"
          /\ registry' = [registry EXCEPT ![leaving[Loader]] = None]
          /\ UNCHANGED <<config, loaded, held, name, failures>> /\ ChangeLeaves
      BY <1>3, <1>6 DEF Forgets, Concludes, Goes, engineVars, dictationVars, ChangeLeaves
    <2>2. at'[Loader] = "finishes" /\ registry'[config] = registry[config]
      BY <1>2, <2>1
    <2>3. LoaderKeeps'
      BY <1>2, <2>1, <2>2 DEF LoaderKeeps, InMemory, ColdPlace
    <2> QED
      BY <1>4, <2>1, <2>3, LoaderGoesOn DEF ColdPlace
  <1> QED
    BY <1>5, <1>6

LEMMA LoaderLeaves ==
  ASSUME RegistryType, EngineType, Calm, at[Loader] # "off", at[Loader] \notin ColdPlace
  PROVE  Serving /\ registry[config] # None
  <1>1. InMemory(config) /\ config \in Backend /\ \A b \in Backend : b # config => registry[b] = None
    BY DEF Calm, LoaderKeeps, RegistryType
  <1>2. registry[config] # None
    BY <1>1, Threads DEF InMemory, EngineType
  <1> QED
    BY <1>1, <1>2 DEF Serving, Cold

LEMMA LoaderGoes ==
  ASSUME RegistryType, ThreadType, EngineType, Calm, LoaderEnds
  PROVE  Calm'
  <1> USE Roles DEF RegistryType, ThreadType
  <1>1. /\ at[Loader] = "finishes"
        /\ UNCHANGED <<env, config, registry, marked, failures, loaded, armed, deferred, lazyLock, phase,
                       lost, held, name, leaving, kind>>
    BY DEF LoaderEnds, registryVars, engineVars
  <1>2. /\ \A c \in Changer : AtRest(c)
        /\ \A t \in Changing : at[t] \notin ChangePlace /\ at[t] # "enters"
        /\ deferred["model"] = Nothing
    BY <1>1, LoaderAlone
  <1>3. \/ /\ at' = [at EXCEPT ![Loader] = "off"] /\ starts' = starts
        \/ /\ at' = [at EXCEPT ![Loader] = "off", ![Hotkey] = "applies"] /\ phase = "idle"
           /\ at[Hotkey] = "off"
    BY DEF LoaderEnds, Goes
  <1>4. /\ at'[Loader] = "off" /\ \A t \in Thread : t # Loader /\ t # Hotkey => at'[t] = at[t]
        /\ \/ at'[Hotkey] = at[Hotkey] /\ starts' = starts
           \/ at'[Hotkey] = "applies" /\ phase = "idle"
    BY <1>3
  <1>5. CalmPlaces'
    BY <1>1, <1>4 DEF Calm, CalmPlaces
  <1>6. PhaseTurns'
    BY <1>1, <1>2, <1>4 DEF Calm, PhaseTurns, AtRest
  <1>7. ChangeTurns'
    BY <1>1, <1>2, <1>4 DEF ChangeTurns, AtRest, ChangePlace
  <1>8. ChangesKeep' /\ LoaderKeeps'
    BY <1>2, <1>4 DEF ChangesKeep, LoaderKeeps, ChangePlace
  <1>9. SettledServes'
    <2>1. Serving /\ registry[config] # None
      BY <1>1, LoaderLeaves DEF ColdPlace
    <2> QED
      BY <1>1, <2>1 DEF SettledServes, Serving, Cold, InMemory
  <1>10. UsersFind'
    BY <1>1, <1>4 DEF Calm, UsersFind, ColdPlace
  <1> QED
    BY <1>5, <1>6, <1>7, <1>8, <1>9, <1>10 DEF Calm

-----------------------------------------------------------------------------
(* Where nothing goes wrong: the hotkey.                                     *)

LEMMA HotkeyAlone ==
  ASSUME Calm, at[Hotkey] # "off"
  PROVE  /\ phase = "idle" /\ \A c \in Changer : AtRest(c) /\ at[c] \notin ChangePlace
         /\ \A t \in Transcriber : at[t] = "off"
  BY Roles DEF Calm, PhaseTurns, AtRest, ChangePlace

LEMMA HotkeyStarts ==
  ASSUME RegistryType, ThreadType, EngineType, Untroubled, Calm, HotkeyPresses
  PROVE  Calm'
  <1> USE Roles DEF RegistryType, ThreadType
  <1>1. /\ at[Hotkey] = "off" /\ phase = "idle" /\ \A c \in Changer : AtRest(c)
        /\ at' = [at EXCEPT ![Hotkey] = "looks"]
        /\ UNCHANGED <<env, config, registry, marked, failures, loaded, armed, deferred, lazyLock, phase,
                       lost, held, name, leaving, kind>>
    BY DEF HotkeyPresses, Goes, Resting, AtRest, Untroubled, registryVars, engineVars, managerVars
  <1>2. at'[Hotkey] = "looks" /\ \A t \in Thread : t # Hotkey => at'[t] = at[t]
    BY <1>1
  <1>3. \A t \in Transcriber : at[t] = "off"
    BY <1>1 DEF Calm, PhaseTurns
  <1>4. CalmPlaces'
    BY <1>1, <1>2 DEF Calm, CalmPlaces
  <1>5. PhaseTurns'
    BY <1>1, <1>2, <1>3 DEF Calm, PhaseTurns, AtRest
  <1>6. ChangeTurns'
    BY <1>1, <1>2 DEF Calm, ChangeTurns, AtRest, ChangePlace
  <1>7. ChangesKeep' /\ LoaderKeeps'
    <2>1. \A t \in Changing : at'[t] \notin ChangePlace
      BY <1>1, <1>2 DEF AtRest, ChangePlace
    <2> QED
      BY <1>1, <1>2, <2>1 DEF Calm, ChangesKeep, LoaderKeeps, Cold, InMemory
  <1>8. SettledServes'
    <2>1. Settled' => Settled
      BY <1>1, <1>2 DEF Settled, ChangePlace
    <2> QED
      BY <1>1, <1>2, <2>1 DEF Calm, SettledServes, NothingYet, Serving, Cold, InMemory
  <1>9. UsersFind'
    BY <1>1, <1>2 DEF Calm, UsersFind
  <1> QED
    BY <1>4, <1>5, <1>6, <1>7, <1>8, <1>9 DEF Calm

LEMMA HotkeyFinds ==
  ASSUME RegistryType, ThreadType, EngineType, Calm, HotkeyLooks
  PROVE  Calm'
  <1> USE Roles DEF RegistryType, ThreadType
  <1>1. /\ at[Hotkey] = "looks"
        /\ UNCHANGED <<env, config, registry, marked, failures, loaded, armed, deferred, lazyLock, phase,
                       starts, lost, held, leaving, kind>>
    BY DEF HotkeyLooks, engineVars, managerVars, dictationVars
  <1>2. /\ phase = "idle" /\ \A c \in Changer : AtRest(c) /\ at[c] \notin ChangePlace
        /\ \A t \in Transcriber : at[t] = "off"
    BY <1>1, HotkeyAlone
  <1>3. PICK e \in Engine \cup {None} :
            /\ Sees(e)
            /\ \/ /\ e = None /\ at[Loader] = "off"
                  /\ at' = [at EXCEPT ![Hotkey] = "applies", ![Loader] = "ensures"]
                  /\ name' = [name EXCEPT ![Loader] = config]
               \/ /\ ~(e = None /\ at[Loader] = "off")
                  /\ at' = [at EXCEPT ![Hotkey] = "applies"] /\ name' = name
    BY DEF HotkeyLooks, Looks, Goes
  <1>4. at[Loader] = "off" => Settled
    BY <1>1, <1>2 DEF Settled, ChangePlace
  <1>5. CASE e = None /\ at[Loader] = "off"
    <2>1. NothingYet
      BY <1>3, <1>4, <1>5, LooksMeet DEF Calm, SettledServes
    <2>2. /\ at'[Hotkey] = "applies" /\ at'[Loader] = "ensures"
          /\ \A t \in Thread : t # Hotkey /\ t # Loader => at'[t] = at[t] /\ name'[t] = name[t]
          /\ name'[Loader] = config
      BY <1>3, <1>5
    <2>3. \A t \in Changing : at'[t] \notin ChangePlace
      BY <1>2, <2>2 DEF ChangePlace
    <2>4. CalmPlaces'
      BY <1>1, <2>2 DEF Calm, CalmPlaces, ColdPlace
    <2>5. PhaseTurns'
      BY <1>1, <1>2, <2>2 DEF Calm, PhaseTurns, AtRest
    <2>6. ChangeTurns'
      BY <1>1, <1>2, <2>1, <2>2 DEF ChangeTurns, AtRest, ChangePlace, NothingYet
    <2>7. ChangesKeep' /\ SettledServes'
      BY <2>2, <2>3 DEF ChangesKeep, SettledServes, Settled
    <2>8. LoaderKeeps'
      BY <1>1, <2>1, <2>2 DEF LoaderKeeps, NothingYet, Cold, ColdPlace
    <2>9. UsersFind'
      BY <1>2, <2>1, <2>2 DEF UsersFind, NothingYet
    <2> QED
      BY <2>4, <2>5, <2>6, <2>7, <2>8, <2>9 DEF Calm
  <1>6. CASE ~(e = None /\ at[Loader] = "off")
    <2>1. at'[Hotkey] = "applies" /\ (\A t \in Thread : t # Hotkey => at'[t] = at[t]) /\ name' = name
      BY <1>3, <1>6
    <2>2. at[Loader] = "off" => ~Cold
      <3>1. Cold => \A b \in Backend : ~InMemory(b)
        BY Threads DEF Cold, InMemory, EngineType
      <3> QED
        BY <1>3, <1>6, <3>1, LooksMeet
    <2>3. CalmPlaces'
      BY <1>1, <2>1 DEF Calm, CalmPlaces
    <2>4. PhaseTurns'
      BY <1>1, <1>2, <2>1 DEF Calm, PhaseTurns, AtRest
    <2>5. ChangeTurns'
      BY <1>1, <1>2, <2>1 DEF Calm, ChangeTurns, AtRest, ChangePlace
    <2>6. ChangesKeep' /\ LoaderKeeps'
      BY <1>1, <1>2, <2>1 DEF Calm, ChangesKeep, LoaderKeeps, Cold, InMemory, ChangePlace
    <2>7. SettledServes'
      BY <1>1, <1>4, <2>1, <2>2 DEF Calm, SettledServes, Settled, NothingYet, Serving, Cold, InMemory
    <2>8. UsersFind'
      BY <1>1, <2>1 DEF Calm, UsersFind
    <2> QED
      BY <2>3, <2>4, <2>5, <2>6, <2>7, <2>8 DEF Calm
  <1> QED
    BY <1>5, <1>6

LEMMA HotkeyGoes ==
  ASSUME RegistryType, ThreadType, ManagerType, EngineType, DictationType, Calm, HotkeyApplies
  PROVE  Calm'
  <1> USE Roles DEF RegistryType, ThreadType
  <1>1. /\ at[Hotkey] = "applies"
        /\ UNCHANGED <<env, config, registry, marked, failures, loaded, armed, lazyLock, starts, lost,
                       held, leaving>>
    BY DEF HotkeyApplies, registryVars, engineVars
  <1>2. /\ phase = "idle" /\ \A c \in Changer : AtRest(c) /\ at[c] \notin ChangePlace
        /\ \A t \in Transcriber : at[t] = "off"
    BY <1>1, HotkeyAlone
  <1>3. at[Loader] = "off" => Serving /\ (deferred["model"] = Nothing => registry[config] # None)
    <2>1. at[Loader] = "off" => Settled
      BY <1>1, <1>2 DEF Settled, ChangePlace
    <2> QED
      BY <1>1, <2>1 DEF Calm, SettledServes, NothingYet, Serving
  <1>4. CASE deferred["model"] # Nothing
    <2>1. PICK k \in {"model", "backend"} :
              /\ deferred[k] # Nothing
              /\ deferred' = [deferred EXCEPT ![k] = Nothing]
              /\ name' = [name EXCEPT ![Hotkey] = deferred[k]] /\ kind' = [kind EXCEPT ![Hotkey] = k]
              /\ at' = [at EXCEPT ![Hotkey] = "enters"] /\ phase' = phase
      BY <1>4 DEF HotkeyApplies, Goes
    <2>2. k = "model"
      BY <2>1 DEF Calm, CalmPlaces
    <2>3. at[Loader] = "off" /\ \A t \in Starter : at[t] = "off"
      BY <1>4 DEF Calm, ChangeTurns
    <2>4. /\ at'[Hotkey] = "enters" /\ kind'[Hotkey] = "model"
          /\ deferred'["model"] = Nothing /\ deferred'["backend"] = deferred["backend"]
          /\ \A t \in Thread : t # Hotkey => at'[t] = at[t] /\ name'[t] = name[t] /\ kind'[t] = kind[t]
      BY <2>1, <2>2 DEF ManagerType
    <2>5. CalmPlaces'
      BY <1>1, <2>4 DEF Calm, CalmPlaces
    <2>6. PhaseTurns'
      BY <1>1, <1>2, <2>1, <2>4 DEF Calm, PhaseTurns, AtRest
    <2>7. ChangeTurns'
      BY <1>1, <1>2, <2>1, <2>3, <2>4 DEF ChangeTurns, AtRest, ChangePlace
    <2>8. ChangesKeep' /\ LoaderKeeps'
      BY <1>2, <2>3, <2>4 DEF ChangesKeep, LoaderKeeps, ChangePlace
    <2>9. SettledServes'
      BY <1>1, <1>3, <2>3, <2>4 DEF SettledServes, Serving, Cold, InMemory
    <2>10. UsersFind'
      BY <1>1, <1>2, <2>3, <2>4 DEF UsersFind
    <2> QED
      BY <2>5, <2>6, <2>7, <2>8, <2>9, <2>10 DEF Calm
  <1>5. CASE deferred["model"] = Nothing
    <2> DEFINE s == <<"starter", starts>>
    <2>1. /\ at' = [at EXCEPT ![Hotkey] = "off", ![s] = "asks"]
          /\ phase' = "recording" /\ UNCHANGED <<deferred, name, kind>>
      <3>1. ~\E k \in {"model", "backend"} : deferred[k] # Nothing
        BY <1>5 DEF Calm, CalmPlaces
      <3> QED
        BY <3>1 DEF HotkeyApplies
    <2>2. /\ s # Hotkey /\ s # Loader /\ s # Idler /\ s \notin Transcriber /\ s \notin Changer
          /\ s \in Thread => s \in Starter
      BY DEF Hotkey, Loader, Idler, Transcriber, Changer, Thread, Starter
    <2> HIDE DEF s
    <2>3. /\ at'[Hotkey] = "off" /\ \A t \in Thread : t # Hotkey /\ t # s => at'[t] = at[t]
          /\ s \in Thread => at'[s] = "asks"
      BY <2>1, <2>2
    <2>4. \A t \in Changing : at'[t] \notin ChangePlace
      BY <1>2, <2>2, <2>3 DEF ChangePlace
    <2>5. CalmPlaces'
      BY <1>1, <2>1, <2>2, <2>3 DEF Calm, CalmPlaces
    <2>6. PhaseTurns'
      BY <1>1, <1>2, <2>1, <2>2, <2>3 DEF Calm, PhaseTurns
    <2>7. ChangeTurns'
      BY <1>2, <1>5, <2>1, <2>2, <2>3 DEF ChangeTurns, AtRest, ChangePlace
    <2>8. ChangesKeep' /\ LoaderKeeps'
      BY <1>1, <2>1, <2>2, <2>3, <2>4 DEF Calm, ChangesKeep, LoaderKeeps, Cold, InMemory
    <2>9. SettledServes'
      BY <1>1, <1>3, <1>5, <2>1, <2>2, <2>3
      DEF SettledServes, Settled, Serving, Cold, InMemory
    <2>10. UsersFind'
      BY <1>1, <1>2, <2>1, <2>2, <2>3 DEF Calm, UsersFind
    <2> QED
      BY <2>5, <2>6, <2>7, <2>8, <2>9, <2>10 DEF Calm
  <1> QED
    BY <1>4, <1>5

LEMMA HotkeyEnds ==
  ASSUME RegistryType, ThreadType, EngineType, Calm, HotkeyStops
  PROVE  Calm'
  <1> USE Roles DEF RegistryType, ThreadType
  <1> DEFINE s == <<"transcriber", starts>>
  <1>1. /\ at[Hotkey] = "off" /\ phase = "recording" /\ phase' = "busy"
        /\ at' = [at EXCEPT ![s] = "looks"]
        /\ UNCHANGED <<env, config, registry, marked, failures, loaded, armed, deferred, lazyLock, starts,
                       lost, held, name, leaving, kind>>
    BY DEF HotkeyStops, Goes, registryVars, engineVars, managerVars
  <1>2. /\ s # Hotkey /\ s # Loader /\ s # Idler /\ s \notin Starter /\ s \notin Changer
        /\ (s \in Thread => s \in Transcriber) /\ s[2] = starts
    BY DEF Hotkey, Loader, Idler, Transcriber, Changer, Thread, Starter
  <1> HIDE DEF s
  <1>3. \A t \in Thread : at'[t] = IF t = s THEN "looks" ELSE at[t]
    BY <1>1
  <1>4. \A t \in Transcriber : at[t] = "off"
    BY <1>1 DEF Calm, PhaseTurns
  <1>5. \A t \in Changing : at'[t] = at[t]
    BY <1>2, <1>3
  <1>6. CalmPlaces'
    BY <1>1, <1>2, <1>3 DEF Calm, CalmPlaces
  <1>7. PhaseTurns'
    BY <1>1, <1>2, <1>3, <1>4 DEF Calm, PhaseTurns
  <1>8. ChangeTurns'
    BY <1>1, <1>2, <1>3, <1>5 DEF Calm, ChangeTurns, AtRest
  <1>9. ChangesKeep' /\ LoaderKeeps'
    <2>1. \A t \in Changing : ChangeKeeps(t)' = ChangeKeeps(t)
      BY <1>1, <1>5 DEF ChangeKeeps, InMemory
    <2> QED
      BY <1>1, <1>2, <1>3, <1>5, <2>1 DEF Calm, ChangesKeep, LoaderKeeps, Cold, InMemory
  <1>10. SettledServes'
    BY <1>1, <1>2, <1>3, <1>5
    DEF Calm, SettledServes, Settled, NothingYet, Serving, Cold, InMemory
  <1>11. UsersFind'
    BY <1>1, <1>2, <1>3, <1>4 DEF Calm, UsersFind
  <1> QED
    BY <1>6, <1>7, <1>8, <1>9, <1>10, <1>11 DEF Calm

-----------------------------------------------------------------------------
(* Where nothing goes wrong: start workers and transcriptions.               *)

LEMMA StarterAlone ==
  ASSUME RegistryType, EngineType, Calm, NEW t \in Starter, at[t] # "off"
  PROVE  /\ \A c \in Changer : AtRest(c)
         /\ \A u \in Changing : at[u] \notin ChangePlace /\ at[u] # "enters"
         /\ deferred["model"] = Nothing
         /\ at[Loader] \notin ColdPlace => Serving /\ registry[config] # None
  <1> USE Roles
  <1>1. ~AtRest(t)
    BY DEF Calm, CalmPlaces, AtRest
  <1>2. \A c \in Changer : AtRest(c)
    BY <1>1 DEF Calm, ChangeTurns
  <1>3. \A u \in Changing : at[u] \notin ChangePlace /\ at[u] # "enters"
    BY <1>2 DEF Calm, ChangeTurns, AtRest, ChangePlace
  <1>4. deferred["model"] = Nothing
    BY DEF Calm, ChangeTurns
  <1>5. CASE at[Loader] = "off"
    BY <1>2, <1>3, <1>4, <1>5 DEF Calm, SettledServes, Settled, NothingYet, Serving
  <1>6. CASE at[Loader] # "off"
    BY <1>2, <1>3, <1>4, <1>6, LoaderLeaves
  <1> QED
    BY <1>2, <1>3, <1>4, <1>5, <1>6

StarterLeaves == UNCHANGED <<env, config, registry, marked, failures, loaded, deferred, phase, starts,
                             lost, leaving, kind>>

LEMMA StarterGoesOn ==
  ASSUME RegistryType, ThreadType, EngineType, Calm, NEW t \in Starter, at[t] # "off",
         NEW p \in {"off", "asks", "joins", "lazy", "ensures", "revalidates", "checks", "verifies"},
         at' = [at EXCEPT ![t] = p], StarterLeaves, armed' = FALSE,
         \A u \in Thread : u # t => held'[u] = held[u] /\ name'[u] = name[u],
         \A u \in Starter : u # t /\ lazyLock = u => lazyLock' = u,
         p \notin {"off", "asks", "joins"} => at[Loader] \notin ColdPlace,
         p \in {"ensures", "revalidates", "checks"} => lazyLock' = t,
         p = "ensures" => name'[t] = config, p = "checks" => held'[t] \in loaded
  PROVE  Calm'
  <1> USE Roles DEF RegistryType, ThreadType, StarterLeaves
  <1>1. at'[t] = p /\ \A u \in Thread : u # t => at'[u] = at[u]
    OBVIOUS
  <1>2. /\ \A c \in Changer : AtRest(c)
        /\ \A u \in Changing : at[u] \notin ChangePlace /\ at[u] # "enters"
        /\ deferred["model"] = Nothing
        /\ at[Loader] \notin ColdPlace => Serving /\ registry[config] # None
    BY StarterAlone
  <1>3. CalmPlaces'
    BY <1>1 DEF Calm, CalmPlaces
  <1>4. PhaseTurns'
    BY <1>1 DEF Calm, PhaseTurns, AtRest
  <1>5. ChangeTurns'
    BY <1>1, <1>2 DEF ChangeTurns, AtRest
  <1>6. ChangesKeep' /\ LoaderKeeps'
    BY <1>1, <1>2 DEF Calm, ChangesKeep, LoaderKeeps, Cold, InMemory
  <1>7. SettledServes'
    BY <1>1, <1>2 DEF SettledServes, Settled, Serving, Cold, InMemory, ColdPlace
  <1>8. UsersFind'
    BY <1>1 DEF Calm, UsersFind
  <1> QED
    BY <1>3, <1>4, <1>5, <1>6, <1>7, <1>8 DEF Calm

LEMMA StarterWaits ==
  ASSUME RegistryType, ThreadType, EngineType, Calm, NEW t \in Starter,
         StarterAsks(t) \/ Joins(t) \/ StarterEnters(t)
  PROVE  Calm'
  <1> USE Roles DEF RegistryType, ThreadType
  <1>1. CASE StarterAsks(t)
    <2>1. /\ at[t] = "asks" /\ StarterLeaves /\ armed' = FALSE
          /\ UNCHANGED <<lazyLock, held, name>>
      BY <1>1 DEF StarterAsks, StarterLeaves, registryVars, engineVars, dictationVars, Calm, CalmPlaces
    <2>2. CASE config \in marked
      <3>1. at' = [at EXCEPT ![t] = "verifies"]
        BY <1>1, <2>2 DEF StarterAsks, Goes
      <3>2. at[Loader] \notin ColdPlace
        BY <2>2 DEF Calm, PhaseTurns, UsersFind
      <3> QED
        BY <2>1, <3>1, <3>2, StarterGoesOn
    <2>3. CASE config \notin marked
      <3>1. at' = [at EXCEPT ![t] = IF at[Loader] = "off" THEN "lazy" ELSE "joins"]
        BY <1>1, <2>3 DEF StarterAsks, Goes
      <3>2. CASE at[Loader] = "off"
        BY <2>1, <3>1, <3>2, StarterGoesOn DEF ColdPlace
      <3>3. CASE at[Loader] # "off"
        BY <2>1, <3>1, <3>3, StarterGoesOn
      <3> QED
        BY <3>2, <3>3
    <2> QED
      BY <2>2, <2>3
  <1>2. CASE Joins(t)
    <2>1. /\ at[t] = "joins" /\ at[Loader] = "off" /\ at' = [at EXCEPT ![t] = "verifies"]
          /\ StarterLeaves /\ armed' = FALSE /\ UNCHANGED <<lazyLock, held, name>>
      BY <1>2 DEF Joins, Goes, StarterLeaves, registryVars, engineVars, managerVars, dictationVars,
                  Calm, CalmPlaces
    <2> QED
      BY <2>1, StarterGoesOn DEF ColdPlace
  <1>3. CASE StarterEnters(t)
    <2>1. /\ at[t] = "lazy" /\ lazyLock = None /\ at' = [at EXCEPT ![t] = "ensures"]
          /\ lazyLock' = t /\ name' = [name EXCEPT ![t] = config]
          /\ StarterLeaves /\ armed' = FALSE /\ held' = held
      BY <1>3 DEF StarterEnters, Goes, StarterLeaves, registryVars, engineVars, dictationVars,
                  Calm, CalmPlaces
    <2>2. \A u \in Starter : lazyLock # u
      <3>1. None \notin Starter
        BY DEF Starter, None
      <3> QED
        BY <2>1, <3>1
    <2>3. at[Loader] \notin ColdPlace
      BY <2>1 DEF Calm, UsersFind
    <2> QED
      BY <2>1, <2>2, <2>3, StarterGoesOn
  <1> QED
    BY <1>1, <1>2, <1>3

LEMMA StarterServed ==
  ASSUME RegistryType, ThreadType, EngineType, Calm, NEW t \in Starter,
         Ensures(t) \/ Revalidates(t) \/ Checks(t) \/ Verifies(t)
  PROVE  Calm'
  <1> USE Roles DEF RegistryType, ThreadType
  <1>1. at[t] \in {"ensures", "revalidates", "checks", "verifies"}
    BY DEF Ensures, Revalidates, Checks, Verifies
  <1>2. /\ at[Loader] \notin ColdPlace /\ Serving /\ registry[config] # None
        /\ at[t] # "verifies" => lazyLock = t
        /\ at[t] = "ensures" => name[t] = config
        /\ at[t] = "checks" => held[t] \in loaded
    BY <1>1, StarterAlone DEF Calm, UsersFind
  <1>3. armed = FALSE
    BY DEF Calm, CalmPlaces
  <1>4. CASE Ensures(t)
    <2>1. AfterEnsure(t) = "revalidates" /\ at[t] = "ensures"
      BY <1>2, <1>4 DEF AfterEnsure, FallsBack, Ensures
    <2>2. /\ at' = [at EXCEPT ![t] = "revalidates"] /\ StarterLeaves /\ armed' = FALSE
          /\ UNCHANGED <<lazyLock, held, name>>
      BY <1>2, <1>3, <1>4, <2>1 DEF Ensures, Goes, StarterLeaves, registryVars, engineVars, managerVars,
                                    dictationVars
    <2> QED
      BY <1>2, <2>1, <2>2, StarterGoesOn
  <1>5. CASE Revalidates(t)
    <2>1. at[t] = "revalidates" /\ StarterLeaves /\ armed' = FALSE /\ lazyLock' = lazyLock
      BY <1>3, <1>5 DEF Revalidates, StarterLeaves, registryVars, engineVars, managerVars, dictationVars
    <2>2. CASE name[t] # config
      <3>1. at' = [at EXCEPT ![t] = "ensures"] /\ name' = [name EXCEPT ![t] = config] /\ held' = held
        BY <1>5, <2>2 DEF Revalidates, Goes
      <3> QED
        BY <1>2, <2>1, <3>1, StarterGoesOn
    <2>3. CASE name[t] = config
      <3>1. /\ at' = [at EXCEPT ![t] = "checks"] /\ held' = [held EXCEPT ![t] = registry[config]]
            /\ name' = name
        BY <1>5, <2>3 DEF Revalidates, GoesWith, Goes
      <3>2. registry[config] \in loaded
        BY <1>2 DEF Serving, InMemory
      <3> QED
        BY <1>2, <2>1, <3>1, <3>2, StarterGoesOn
    <2> QED
      BY <2>2, <2>3
  <1>6. CASE Checks(t)
    <2>1. /\ at[t] = "checks" /\ Concludes(t) /\ UNCHANGED <<held, name>> /\ StarterLeaves /\ armed' = FALSE
      BY <1>2, <1>3, <1>6 DEF Checks, Ready, StarterLeaves, registryVars, engineVars, dictationVars
    <2>2. NextPlace(t) = "verifies"
      BY <1>2, <2>1 DEF NextPlace
    <2>3. at' = [at EXCEPT ![t] = "verifies"] /\ lazyLock = t
      BY <1>2, <2>1, <2>2 DEF Concludes, Goes
    <2> QED
      BY <1>2, <2>1, <2>3, StarterGoesOn
  <1>7. CASE Verifies(t)
    <2>1. /\ at[t] = "verifies" /\ StarterLeaves /\ armed' = FALSE /\ UNCHANGED <<lazyLock, held, name>>
      BY <1>3, <1>7 DEF Verifies, StarterLeaves, Looks, engineVars, managerVars, dictationVars
    <2>2. at' = [at EXCEPT ![t] = "off"]
      <3>1. \A e : Sees(e) => e # None
        BY <1>2, LooksMeet
      <3> QED
        BY <1>7, <3>1 DEF Verifies, Looks, Goes
    <2> QED
      BY <1>2, <2>1, <2>2, StarterGoesOn
  <1> QED
    BY <1>4, <1>5, <1>6, <1>7

LEMMA TranscriberAlone ==
  ASSUME RegistryType, EngineType, Calm, NEW t \in Transcriber, at[t] # "off"
  PROVE  /\ phase = "busy" /\ t[2] = starts /\ at[Hotkey] = "off"
         /\ \A u \in Transcriber : u # t => at[u] = "off"
         /\ \A u \in Changing : at[u] \notin ChangePlace
         /\ at[Loader] \notin ColdPlace => Serving
  <1> USE Roles
  <1>1. phase = "busy" /\ t[2] = starts /\ at[Hotkey] = "off"
    BY DEF Calm, PhaseTurns
  <1>2. \A u \in Transcriber : u # t => at[u] = "off"
    BY <1>1, OneTranscriber DEF Calm, PhaseTurns
  <1>3. \A u \in Changing : at[u] \notin ChangePlace
    <2>1. \A c \in Changer : at[c] \notin ChangePlace
      BY <1>1 DEF Calm, ChangeTurns, AtRest, ChangePlace
    <2>2. at[Hotkey] \notin ChangePlace
      BY <1>1 DEF ChangePlace
    <2> QED
      BY <2>1, <2>2
  <1>4. CASE at[Loader] = "off"
    BY <1>1, <1>2, <1>3, <1>4 DEF Calm, SettledServes, Settled, NothingYet
  <1>5. CASE at[Loader] # "off"
    BY <1>1, <1>2, <1>3, <1>5, LoaderLeaves
  <1> QED
    BY <1>1, <1>2, <1>3, <1>4, <1>5

TranscriberLeaves == UNCHANGED <<env, config, registry, failures, loaded, armed, deferred, lazyLock,
                                 starts, lost, leaving, kind>>

LEMMA TranscriberGoesOn ==
  ASSUME RegistryType, ThreadType, EngineType, Calm, NEW t \in Transcriber, at[t] # "off",
         NEW p \in {"off", "looks", "joins", "rereads", "marks", "calls", "infers", "unmarks", "touches"},
         at' = [at EXCEPT ![t] = p], TranscriberLeaves,
         phase' = IF p = "off" THEN "idle" ELSE phase,
         \A u \in Thread : u # t => held'[u] = held[u] /\ name'[u] = name[u],
         \A b \in marked' : p \in {"calls", "infers", "unmarks"} /\ name'[t] = b,
         p \notin {"off", "looks", "joins"} => at[Loader] \notin ColdPlace,
         p = "rereads" => at[Loader] = "off",
         p \in {"marks", "calls"} => held'[t] \in loaded
  PROVE  Calm'
  <1> USE Roles DEF RegistryType, ThreadType, TranscriberLeaves
  <1>1. at'[t] = p /\ \A u \in Thread : u # t => at'[u] = at[u]
    OBVIOUS
  <1>2. /\ phase = "busy" /\ t[2] = starts /\ at[Hotkey] = "off"
        /\ \A u \in Transcriber : u # t => at[u] = "off"
        /\ \A u \in Changing : at[u] \notin ChangePlace
        /\ at[Loader] \notin ColdPlace => Serving
    BY TranscriberAlone
  <1>3. \A u \in Changing : at'[u] = at[u] /\ name'[u] = name[u] /\ held'[u] = held[u]
    BY <1>1
  <1>4. CalmPlaces'
    BY <1>1 DEF Calm, CalmPlaces
  <1>5. PhaseTurns'
    BY <1>1, <1>2 DEF Calm, PhaseTurns
  <1>6. ChangeTurns'
    BY <1>1, <1>2, <1>3 DEF Calm, ChangeTurns, AtRest
  <1>7. ChangesKeep' /\ LoaderKeeps'
    BY <1>1, <1>2, <1>3 DEF Calm, ChangesKeep, LoaderKeeps, Cold, InMemory
  <1>8. SettledServes'
    BY <1>1, <1>2, <1>3 DEF Calm, SettledServes, Settled, Serving, Cold, InMemory, ColdPlace
  <1>9. UsersFind'
    BY <1>1, <1>2 DEF Calm, UsersFind
  <1> QED
    BY <1>4, <1>5, <1>6, <1>7, <1>8, <1>9 DEF Calm

(* While the loader's engine is not there yet there is none to be seen.      *)
LEMMA LooksCold ==
  ASSUME RegistryType, EngineType, Calm, at[Loader] \in ColdPlace, NEW e, Sees(e)
  PROVE  e = None
  <1>1. \A b \in Backend : ~InMemory(b)
    BY Threads DEF Calm, LoaderKeeps, ColdPlace, Cold, InMemory, EngineType
  <1> QED
    BY <1>1, LooksMeet

LEMMA TranscriberFinds ==
  ASSUME RegistryType, ThreadType, EngineType, Calm, NEW t \in Transcriber,
         TranscriberLooks(t) \/ Joins(t) \/ TranscriberRereads(t)
  PROVE  Calm'
  <1> USE Roles DEF RegistryType, ThreadType
  <1>1. /\ at[t] \in {"looks", "joins", "rereads"}
        /\ at[t] = "rereads" => at[Loader] = "off"
    BY DEF TranscriberLooks, Joins, TranscriberRereads, Calm, CalmPlaces, UsersFind
  <1>2. \A b \in marked : FALSE
    BY <1>1, TranscriberAlone DEF Calm, PhaseTurns
  <1>3. at[Loader] \notin ColdPlace => Serving
    BY <1>1, TranscriberAlone
  <1>4. CASE TranscriberLooks(t)
    <2>1. PICK e \in Engine \cup {None} :
            /\ Sees(e)
            /\ GoesWith(t, IF e # None THEN "marks" ELSE IF at[Loader] = "off" THEN "lazy" ELSE "joins", e)
      BY <1>4 DEF TranscriberLooks, Looks
    <2>2. /\ held' = [held EXCEPT ![t] = e] /\ TranscriberLeaves /\ phase' = phase
          /\ UNCHANGED <<marked, name>>
      BY <1>4, <2>1 DEF TranscriberLooks, GoesWith, TranscriberLeaves, engineVars, managerVars, dictationVars
    <2>3. CASE e # None
      <3>1. at' = [at EXCEPT ![t] = "marks"] /\ e \in loaded
        BY <2>1, <2>3, LooksMeet DEF GoesWith, Goes
      <3>2. at[Loader] \notin ColdPlace
        BY <2>1, <2>3, LooksCold
      <3> QED
        BY <1>1, <1>2, <2>2, <3>1, <3>2, TranscriberGoesOn
    <2>4. CASE e = None
      <3>1. at[Loader] # "off"
        BY <1>3, <2>1, <2>4, LooksMeet DEF ColdPlace
      <3>2. at' = [at EXCEPT ![t] = "joins"]
        BY <2>1, <2>4, <3>1 DEF GoesWith, Goes
      <3> QED
        BY <1>1, <1>2, <2>2, <3>2, TranscriberGoesOn
    <2> QED
      BY <2>3, <2>4
  <1>5. CASE Joins(t)
    <2>1. /\ at[Loader] = "off" /\ at' = [at EXCEPT ![t] = "rereads"] /\ TranscriberLeaves
          /\ phase' = phase /\ UNCHANGED <<marked, held, name>>
      BY <1>5 DEF Joins, Goes, TranscriberLeaves, registryVars, engineVars, managerVars, dictationVars
    <2> QED
      BY <1>1, <1>2, <2>1, TranscriberGoesOn DEF ColdPlace
  <1>6. CASE TranscriberRereads(t)
    <2>1. at[Loader] \notin ColdPlace
      BY <1>1, <1>6 DEF TranscriberRereads, ColdPlace, Calm, CalmPlaces
    <2>2. PICK e \in Engine \cup {None} :
            /\ Sees(e) /\ held' = [held EXCEPT ![t] = e]
            /\ IF e = None THEN Loses(t) ELSE Goes(t, "marks") /\ UNCHANGED <<lost, phase>>
      BY <1>6 DEF TranscriberRereads, Looks
    <2>3. e # None /\ e \in loaded
      BY <1>3, <2>1, <2>2, LooksMeet
    <2>4. /\ at' = [at EXCEPT ![t] = "marks"] /\ TranscriberLeaves /\ phase' = phase
          /\ UNCHANGED <<marked, name>>
      BY <1>6, <2>2, <2>3 DEF TranscriberRereads, Goes, TranscriberLeaves, engineVars, managerVars
    <2> QED
      BY <1>1, <1>2, <2>1, <2>2, <2>3, <2>4, TranscriberGoesOn
  <1> QED
    BY <1>4, <1>5, <1>6

LEMMA TranscriberServed ==
  ASSUME RegistryType, ThreadType, EngineType, Untroubled, Calm, NEW t \in Transcriber,
         Marks(t) \/ Calls(t) \/ InferenceEnds(t) \/ Unmarks(t) \/ Touches(t)
  PROVE  Calm'
  <1> USE Roles DEF RegistryType, ThreadType
  <1>1. at[t] \in {"marks", "calls", "infers", "unmarks", "touches"}
    BY DEF Marks, Calls, InferenceEnds, Unmarks, Touches
  <1>2. /\ at[Loader] \notin ColdPlace /\ phase = "busy" /\ t[2] = starts
        /\ at[t] \in {"marks", "calls"} => held[t] \in loaded
    BY <1>1, TranscriberAlone DEF Calm, UsersFind
  <1>3. \A b \in marked : at[t] \in {"calls", "infers", "unmarks"} /\ name[t] = b
    BY <1>1, TranscriberAlone DEF Calm, PhaseTurns
  <1>4. CASE Marks(t)
    <2>1. /\ at[t] = "marks" /\ at' = [at EXCEPT ![t] = "calls"] /\ name' = [name EXCEPT ![t] = config]
          /\ marked' = marked \cup {config} /\ TranscriberLeaves /\ held' = held /\ phase' = phase
      BY <1>4 DEF Marks, Goes, TranscriberLeaves, engineVars, managerVars, dictationVars
    <2> QED
      BY <1>2, <1>3, <2>1, TranscriberGoesOn
  <1>5. CASE Calls(t)
    <2>1. /\ at[t] = "calls" /\ at' = [at EXCEPT ![t] = "infers"] /\ TranscriberLeaves /\ phase' = phase
          /\ UNCHANGED <<marked, held, name>>
      BY <1>2, <1>5 DEF Calls, Ready, Goes, TranscriberLeaves, engineVars, managerVars
    <2> QED
      BY <1>2, <1>3, <2>1, TranscriberGoesOn
  <1>6. CASE InferenceEnds(t)
    <2>1. /\ at[t] = "infers" /\ at' = [at EXCEPT ![t] = "unmarks"] /\ held' = [held EXCEPT ![t] = None]
          /\ TranscriberLeaves /\ phase' = phase /\ UNCHANGED <<marked, name>>
      BY <1>6 DEF InferenceEnds, GoesWith, Goes, TranscriberLeaves, registryVars, engineVars, managerVars,
                  dictationVars
    <2> QED
      BY <1>2, <1>3, <2>1, TranscriberGoesOn
  <1>7. CASE Unmarks(t)
    <2>1. /\ at[t] = "unmarks" /\ at' = [at EXCEPT ![t] = "touches"] /\ marked' = marked \ {name[t]}
          /\ TranscriberLeaves /\ phase' = phase /\ UNCHANGED <<held, name>>
      BY <1>7 DEF Unmarks, Goes, TranscriberLeaves, engineVars, managerVars, dictationVars
    <2> QED
      BY <1>2, <1>3, <2>1, TranscriberGoesOn
  <1>8. CASE Touches(t)
    <2>1. armed = FALSE /\ ArmedBy(config) = FALSE
      BY NeverArmed DEF Calm, CalmPlaces
    <2>2. /\ at[t] = "touches" /\ at' = [at EXCEPT ![t] = "off"] /\ phase' = "idle"
          /\ TranscriberLeaves /\ UNCHANGED <<marked, held, name>>
      BY <1>2, <1>8, <2>1 DEF Touches, Goes, PhaseAfter, TranscriberLeaves, engineVars
    <2> QED
      BY <1>2, <1>3, <2>2, TranscriberGoesOn
  <1> QED
    BY <1>4, <1>5, <1>6, <1>7, <1>8

-----------------------------------------------------------------------------
(* Where nothing goes wrong: the whole.                                      *)

calmVars == <<env, config, registry, marked, failures, loaded, armed, deferred, lazyLock,
              phase, starts, lost, at, held, name, leaving, kind>>

(* What Calm speaks of stays as it is while somebody waits for a look.       *)
LEMMA CalmStays ==
  ASSUME Calm, UNCHANGED calmVars
  PROVE  Calm'
  <1> USE DEF calmVars
  <1>1. (\A b \in Backend : InMemory(b)' = InMemory(b)) /\ Cold' = Cold /\ Serving' = Serving
    BY DEF InMemory, Cold, Serving
  <1>2. \A t \in Changing : ChangeKeeps(t)' = ChangeKeeps(t)
    BY DEF ChangeKeeps, InMemory
  <1>3. CalmPlaces' /\ PhaseTurns' /\ UsersFind'
    BY DEF Calm, CalmPlaces, PhaseTurns, UsersFind, AtRest
  <1>4. ChangeTurns'
    BY DEF Calm, ChangeTurns, AtRest
  <1>5. ChangesKeep'
    BY <1>2 DEF Calm, ChangesKeep
  <1>6. LoaderKeeps' /\ SettledServes'
    BY <1>1 DEF Calm, LoaderKeeps, SettledServes, Settled, NothingYet, InMemory
  <1> QED
    BY <1>3, <1>4, <1>5, <1>6 DEF Calm

LEMMA EnvironmentStays == [EngineManagerNext]_engineManagerVars => env' = env
  BY DEF EngineManagerNext, engineManagerVars, registryVars, Waits, LoadSteps, Ensures, Creates,
         Resolves, Tries, Locks, Counts, Drops, Whispers, Succeeds, Ejects, Forgets, Fails,
         LoadEnds, LoadReturns, LoadRaises, LoadIsRefused, EndsLoad, LoaderEnds, Requests,
         RequestsModel, RequestsBackend, ChangeSteps, Enters, UnloadsOld, UnregistersOld,
         HotkeyPresses, HotkeyLooks, HotkeyApplies, HotkeyStops, StarterSteps, StarterAsks, Joins,
         StarterEnters, Revalidates, Checks, Verifies, Replaces, Judges, TranscriberSteps,
         TranscriberLooks, TranscriberRereads, TranscriberGivesUp, Marks, Calls, Unmarks, Touches,
         InferenceEnds, Recovers, IdleTimePasses, IdlerSteps, IdlerLooks, IdlerUnloads

LEMMA LoadKeepsCalm ==
  ASSUME IInv, Untroubled, Calm, NEW t \in Thread, LoadSteps(t) \/ LoadEnds(t)
  PROVE  Calm'
  <1> USE DEF IInv, EngineManagerTypeOK
  <1>1. /\ ~Drops(t) /\ ~Whispers(t) /\ ~Fails(t) /\ ~LoadRaises(t) /\ ~LoadIsRefused(t)
        /\ at[t] \in {"ensures", "creates", "resolves", "tries", "locks", "counts", "misses",
                      "succeeded", "ejects", "forgets", "loads"}
    BY Roles DEF Drops, Whispers, Fails, LoadRaises, LoadIsRefused, Untroubled, Calm, CalmPlaces,
         ChangePlace, ColdPlace, LoadSteps, LoadEnds, LoadReturns, EndsLoad, Ensures, Creates, Resolves,
         Tries, Locks, Counts, Succeeds, Ejects, Forgets
  <1>2. t # Idler /\ t \notin Transcriber /\ at[t] # "misses"
    BY <1>1, Roles DEF Calm, CalmPlaces, ChangePlace, ColdPlace
  <1>3. CASE t = Loader
    <2>1. at[Loader] # "off" /\ at[Loader] \notin {"resolves", "ejects"}
      BY <1>1, <1>3 DEF Calm, CalmPlaces, ColdPlace
    <2>2. ~Resolves(Loader) /\ ~Ejects(Loader)
      BY <2>1 DEF Resolves, Ejects
    <2> QED
      BY <1>1, <1>3, <2>1, <2>2, LoaderFinds, LoaderLoads, LoaderSucceeds DEF LoadSteps, LoadEnds
  <1>4. CASE t \in Starter
    <2>1. at[t] = "ensures"
      BY <1>1, <1>4 DEF Calm, CalmPlaces
    <2>2. Ensures(t)
      BY <1>1, <2>1 DEF LoadSteps, LoadEnds, LoadReturns, EndsLoad, Creates, Resolves, Tries, Locks,
                        Counts, Succeeds, Ejects, Forgets
    <2> QED
      BY <1>4, <2>2, StarterServed
  <1>5. CASE t \in Changing
    <2>1. at[t] \in ChangePlace /\ at[t] # "tries"
      BY <1>1, <1>2, <1>5, Roles DEF Calm, CalmPlaces, ChangePlace
    <2>2. ~Tries(t)
      BY <2>1 DEF Tries
    <2> QED
      BY <1>1, <1>5, <2>1, <2>2, ChangeFinds, ChangeLoads, ChangeSucceeds, ChangeUnloads, ChangeForgets
      DEF LoadSteps, LoadEnds
  <1> QED
    BY <1>2, <1>3, <1>4, <1>5, Roles

LEMMA ChangeKeepsCalm ==
  ASSUME IInv, Untroubled, Calm, NEW t \in Changing, ChangeSteps(t)
  PROVE  Calm'
  <1> USE DEF IInv, EngineManagerTypeOK
  <1>1. UnloadsOld(t) \/ UnregistersOld(t) => at[t] \in ChangePlace
    BY DEF UnloadsOld, UnregistersOld, ChangePlace
  <1> QED
    BY <1>1, ChangeEnters, ChangeUnloads, ChangeUnregisters DEF ChangeSteps

LEMMA StarterKeepsCalm ==
  ASSUME IInv, Calm, NEW t \in Starter, StarterSteps(t)
  PROVE  Calm'
  <1> USE DEF IInv, EngineManagerTypeOK
  <1>1. ~Replaces(t) /\ ~Judges(t)
    BY DEF Replaces, Judges, Calm, CalmPlaces
  <1> QED
    BY <1>1, StarterWaits, StarterServed DEF StarterSteps

LEMMA TranscriberKeepsCalm ==
  ASSUME IInv, Untroubled, Calm, NEW t \in Transcriber,
         TranscriberSteps(t) \/ InferenceEnds(t) \/ Recovers(t)
  PROVE  Calm'
  <1> USE DEF IInv, EngineManagerTypeOK
  <1>1. ~TranscriberGivesUp(t) /\ ~Recovers(t)
    BY DEF TranscriberGivesUp, Recovers, Untroubled
  <1> QED
    BY <1>1, TranscriberFinds, TranscriberServed DEF TranscriberSteps

LEMMA NextKeepsCalm ==
  ASSUME IInv, Untroubled, Calm, EngineManagerNext
  PROVE  Calm'
  <1> USE DEF IInv, EngineManagerTypeOK
  <1>1. ASSUME NEW t \in Thread, Waits(t) PROVE Calm'
    BY <1>1, CalmStays DEF Waits, calmVars, engineVars, managerVars, dictationVars, threadVars
  <1>2. ~IdleTimePasses /\ ~IdlerSteps
    BY DEF IdleTimePasses, IdlerSteps, IdlerLooks, IdlerUnloads, Calm, CalmPlaces
  <1>3. CASE \E t \in Thread : LoadSteps(t) \/ LoadEnds(t)
    BY <1>3, LoadKeepsCalm
  <1>4. CASE \E c \in Changer, b \in Backend : RequestsModel(c, b) \/ RequestsBackend(c, b)
    BY <1>4, ChangeRequested
  <1>5. CASE \E t \in Changing : ChangeSteps(t)
    BY <1>5, ChangeKeepsCalm
  <1>6. CASE LoaderEnds \/ HotkeyPresses \/ HotkeyLooks \/ HotkeyApplies \/ HotkeyStops
    BY <1>6, LoaderGoes, HotkeyStarts, HotkeyFinds, HotkeyGoes, HotkeyEnds
  <1>7. CASE \E t \in Starter : StarterSteps(t)
    BY <1>7, StarterKeepsCalm
  <1>8. CASE \E t \in Transcriber : TranscriberSteps(t) \/ InferenceEnds(t) \/ Recovers(t)
    BY <1>8, TranscriberKeepsCalm
  <1> QED
    BY <1>1, <1>2, <1>3, <1>4, <1>5, <1>6, <1>7, <1>8 DEF EngineManagerNext

LEMMA InitCalm == EngineManagerInit => CalmInv
  <1> SUFFICES ASSUME EngineManagerInit PROVE Calm
    BY DEF CalmInv
  <1> USE Roles DEF EngineManagerInit
  <1>1. Cold /\ \A t \in Thread : at[t] = "off"
    BY DEF Cold
  <1>2. CalmPlaces /\ PhaseTurns
    BY <1>1 DEF CalmPlaces, PhaseTurns
  <1>3. ChangeTurns /\ ChangesKeep
    BY <1>1 DEF ChangeTurns, ChangesKeep, ChangePlace, AtRest
  <1>4. LoaderKeeps /\ SettledServes /\ UsersFind
    BY <1>1 DEF LoaderKeeps, SettledServes, NothingYet, UsersFind
  <1> QED
    BY <1>2, <1>3, <1>4 DEF Calm

LEMMA StepCalm == IInv /\ CalmInv /\ [EngineManagerNext]_engineManagerVars => CalmInv'
  <1> SUFFICES ASSUME IInv, CalmInv, [EngineManagerNext]_engineManagerVars, Untroubled' PROVE Calm'
    BY DEF CalmInv
  <1>1. Untroubled
    BY EnvironmentStays DEF Untroubled
  <1>2. Calm
    BY <1>1 DEF CalmInv
  <1>3. CASE UNCHANGED engineManagerVars
    BY <1>2, <1>3, CalmStays DEF calmVars, engineManagerVars, registryVars, engineVars, managerVars,
                                 dictationVars, threadVars
  <1> QED
    BY <1>1, <1>2, <1>3, NextKeepsCalm

(* Where no load fails, no lock is waited for in vain, no change overtakes a *)
(* start and no backend is asked for amid a dictation, every transcription   *)
(* gets an engine with its model in memory: however cold the program began,  *)
(* whoever loads, evicts or changes the engines, with any number of them.    *)
THEOREM AudioAlwaysFindsItsEngine == EngineManagerSpec => []AudioFindsEngine
  <1>1. CalmInv => AudioFindsEngine
    BY DEF CalmInv, Untroubled, Calm, CalmPlaces, AudioFindsEngine
  <1> QED
    BY <1>1, InvariantHolds, InitCalm, StepCalm, PTL DEF EngineManagerSpec

-----------------------------------------------------------------------------
(* Locks: who keeps one is at a place where it gives it back.                *)

LoadSection == {"ensures", "creates", "resolves", "locks", "loads", "counts", "misses", "drops",
                "failed", "succeeded", "ejects", "forgets"}
LazySection == LoadSection \cup {"revalidates", "checks"}
ChangeSection == LoadSection \cup {"unloads", "unregisters"}
WaitingPlace == {"lazy", "enters", "joins"}

LocksKept ==
    /\ lazyLock # None => lazyLock \in Starter /\ at[lazyLock] \in LazySection
    /\ changeLock # None => changeLock \in Changing /\ at[changeLock] \in ChangeSection
    /\ \A e \in Engine : loading[e] # None => at[loading[e]] = "loads" /\ held[loading[e]] = e
    /\ waiting # None => at[waiting] \in LookPlaces
    /\ at[Loader] \notin WaitingPlace

LEMMA NobodyIsNone == None \notin Thread
  BY DEF None, Thread, Loader, Hotkey, Idler, Starter, Transcriber, Changer

(* One thread goes on, and takes or gives back what it may.                  *)
LEMMA OneMoves ==
  ASSUME RegistryType, ThreadType, EngineType, ManagerType, LocksKept,
         NEW t \in Thread, NEW p, at' = [at EXCEPT ![t] = p], t = Loader => p \notin WaitingPlace,
         lazyLock' \in {None, lazyLock, t}, lazyLock' = t => t \in Starter /\ p \in LazySection,
         changeLock' \in {None, changeLock, t}, changeLock' = t => t \in Changing /\ p \in ChangeSection,
         \A e \in Engine : loading'[e] \in {None, loading[e], t}
                           /\ (loading'[e] = t => p = "loads" /\ held'[t] = e),
         \A u \in Thread : u # t => held'[u] = held[u],
         waiting' \in {None, waiting, t}, waiting' = t => p \in LookPlaces
  PROVE  LocksKept'
  <1> USE DEF RegistryType, ThreadType, EngineType, ManagerType
  <1>1. at'[t] = p /\ \A u \in Thread : u # t => at'[u] = at[u]
    OBVIOUS
  <1>2. (lazyLock' # None => lazyLock' \in Starter /\ at'[lazyLock'] \in LazySection)
    BY <1>1 DEF LocksKept
  <1>3. (changeLock' # None => changeLock' \in Changing /\ at'[changeLock'] \in ChangeSection)
    BY <1>1 DEF LocksKept
  <1>4. \A e \in Engine : loading'[e] # None => at'[loading'[e]] = "loads" /\ held'[loading'[e]] = e
    BY <1>1 DEF LocksKept
  <1>5. waiting' # None => at'[waiting'] \in LookPlaces
    BY <1>1 DEF LocksKept
  <1>6. at'[Loader] \notin WaitingPlace
    BY <1>1, Threads DEF LocksKept
  <1> QED
    BY <1>2, <1>3, <1>4, <1>5, <1>6 DEF LocksKept

(* A step that leaves the locks, but for the registry's, as they are.        *)
LEMMA LocksStay ==
  ASSUME RegistryType, ThreadType, EngineType, ManagerType, LocksKept,
         NEW t \in Thread, NEW p, at' = [at EXCEPT ![t] = p], t = Loader => p \notin WaitingPlace,
         UNCHANGED <<lazyLock, changeLock, loading>>, at[t] # "loads",
         \A u \in Thread : u # t => held'[u] = held[u],
         lazyLock = t => p \in LazySection, changeLock = t => p \in ChangeSection,
         waiting' = None \/ (waiting' = waiting /\ at[t] \notin LookPlaces)
  PROVE  LocksKept'
  <1>1. lazyLock = t => t \in Starter
    BY NobodyIsNone DEF LocksKept
  <1>2. changeLock = t => t \in Changing
    BY NobodyIsNone DEF LocksKept
  <1>3. \A e \in Engine : loading[e] # t
    BY NobodyIsNone DEF LocksKept
  <1>4. waiting' = t => FALSE
    BY NobodyIsNone DEF LocksKept
  <1> QED
    BY <1>1, <1>2, <1>3, <1>4, OneMoves

(* ... and one that gives back the lock of a start worker, or of a change.   *)
LEMMA LocksReturn ==
  ASSUME RegistryType, ThreadType, EngineType, ManagerType, LocksKept,
         NEW t \in Thread, Concludes(t), at[t] # "loads", at[t] \notin LookPlaces,
         t \in {Loader} \cup Starter \cup Changing, UNCHANGED <<loading, waiting>>,
         \A u \in Thread : u # t => held'[u] = held[u]
  PROVE  LocksKept'
  <1>1. /\ at' = [at EXCEPT ![t] = NextPlace(t)] /\ lazyLock' # t /\ changeLock' # t
        /\ lazyLock' \in {None, lazyLock} /\ changeLock' \in {None, changeLock}
    BY NobodyIsNone DEF Concludes, Goes
  <1>2. \A e \in Engine : loading[e] # t
    BY NobodyIsNone DEF LocksKept
  <1>3. waiting # t
    BY NobodyIsNone DEF LocksKept
  <1>4. t = Loader => NextPlace(t) \notin WaitingPlace
    BY DEF NextPlace, WaitingPlace
  <1> QED
    BY <1>1, <1>2, <1>3, <1>4, OneMoves

LockTypes == RegistryType /\ ThreadType /\ EngineType /\ ManagerType /\ Places

LEMMA LoadersAre ==
  ASSUME Places, NEW t \in Thread, at[t] \in LoadSection \cup {"tries", "whispers"}
  PROVE  t \in {Loader} \cup Starter \cup Changing
  BY Roles DEF Places, LoadSection

LEMMA LoadKeepsLocks ==
  ASSUME LockTypes, LocksKept, NEW t \in Thread, LoadSteps(t)
  PROVE  LocksKept'
  <1> USE DEF LockTypes
  <1>1. /\ lazyLock = t => t \in Starter /\ at[t] \in LazySection
        /\ changeLock = t => t \in Changing /\ at[t] \in ChangeSection
    BY NobodyIsNone DEF LocksKept
  <1>2. t \in Changing => t \notin Starter /\ t # Loader
    BY Roles
  <1> DEFINE OthersHold == \A u \in Thread : u # t => held'[u] = held[u]
  <1>3. CASE Ensures(t) \/ Creates(t)
    <2>1. /\ lazyLock = t => AfterEnsure(t) = "revalidates"
          /\ changeLock = t => AfterEnsure(t) = "resolves"
      BY <1>1, <1>2, Roles DEF AfterEnsure, FallsBack
    <2>2. PICK p \in {"creates", AfterEnsure(t)} : at' = [at EXCEPT ![t] = p]
      BY <1>3 DEF Ensures, Creates, Goes
    <2>3. /\ at[t] \in {"ensures", "creates"}
          /\ UNCHANGED <<lazyLock, changeLock, loading, waiting>> /\ OthersHold
      BY <1>3 DEF Ensures, Creates, registryVars, engineVars, managerVars
    <2>4. p \notin WaitingPlace
      BY <2>2, AfterEnsurePlace DEF WaitingPlace
    <2> QED
      BY <2>1, <2>2, <2>3, <2>4, LocksStay DEF LazySection, ChangeSection, LoadSection, LookPlaces
  <1>4. CASE Resolves(t) \/ Tries(t)
    <2>1. PICK p \in {"failed", "locks", "whispers"} : at' = [at EXCEPT ![t] = p]
      BY <1>4 DEF Resolves, Tries, GoesWith, Goes
    <2>2. /\ at[t] \in {"resolves", "tries"} /\ (at[t] = "resolves" => p # "whispers")
          /\ UNCHANGED <<lazyLock, changeLock, loading, waiting>> /\ OthersHold
      BY <1>4, <2>1 DEF Resolves, Tries, GoesWith, Goes, registryVars, engineVars, managerVars, ThreadType
    <2> QED
      BY <1>1, <2>1, <2>2, LocksStay
      DEF LazySection, ChangeSection, LoadSection, LookPlaces, WaitingPlace
  <1>5. CASE Locks(t)
    <2>1. PICK p \in {"counts", "loads"} : at' = [at EXCEPT ![t] = p]
      BY <1>5 DEF Locks, Goes
    <2>2. /\ at[t] = "locks" /\ UNCHANGED <<lazyLock, changeLock, waiting, held>>
          /\ loading' = loading \/ (p = "loads" /\ loading' = [loading EXCEPT ![held[t]] = t])
      BY <1>5, <2>1 DEF Locks, Goes, registryVars, managerVars, ThreadType
    <2>3. \A e \in Engine : loading[e] # t
      BY <2>2, NobodyIsNone DEF LocksKept
    <2>4. \A e \in Engine : /\ loading'[e] \in {loading[e], t}
                            /\ loading'[e] = t => p = "loads" /\ held'[t] = e
      BY <2>2, <2>3 DEF EngineType
    <2>5. waiting # t
      BY <2>2, NobodyIsNone DEF LocksKept, LookPlaces
    <2> QED
      BY <1>1, <2>1, <2>2, <2>4, <2>5, OneMoves
      DEF LazySection, ChangeSection, LoadSection, LookPlaces, WaitingPlace
  <1>6. CASE Counts(t) \/ Drops(t) \/ Whispers(t) \/ Ejects(t)
    <2>1. PICK p \in {"succeeded", "drops", "whispers", "failed", "forgets"} : at' = [at EXCEPT ![t] = p]
      BY <1>6 DEF Counts, Drops, Whispers, Ejects, Goes
    <2>2. /\ at[t] \in {"counts", "misses", "drops", "whispers", "ejects"}
          /\ p = "whispers" => at[t] = "drops" /\ FallsBack(t)
          /\ UNCHANGED <<lazyLock, changeLock, loading, waiting>> /\ OthersHold
      BY <1>6, <2>1 DEF Counts, Drops, Whispers, Ejects, Goes, registryVars, engineVars, managerVars, ThreadType
    <2>3. lazyLock = t \/ changeLock = t => ~FallsBack(t)
      BY <1>1, <1>2, Roles DEF FallsBack
    <2> QED
      BY <1>1, <2>1, <2>2, <2>3, LocksStay
      DEF LazySection, ChangeSection, LoadSection, LookPlaces, WaitingPlace
  <1>7. CASE Succeeds(t)
    <2>1. at[t] = "succeeded" /\ UNCHANGED <<loading, waiting>> /\ OthersHold
      BY <1>7 DEF Succeeds, engineVars, GoesWith, ThreadType
    <2>2. CASE Concludes(t)
      BY <2>1, <2>2, LoadersAre, LocksReturn DEF LoadSection, LookPlaces
    <2>3. CASE ~Concludes(t)
      <3>1. PICK p \in {"forgets", "ejects"} : at' = [at EXCEPT ![t] = p]
        BY <1>7, <2>3 DEF Succeeds, GoesWith, Goes
      <3>2. UNCHANGED <<lazyLock, changeLock>>
        BY <1>7, <2>3 DEF Succeeds
      <3> QED
        BY <1>1, <2>1, <3>1, <3>2, LocksStay
        DEF LazySection, ChangeSection, LoadSection, LookPlaces, WaitingPlace
    <2> QED
      BY <2>2, <2>3
  <1>8. CASE Forgets(t)
    <2>1. at[t] = "forgets" /\ UNCHANGED <<loading, waiting, held>> /\ Concludes(t)
      BY <1>8 DEF Forgets, engineVars
    <2> QED
      BY <2>1, LoadersAre, LocksReturn DEF LoadSection, LookPlaces
  <1>9. CASE Fails(t)
    <2>1. at[t] = "failed" /\ UNCHANGED <<loading, waiting, held>>
      BY <1>9 DEF Fails, engineVars, registryVars
    <2>2. CASE Concludes(t)
      BY <2>1, <2>2, LoadersAre, LocksReturn DEF LoadSection, LookPlaces
    <2>3. CASE ~Concludes(t)
      <3>1. at' = [at EXCEPT ![t] = "succeeded"] /\ UNCHANGED <<lazyLock, changeLock>>
        BY <1>9, <2>3 DEF Fails, Goes
      <3> QED
        BY <1>1, <2>1, <3>1, LocksStay
        DEF LazySection, ChangeSection, LoadSection, LookPlaces, WaitingPlace
    <2> QED
      BY <2>2, <2>3
  <1> QED
    BY <1>3, <1>4, <1>5, <1>6, <1>7, <1>8, <1>9 DEF LoadSteps

LEMMA LoadEndKeepsLocks ==
  ASSUME LockTypes, LocksKept, NEW t \in Thread, LoadEnds(t)
  PROVE  LocksKept'
  <1> USE DEF LockTypes
  <1>1. PICK p \in {"counts", "misses", "failed"} : at' = [at EXCEPT ![t] = p]
    BY DEF LoadEnds, LoadReturns, LoadRaises, LoadIsRefused, Goes
  <1>2. /\ at[t] = "loads" /\ loading' = [loading EXCEPT ![held[t]] = None]
        /\ UNCHANGED <<lazyLock, changeLock, waiting, held>>
    BY DEF LoadEnds, LoadReturns, LoadRaises, LoadIsRefused, EndsLoad, registryVars, managerVars
  <1>3. \A e \in Engine : loading'[e] \in {None, loading[e]} /\ loading'[e] # t
    BY <1>2, NobodyIsNone DEF EngineType, LocksKept
  <1>4. /\ lazyLock = t => t \in Starter
        /\ changeLock = t => t \in Changing
        /\ waiting # t
    BY <1>2, NobodyIsNone DEF LocksKept, LookPlaces
  <1> QED
    BY <1>1, <1>2, <1>3, <1>4, OneMoves DEF LazySection, ChangeSection, LoadSection, WaitingPlace

(* Several threads go on that keep nothing.                                  *)
LEMMA LocksUntouched ==
  ASSUME LockTypes, LocksKept, UNCHANGED <<lazyLock, changeLock, loading, held, env>>,
         waiting' \in {None, waiting}, at' \in [Thread -> Place],
         \A u \in Thread : \/ at'[u] = at[u]
                           \/ /\ u # lazyLock /\ u # changeLock /\ at[u] # "loads"
                              /\ u = waiting' => at'[u] \in LookPlaces
                              /\ u = Loader => at'[u] \notin WaitingPlace
  PROVE  LocksKept'
  <1> USE DEF LockTypes
  <1>1. lazyLock # None => lazyLock \in Thread /\ at'[lazyLock] = at[lazyLock]
    BY Threads DEF LocksKept, ManagerType
  <1>2. changeLock # None => changeLock \in Thread /\ at'[changeLock] = at[changeLock]
    BY Threads DEF LocksKept, ManagerType
  <1>3. \A e \in Engine : loading[e] # None => loading[e] \in Thread /\ at'[loading[e]] = at[loading[e]]
    BY DEF LocksKept, EngineType
  <1>4. waiting' # None => at'[waiting'] \in LookPlaces
    BY DEF LocksKept, RegistryType
  <1>5. at'[Loader] \notin WaitingPlace
    BY Threads DEF LocksKept
  <1> QED
    BY <1>1, <1>2, <1>3, <1>4, <1>5 DEF LocksKept

LEMMA ChangeKeepsLocks ==
  ASSUME LockTypes, LocksKept, NEW t \in Changing, ChangeSteps(t)
  PROVE  LocksKept'
  <1> USE DEF LockTypes
  <1>1. t \in Thread /\ t # Loader /\ t \notin Starter /\ lazyLock # t
    BY Roles, NobodyIsNone DEF LocksKept
  <1>2. CASE Enters(t)
    <2>1. /\ at[t] = "enters" /\ UNCHANGED <<loading, waiting>>
          /\ \A u \in Thread : u # t => held'[u] = held[u]
      BY <1>2 DEF Enters, engineVars, GoesWith, ThreadType
    <2>2. CASE Concludes(t)
      BY <1>1, <2>1, <2>2, LocksReturn DEF LookPlaces
    <2>3. CASE ~Concludes(t)
      <3>1. PICK p \in {"unregisters", "unloads"} : at' = [at EXCEPT ![t] = p]
        BY <1>2, <2>3 DEF Enters, GoesWith, Goes
      <3>2. changeLock' = t /\ UNCHANGED lazyLock
        BY <1>2, <2>3 DEF Enters
      <3>3. waiting # t /\ \A e \in Engine : loading[e] # t
        BY <1>1, <2>1, NobodyIsNone DEF LocksKept, LookPlaces
      <3> QED
        BY <1>1, <2>1, <3>1, <3>2, <3>3, OneMoves DEF ChangeSection
    <2> QED
      BY <2>2, <2>3
  <1>3. CASE UnloadsOld(t) \/ UnregistersOld(t)
    <2>1. PICK p \in {"unregisters", "ensures"} : at' = [at EXCEPT ![t] = p]
      BY <1>3 DEF UnloadsOld, UnregistersOld, GoesWith, Goes
    <2>2. /\ at[t] \in {"unloads", "unregisters"} /\ UNCHANGED <<lazyLock, changeLock, loading, waiting>>
          /\ \A u \in Thread : u # t => held'[u] = held[u]
      BY <1>3 DEF UnloadsOld, UnregistersOld, GoesWith, registryVars, engineVars, managerVars, ThreadType
    <2> QED
      BY <1>1, <2>1, <2>2, LocksStay DEF ChangeSection, LoadSection, LookPlaces
  <1> QED
    BY <1>2, <1>3 DEF ChangeSteps

LEMMA RequestsKeepLocks ==
  ASSUME LockTypes, LocksKept, NEW c \in Changer, NEW b \in Backend,
         RequestsModel(c, b) \/ RequestsBackend(c, b)
  PROVE  LocksKept'
  <1> USE DEF LockTypes
  <1>1. c \in Thread /\ c # Loader
    BY Roles
  <1>2. at[c] = "off" /\ UNCHANGED <<lazyLock, changeLock, loading, waiting, held>>
    BY DEF RequestsModel, RequestsBackend, Requests, engineVars
  <1>3. PICK p \in {"enters", "spent"} : at' = [at EXCEPT ![c] = p]
    BY DEF RequestsModel, RequestsBackend, Goes
  <1>4. lazyLock # c /\ changeLock # c
    BY <1>1, <1>2, NobodyIsNone DEF LocksKept, LazySection, ChangeSection, LoadSection
  <1> QED
    BY <1>1, <1>2, <1>3, <1>4, LocksStay DEF LookPlaces

LEMMA StarterKeepsLocks ==
  ASSUME LockTypes, LocksKept, NEW t \in Starter, StarterSteps(t)
  PROVE  LocksKept'
  <1> USE DEF LockTypes
  <1>1. t \in Thread /\ t # Loader /\ changeLock # t
    BY Roles, NobodyIsNone DEF LocksKept
  <1>2. at[t] \notin LazySection => lazyLock # t
    BY <1>1, NobodyIsNone DEF LocksKept
  <1> DEFINE OthersHold == \A u \in Thread : u # t => held'[u] = held[u]
  <1>3. CASE StarterAsks(t) \/ Joins(t) \/ Replaces(t)
    <2>1. PICK p \in Place : at' = [at EXCEPT ![t] = p]
      BY <1>3 DEF StarterAsks, Joins, Replaces, Goes, Place
    <2>2. /\ at[t] \in {"asks", "joins", "replaces"}
          /\ UNCHANGED <<lazyLock, changeLock, loading, waiting, held>>
      BY <1>3 DEF StarterAsks, Joins, Replaces, registryVars, engineVars, managerVars
    <2> QED
      BY <1>1, <1>2, <2>1, <2>2, LocksStay DEF LazySection, LoadSection, LookPlaces
  <1>4. CASE StarterEnters(t)
    <2>1. /\ at[t] = "lazy" /\ at' = [at EXCEPT ![t] = "ensures"] /\ lazyLock' = t
          /\ UNCHANGED <<changeLock, loading, waiting, held>>
      BY <1>4 DEF StarterEnters, Goes, registryVars, engineVars
    <2>2. waiting # t /\ \A e \in Engine : loading[e] # t
      BY <1>1, <2>1, NobodyIsNone DEF LocksKept, LookPlaces
    <2> QED
      BY <1>1, <2>1, <2>2, OneMoves DEF LazySection, LoadSection
  <1>5. CASE Revalidates(t)
    <2>1. PICK p \in {"ensures", "checks"} : at' = [at EXCEPT ![t] = p]
      BY <1>5 DEF Revalidates, GoesWith, Goes
    <2>2. /\ at[t] = "revalidates" /\ UNCHANGED <<lazyLock, changeLock, loading, waiting>> /\ OthersHold
      BY <1>5 DEF Revalidates, GoesWith, registryVars, engineVars, managerVars, ThreadType
    <2> QED
      BY <1>1, <2>1, <2>2, LocksStay DEF LazySection, LoadSection, LookPlaces
  <1>6. CASE Checks(t)
    <2>1. at[t] = "checks" /\ UNCHANGED <<loading, waiting, held>>
      BY <1>6 DEF Checks, registryVars, engineVars
    <2>2. CASE Concludes(t)
      BY <1>1, <2>1, <2>2, LocksReturn DEF LookPlaces
    <2>3. CASE ~Concludes(t)
      <3>1. at' = [at EXCEPT ![t] = "resolves"] /\ UNCHANGED <<lazyLock, changeLock>>
        BY <1>6, <2>3 DEF Checks, Goes
      <3> QED
        BY <1>1, <2>1, <3>1, LocksStay DEF LazySection, LoadSection, LookPlaces
    <2> QED
      BY <2>2, <2>3
  <1>7. CASE Verifies(t) \/ Judges(t)
    <2>1. PICK p \in {"replaces", "off"} : at' = [at EXCEPT ![t] = p]
      BY <1>7 DEF Verifies, Judges, Goes
    <2>2. /\ at[t] \in {"verifies", "judges"} /\ UNCHANGED <<lazyLock, changeLock, loading, held>>
          /\ waiting' \in {None, waiting} /\ waiting' # t
      BY <1>1, <1>7, NobodyIsNone DEF Verifies, Judges, Looks, engineVars, managerVars
    <2>3. lazyLock # t /\ \A e \in Engine : loading[e] # t
      BY <1>1, <1>2, <2>2, NobodyIsNone DEF LocksKept, LazySection, LoadSection
    <2> QED
      BY <1>1, <2>1, <2>2, <2>3, OneMoves
  <1> QED
    BY <1>3, <1>4, <1>5, <1>6, <1>7 DEF StarterSteps

LEMMA TranscriberKeepsLocks ==
  ASSUME LockTypes, LocksKept, NEW t \in Transcriber, TranscriberSteps(t) \/ InferenceEnds(t)
  PROVE  LocksKept'
  <1> USE DEF LockTypes
  <1>1. t \in Thread /\ t # Loader /\ changeLock # t /\ lazyLock # t
    BY Roles, NobodyIsNone DEF LocksKept
  <1>2. PICK p \in Place : at' = [at EXCEPT ![t] = p]
    BY DEF TranscriberSteps, TranscriberLooks, Joins, TranscriberRereads, TranscriberGivesUp, Marks,
           Calls, Unmarks, Touches, InferenceEnds, GoesWith, Goes, Loses, Place
  <1>3. /\ UNCHANGED <<lazyLock, changeLock, loading>>
        /\ \A u \in Thread : u # t => held'[u] = held[u]
        /\ waiting' = None \/ (waiting' = waiting /\ at[t] \notin LookPlaces)
    BY DEF TranscriberSteps, TranscriberLooks, Joins, TranscriberRereads, TranscriberGivesUp, Marks,
           Calls, Unmarks, Touches, InferenceEnds, GoesWith, Looks, LookPlaces, ThreadType,
           registryVars, engineVars, managerVars
  <1>4. at[t] # "loads"
    BY DEF Places
  <1> QED
    BY <1>1, <1>2, <1>3, <1>4, LocksStay

(* A start worker is at rest until its dictation starts.                     *)
Unstarted ==
    \A n \in 1..MaxStarts :
        n > starts \/ (n = starts /\ at[Hotkey] # "off") => at[<<"starter", n>>] = "off"

LEMMA NoneStarts ==
  ASSUME Unstarted, starts' = starts, at[Hotkey] = "off" => at'[Hotkey] = "off",
         \A s \in Starter : at[s] = "off" => at'[s] = "off"
  PROVE  Unstarted'
  BY DEF Unstarted, Starter

LEMMA UnstartedStays ==
  ASSUME LockTypes, DictationType, Unstarted, EngineManagerNext
  PROVE  Unstarted'
  <1> USE DEF LockTypes
  <1> DEFINE Moves(t) == /\ starts' = starts /\ at[t] # "off"
                         /\ \E p \in Place : at' = [at EXCEPT ![t] = p]
  <1>1. \A t \in Thread : Moves(t) => Unstarted'
    BY Roles, NoneStarts DEF ThreadType
  <1>2. ASSUME UNCHANGED <<starts, at>> PROVE Unstarted'
    BY <1>2, NoneStarts
  <1>3. CASE \E t \in Thread : Waits(t)
    BY <1>2, <1>3 DEF Waits, dictationVars, threadVars
  <1>4. ASSUME NEW t \in Thread, LoadSteps(t) PROVE Unstarted'
    <2>1. t \in MayLoad
      BY <1>4, Roles DEF LoadSteps, Ensures, Creates, Resolves, Tries, Locks, Counts, Drops, Whispers, Succeeds,
                  Ejects, Forgets, Fails, Places, MayLoad
    <2>2. NextPlace(t) \in Place /\ AfterEnsure(t) \in Place
      BY <2>1, NextPlaces, AfterEnsurePlace DEF Place
    <2>3. at[t] # "off" /\ starts' = starts
      BY <1>4 DEF LoadSteps, Ensures, Creates, Resolves, Tries, Locks, Counts, Drops, Whispers, Succeeds,
                  Ejects, Forgets, Fails, dictationVars
    <2>4. \E p \in Place : at' = [at EXCEPT ![t] = p]
      <3>1. CASE Ensures(t) \/ Creates(t)
        BY <3>1, <2>2 DEF Ensures, Creates, Goes, Place
      <3>2. CASE Succeeds(t) \/ Forgets(t) \/ Fails(t)
        BY <3>2, <2>2 DEF Succeeds, Forgets, Fails, Concludes, GoesWith, Goes, Place
      <3>3. CASE ~(Ensures(t) \/ Creates(t) \/ Succeeds(t) \/ Forgets(t) \/ Fails(t))
        BY <3>3, <1>4 DEF LoadSteps, Resolves, Tries, Locks, Counts, Drops, Whispers, Ejects, GoesWith, Goes, Place
      <3> QED
        BY <3>1, <3>2, <3>3
    <2> QED
      BY <1>1, <2>3, <2>4
  <1>5. ASSUME NEW t \in Thread, LoadEnds(t) PROVE Unstarted'
    BY <1>1, <1>5 DEF LoadEnds, LoadReturns, LoadRaises, LoadIsRefused, EndsLoad, Goes, dictationVars, Place
  <1>6. CASE LoaderEnds
    <2>2. \A s \in Starter : at'[s] = at[s]
      BY <1>6, Roles DEF LoaderEnds, Goes, ThreadType
    <2>3. (at'[Hotkey] = at[Hotkey] /\ starts' = starts) \/ starts' = starts + 1
      BY <1>6, Roles DEF LoaderEnds, Goes, ThreadType
    <2>4. CASE starts' = starts + 1
      <3>1. \A n \in 1..MaxStarts : n > starts => at[<<"starter", n>>] = "off"
        BY DEF Unstarted
      <3>2. starts \in Nat
        BY Constants DEF DictationType
      <3> QED
        BY <2>2, <2>4, <3>1, <3>2, Constants DEF Unstarted, Starter
    <2> QED
      BY <2>2, <2>3, <2>4, NoneStarts
  <1>7. ASSUME NEW c \in Changer, NEW b \in Backend, RequestsModel(c, b) \/ RequestsBackend(c, b) PROVE Unstarted'
    <2>1. starts' = starts /\ \E p : at' = [at EXCEPT ![c] = p]
      BY <1>7 DEF RequestsModel, RequestsBackend, Requests, Goes, dictationVars
    <2>2. c \in Thread /\ c # Hotkey /\ c \notin Starter
      BY Roles
    <2> QED
      BY <2>1, <2>2, Roles, NoneStarts DEF ThreadType
  <1>8. ASSUME NEW t \in Changing, ChangeSteps(t) PROVE Unstarted'
    <2>1. t \in Thread /\ t \in MayLoad
      BY Roles DEF MayLoad
    <2>2. at[t] # "off" /\ starts' = starts
      BY <1>8 DEF ChangeSteps, Enters, UnloadsOld, UnregistersOld, dictationVars
    <2>3. \E p \in Place : at' = [at EXCEPT ![t] = p]
      BY <1>8, <2>1, NextPlaces DEF ChangeSteps, Enters, UnloadsOld, UnregistersOld, Concludes, GoesWith, Goes, Place
    <2> QED
      BY <1>1, <2>1, <2>2, <2>3
  <1>9. CASE HotkeyPresses
    <2>1. starts \in Nat /\ starts' = starts + 1 /\ at' = [at EXCEPT ![Hotkey] = "looks"]
      BY <1>9, Constants DEF HotkeyPresses, Goes, DictationType
    <2>2. \A s \in Starter : at'[s] = at[s]
      BY <2>1, Roles DEF ThreadType
    <2> QED
      BY <2>1, <2>2, Constants DEF Unstarted, Starter
  <1>10. CASE HotkeyLooks
    <2>1. at[Hotkey] = "looks" /\ starts' = starts /\ \A s \in Starter : at'[s] = at[s]
      BY <1>10, Roles DEF HotkeyLooks, Goes, ThreadType, dictationVars
    <2> QED
      BY <2>1, NoneStarts
  <1>11. CASE HotkeyApplies
    <2>1. CASE Goes(Hotkey, "enters")
      BY <1>1, <1>11, <2>1, Roles DEF HotkeyApplies, Goes, Place
    <2>2. CASE at' = [at EXCEPT ![Hotkey] = "off", ![<<"starter", starts>>] = "asks"]
      <3>1. \A n \in 1..MaxStarts : n # starts => at'[<<"starter", n>>] = at[<<"starter", n>>]
        BY <2>2, Roles DEF ThreadType, Starter
      <3>2. at'[Hotkey] = "off"
        BY <2>2, Roles DEF ThreadType, Hotkey
      <3>3. starts' = starts
        BY <1>11 DEF HotkeyApplies
      <3> QED
        BY <3>1, <3>2, <3>3 DEF Unstarted
    <2> QED
      BY <1>11, <2>1, <2>2 DEF HotkeyApplies
  <1>12. CASE HotkeyStops
    <2>1. starts' = starts /\ at' = [at EXCEPT ![<<"transcriber", starts>>] = "looks"]
      BY <1>12 DEF HotkeyStops, Goes
    <2>2. <<"transcriber", starts>> # Hotkey /\ <<"transcriber", starts>> \notin Starter
      BY DEF Hotkey, Starter
    <2> QED
      BY <2>1, <2>2, Roles, NoneStarts DEF ThreadType
  <1>13. ASSUME NEW t \in Starter, StarterSteps(t) PROVE Unstarted'
    <2>1. t \in Thread /\ t \in MayLoad
      BY Roles DEF MayLoad
    <2>2. at[t] # "off" /\ starts' = starts
      BY <1>13 DEF StarterSteps, StarterAsks, Joins, StarterEnters, Revalidates, Checks, Verifies, Replaces, Judges,
                   dictationVars
    <2>3. \E p \in Place : at' = [at EXCEPT ![t] = p]
      <3>1. CASE Checks(t)
        BY <3>1, <2>1, NextPlaces DEF Checks, Concludes, Goes, Place
      <3>2. CASE ~Checks(t)
        BY <3>2, <1>13 DEF StarterSteps, StarterAsks, Joins, StarterEnters, Revalidates, Verifies, Replaces, Judges,
                           GoesWith, Goes, Place
      <3> QED
        BY <3>1, <3>2
    <2> QED
      BY <1>1, <2>1, <2>2, <2>3
  <1>14. ASSUME NEW t \in Transcriber, TranscriberSteps(t) \/ InferenceEnds(t) PROVE Unstarted'
    <2>1. t \in Thread
      BY Roles
    <2>2. at[t] # "off" /\ starts' = starts
      BY <1>14 DEF TranscriberSteps, TranscriberLooks, Joins, TranscriberRereads, TranscriberGivesUp, Marks,
           Calls, Unmarks, Touches, InferenceEnds, dictationVars
    <2>3. \E p \in Place : at' = [at EXCEPT ![t] = p]
      BY <1>14 DEF TranscriberSteps, TranscriberLooks, Joins, TranscriberRereads, TranscriberGivesUp, Marks,
           Calls, Unmarks, Touches, InferenceEnds, GoesWith, Goes, Loses, Place
    <2> QED
      BY <1>1, <2>1, <2>2, <2>3
  <1>15. ASSUME NEW t \in Transcriber, Recovers(t) PROVE Unstarted'
    BY <1>2, <1>15 DEF Recovers, threadVars
  <1>16. CASE IdleTimePasses \/ IdlerSteps
    <2>1. starts' = starts /\ \E p : at' = [at EXCEPT ![Idler] = p]
      BY <1>16 DEF IdleTimePasses, IdlerSteps, IdlerLooks, IdlerUnloads, GoesWith, Goes, dictationVars
    <2> QED
      BY <2>1, Roles, NoneStarts DEF ThreadType
  <1> QED
    BY <1>3, <1>4, <1>5, <1>6, <1>7, <1>8, <1>9, <1>10, <1>11, <1>12, <1>13, <1>14, <1>15, <1>16
    DEF EngineManagerNext

(* The hotkey starts a worker, a loader or a transcription.                  *)
LEMMA HotkeyKeepsLocks ==
  ASSUME LockTypes, DictationType, LocksKept, Unstarted,
         LoaderEnds \/ HotkeyPresses \/ HotkeyLooks \/ HotkeyApplies \/ HotkeyStops,
         at' \in [Thread -> Place]
  PROVE  LocksKept'
  <1> USE DEF LockTypes
  <1>1. /\ UNCHANGED <<lazyLock, changeLock, loading, held, env>>
        /\ waiting' \in {None, waiting}
    BY DEF LoaderEnds, HotkeyPresses, HotkeyLooks, HotkeyApplies, HotkeyStops, Looks, registryVars, engineVars,
           managerVars
  <1>2. \A u \in Thread : at[u] \notin LazySection \cup ChangeSection => u # lazyLock /\ u # changeLock
    BY NobodyIsNone DEF LocksKept
  <1>3. \A u \in Thread : at[u] \notin LookPlaces => u # waiting
    BY NobodyIsNone DEF LocksKept
  <1> DEFINE Free(u, p) == /\ u # lazyLock /\ u # changeLock /\ at[u] # "loads"
                           /\ u = waiting' => p \in LookPlaces
                           /\ u = Loader => p \notin WaitingPlace
  <1> USE DEF LazySection, ChangeSection, LoadSection, LookPlaces, WaitingPlace
  <1>4. CASE LoaderEnds
    <2>1. at[Loader] = "finishes" /\ UNCHANGED waiting
      BY <1>4 DEF LoaderEnds, registryVars
    <2>2. Free(Loader, "off") /\ (at[Hotkey] = "off" => Free(Hotkey, "applies"))
      BY <1>2, <1>3, <2>1, Roles
    <2>3. \A u \in Thread : \/ at'[u] = at[u]
                            \/ (u = Loader /\ at'[u] = "off")
                            \/ (u = Hotkey /\ at[Hotkey] = "off" /\ at'[u] = "applies")
      BY <1>4, Roles DEF LoaderEnds, Goes, ThreadType
    <2> QED
      BY <1>1, <2>2, <2>3, LocksUntouched
  <1>5. CASE HotkeyPresses
    <2>1. at[Hotkey] = "off" /\ at' = [at EXCEPT ![Hotkey] = "looks"]
      BY <1>5 DEF HotkeyPresses, Goes
    <2>2. Free(Hotkey, "looks")
      BY <1>2, <2>1, Roles
    <2>3. \A u \in Thread : at'[u] = at[u] \/ (u = Hotkey /\ at'[u] = "looks")
      BY <2>1 DEF ThreadType
    <2> QED
      BY <1>1, <2>2, <2>3, LocksUntouched
  <1>6. CASE HotkeyLooks
    <2>1. at[Hotkey] = "looks" /\ waiting' = None
      BY <1>6 DEF HotkeyLooks, Looks
    <2>2. Free(Hotkey, "applies") /\ (at[Loader] = "off" => Free(Loader, "ensures"))
      BY <1>2, <2>1, NobodyIsNone, Roles
    <2>3. \A u \in Thread : \/ at'[u] = at[u]
                            \/ (u = Hotkey /\ at'[u] = "applies")
                            \/ (u = Loader /\ at[Loader] = "off" /\ at'[u] = "ensures")
      BY <1>6, Roles DEF HotkeyLooks, Goes, ThreadType
    <2> QED
      BY <1>1, <2>2, <2>3, LocksUntouched
  <1>7. CASE HotkeyApplies
    <2> DEFINE s == <<"starter", starts>>
    <2>1. at[Hotkey] = "applies" /\ UNCHANGED waiting
      BY <1>7 DEF HotkeyApplies, registryVars
    <2>2. s \in Thread => s \in Starter /\ starts \in 1..MaxStarts
      BY DEF Thread, Starter, Loader, Hotkey, Idler, Transcriber, Changer
    <2>3. s \in Thread => at[s] = "off"
      BY <2>1, <2>2 DEF Unstarted
    <2>4. Free(Hotkey, "enters") /\ Free(Hotkey, "off") /\ (s \in Thread => Free(s, "asks"))
      BY <1>2, <1>3, <2>1, <2>2, <2>3, Roles
    <2>5. \A u \in Thread : \/ at'[u] = at[u]
                            \/ (u = Hotkey /\ at'[u] \in {"enters", "off"})
                            \/ (u = s /\ at'[u] = "asks")
      BY <1>7, Roles DEF HotkeyApplies, Goes, ThreadType
    <2> QED
      BY <1>1, <2>4, <2>5, LocksUntouched
  <1>8. CASE HotkeyStops
    <2> DEFINE s == <<"transcriber", starts>>
    <2>1. at' = [at EXCEPT ![s] = "looks"]
      BY <1>8 DEF HotkeyStops, Goes
    <2>2. s \in Thread => s \in Transcriber
      BY DEF Thread, Starter, Loader, Hotkey, Idler, Transcriber, Changer
    <2>3. s \in Thread => Free(s, "looks")
      <3> HAVE s \in Thread
      <3>1. s # lazyLock /\ s # changeLock /\ s # Loader
        BY <2>2, Roles, NobodyIsNone DEF LocksKept
      <3>2. at[s] # "loads"
        BY <2>2 DEF Places
      <3> QED
        BY <3>1, <3>2
    <2>4. \A u \in Thread : at'[u] = at[u] \/ (u = s /\ at'[u] = "looks")
      BY <2>1 DEF ThreadType
    <2> QED
      BY <1>1, <2>3, <2>4, LocksUntouched
  <1> QED
    BY <1>4, <1>5, <1>6, <1>7, <1>8

LEMMA IdlerKeepsLocks ==
  ASSUME LockTypes, LocksKept, IdleTimePasses \/ IdlerSteps
  PROVE  LocksKept'
  <1> USE DEF LockTypes
  <1>1. Idler \in Thread /\ Idler # Loader /\ lazyLock # Idler /\ changeLock # Idler
    BY Roles, NobodyIsNone DEF LocksKept
  <1>2. PICK p : at' = [at EXCEPT ![Idler] = p]
    BY DEF IdleTimePasses, IdlerSteps, IdlerLooks, IdlerUnloads, GoesWith, Goes
  <1>3. /\ UNCHANGED <<lazyLock, changeLock, loading>> /\ at[Idler] # "loads"
        /\ \A u \in Thread : u # Idler => held'[u] = held[u]
        /\ waiting' = None \/ (waiting' = waiting /\ at[Idler] \notin LookPlaces)
    BY DEF IdleTimePasses, IdlerSteps, IdlerLooks, IdlerUnloads, GoesWith, Looks, LookPlaces, ThreadType,
           registryVars, engineVars, managerVars
  <1> QED
    BY <1>1, <1>2, <1>3, LocksStay

LEMMA WaitsKeepsLocks ==
  ASSUME LockTypes, LocksKept, NEW t \in Thread, Waits(t)
  PROVE  LocksKept'
  BY DEF Waits, LocksKept, LockTypes, engineVars, managerVars, threadVars

LockInv == LocksKept /\ Unstarted

LEMMA InitLocks == EngineManagerInit => LockInv
  <1> SUFFICES ASSUME EngineManagerInit PROVE LockInv
    OBVIOUS
  <1> QED
    BY Threads, NobodyIsNone DEF EngineManagerInit, LockInv, LocksKept, Unstarted, WaitingPlace, Starter

LEMMA StepLocks == IInv /\ IInv' /\ LockInv /\ [EngineManagerNext]_engineManagerVars => LockInv'
  <1> SUFFICES ASSUME IInv, IInv', LockInv, [EngineManagerNext]_engineManagerVars PROVE LockInv'
    OBVIOUS
  <1> USE DEF LockInv
  <1>1. LockTypes /\ DictationType /\ at' \in [Thread -> Place]
    BY DEF IInv, EngineManagerTypeOK, LockTypes, ThreadType
  <1>2. CASE UNCHANGED engineManagerVars
    BY <1>2 DEF LocksKept, Unstarted, engineManagerVars, registryVars, engineVars, managerVars,
                dictationVars, threadVars
  <1>3. CASE EngineManagerNext
    <2>1. Unstarted'
      BY <1>1, <1>3, UnstartedStays
    <2>2. ASSUME NEW t \in Thread, Waits(t) \/ LoadSteps(t) \/ LoadEnds(t) PROVE LocksKept'
      BY <1>1, <2>2, WaitsKeepsLocks, LoadKeepsLocks, LoadEndKeepsLocks
    <2>3. ASSUME NEW t \in Transcriber, Recovers(t) PROVE LocksKept'
      BY <2>3 DEF Recovers, LocksKept, engineVars, managerVars, threadVars
    <2> QED
      BY <1>1, <1>3, <2>1, <2>2, <2>3, RequestsKeepLocks, ChangeKeepsLocks, HotkeyKeepsLocks,
         StarterKeepsLocks, TranscriberKeepsLocks, IdlerKeepsLocks
      DEF EngineManagerNext
  <1> QED
    BY <1>2, <1>3

LEMMA LocksAlwaysKept == EngineManagerSpec => [](IInv /\ LockInv)
  BY InvariantHolds, InitLocks, StepLocks, PTL DEF EngineManagerSpec

-----------------------------------------------------------------------------
(* No circle of waits: who waits for a thread is of a higher rank than it.   *)

Rank(t) == IF at[t] \in {"loads", "infers"} THEN 0
           ELSE IF waiting = t THEN 1
           ELSE IF at[t] \in {"succeeded", "touches"} THEN 3
           ELSE IF at[t] \in WaitingPlace THEN 4 ELSE 2

LEMMA WaitsDownwards ==
  ASSUME LockTypes, LocksKept, NEW t \in Thread, NEW u \in Thread, WaitsFor(t, u)
  PROVE  Rank(u) < Rank(t)
  <1> USE DEF LockTypes
  <1> USE DEF Rank, WaitingPlace
  <1>1. u # None /\ (waiting = t => at[t] \in LookPlaces)
    BY NobodyIsNone DEF LocksKept
  <1>2. at[u] \in {"loads", "infers"} => Rank(u) = 0
    OBVIOUS
  <1>3. at[u] \notin WaitingPlace => Rank(u) \in 0..3
    OBVIOUS
  <1> USE DEF UnloadPlaces, LookPlaces
  <1>4. CASE AsksRegistry(t) /\ waiting = u /\ u # t
    <2>1. Rank(u) \in {0, 1}
      BY <1>4
    <2>2. at[t] \notin {"loads", "infers"} /\ waiting # t
      BY <1>4 DEF AsksRegistry, LooksUp
    <2> QED
      BY <2>1, <2>2
  <1>5. CASE LooksUp(t) /\ \E b \in Backend : Loading(registry[b]) /\ loading[registry[b]] = u
    <2>1. PICK b \in Backend : registry[b] \in Engine /\ loading[registry[b]] = u
      BY <1>5 DEF Loading, RegistryType
    <2>2. at[u] = "loads"
      BY <1>1, <2>1 DEF LocksKept
    <2> QED
      BY <1>2, <1>5, <2>2 DEF LooksUp
  <1>6. CASE at[t] \in UnloadPlaces \cup {"locks", "checks", "calls"} /\ Loading(held[t]) /\ loading[held[t]] = u
    <2>1. held[t] \in Engine /\ loading[held[t]] = u
      BY <1>6 DEF Loading, ThreadType
    <2>2. at[u] = "loads"
      BY <1>1, <2>1 DEF LocksKept
    <2> QED
      BY <1>2, <1>6, <2>2
  <1>7. CASE at[t] \in UnloadPlaces /\ at[u] = "infers"
    BY <1>2, <1>7
  <1>8. CASE at[t] \in {"succeeded", "touches"} /\ u # t /\ at[u] \in {"ejects", "forgets"}
    BY <1>1, <1>8
  <1>9. CASE at[t] = "lazy" /\ lazyLock = u
    <2>1. at[u] \in LazySection
      BY <1>1, <1>9 DEF LocksKept
    <2> QED
      BY <1>1, <1>3, <1>9, <2>1 DEF LazySection, LoadSection
  <1>10. CASE at[t] = "enters" /\ (changeLock = u \/ (u \in Changing /\ KeepsConfig(u)))
    <2>1. at[u] \in ChangeSection
      BY <1>1, <1>10 DEF LocksKept, KeepsConfig, ChangeSection, LoadSection
    <2> QED
      BY <1>1, <1>3, <1>10, <2>1 DEF ChangeSection, LoadSection
  <1>11. CASE at[t] = "joins" /\ u = Loader
    BY <1>1, <1>3, <1>11 DEF LocksKept
  <1> QED
    BY <1>4, <1>5, <1>6, <1>7, <1>8, <1>9, <1>10, <1>11 DEF WaitsFor

LEMMA LocksGiveOrder == LockTypes /\ LocksKept => NoCircularWait
  <1> SUFFICES ASSUME LockTypes, LocksKept, NEW threads \in SUBSET Thread, threads # {}
               PROVE  \E t \in threads : \A u \in threads : ~WaitsFor(t, u)
    BY DEF NoCircularWait
  <1>1. \A t \in threads : Rank(t) \in 0..4
    BY DEF Rank
  <1>2. PICK t \in threads : \A u \in threads : Rank(t) <= Rank(u)
    <2> DEFINE Has(n) == \E t \in threads : Rank(t) = n
    <2>1. Has(0) \/ Has(1) \/ Has(2) \/ Has(3) \/ Has(4)
      BY <1>1
    <2>2. CASE Has(0)
      BY <1>1, <2>2
    <2>3. CASE ~Has(0) /\ Has(1)
      BY <1>1, <2>3
    <2>4. CASE ~Has(0) /\ ~Has(1) /\ Has(2)
      BY <1>1, <2>4
    <2>5. CASE ~Has(0) /\ ~Has(1) /\ ~Has(2) /\ Has(3)
      BY <1>1, <2>5
    <2>6. CASE ~Has(0) /\ ~Has(1) /\ ~Has(2) /\ ~Has(3)
      BY <1>1, <2>1, <2>6
    <2> QED
      BY <2>1, <2>2, <2>3, <2>4, <2>5, <2>6
  <1> QED
    BY <1>1, <1>2, WaitsDownwards

(* Whoever asks for an engine, loads, changes or unloads one, and whatever   *)
(* locks each keeps meanwhile - the registry's while it waits for a load's,  *)
(* that of the start workers through a whole load, those of a change, that   *)
(* of the access times through an unload: they never wait in a circle.       *)
THEOREM NobodyWaitsInACircle == EngineManagerSpec => []NoCircularWait
  <1>1. IInv /\ LockInv => NoCircularWait
    BY LocksGiveOrder DEF IInv, EngineManagerTypeOK, LockInv, LockTypes
  <1> QED
    BY <1>1, LocksAlwaysKept, PTL

(* The guards of what a thread does next, the locks and the ends it waits    *)
(* for, are open to it.                                                      *)
Unhindered(t) ==
    /\ AsksRegistry(t) => RegistryFree(t)
    /\ LooksUp(t) => \E e \in Engine \cup {None} : Sees(e)
    /\ at[t] \in UnloadPlaces \cup {"locks", "checks", "calls"} => ~Loading(held[t])
    /\ at[t] \in UnloadPlaces => ~Inferring(held[t])
    /\ at[t] \in {"succeeded", "touches"} => RecencyFree(t)
    /\ at[t] = "lazy" => lazyLock = None
    /\ at[t] = "enters" => changeLock = None /\ ConfigFree
    /\ at[t] = "joins" => at[Loader] = "off"

SomebodyGoesOn ==
    (\E t \in Thread : ~Unhindered(t)) =>
        \E t, u \in Thread : ~Unhindered(t) /\ WaitsFor(t, u) /\ Unhindered(u)

(* A look fails only over the load of an engine that is registered.          *)
LEMMA WhatLooksWaitFor ==
  ASSUME RegistryType, EngineType, ~\E e \in Engine \cup {None} : Sees(e)
  PROVE  \E b \in Backend : Loading(registry[b])
  <1> SUFFICES ASSUME \A b \in Backend : ~Loading(registry[b]) PROVE \E e \in Engine \cup {None} : Sees(e)
    OBVIOUS
  <1> USE DEF RegistryType
  <1> DEFINE registered == {registry[b] : b \in Backend} \ {None}
  <1>1. config \in Backend /\ Whisper \in Backend /\ ~Loading(registry[config])
    BY Constants
  <1>2. CASE Ready(registry[config])
    BY <1>1, <1>2 DEF Sees
  <1>3. CASE ~Ready(registry[config]) /\ Ready(registry[Whisper])
    BY <1>1, <1>3 DEF Sees
  <1>4. CASE ~Ready(registry[config]) /\ ~Ready(registry[Whisper]) /\ registered = {}
    BY <1>1, <1>4 DEF Sees
  <1>5. CASE ~Ready(registry[config]) /\ ~Ready(registry[Whisper]) /\ registered # {}
    <2>1. PICK first \in registered : TRUE
      BY <1>5
    <2>2. ~Loading(first) /\ first \in Engine
      BY <2>1
    <2>3. Sees(IF Ready(first) THEN first ELSE None)
      BY <1>1, <1>5, <2>1, <2>2 DEF Sees
    <2> QED
      BY <2>2, <2>3
  <1> QED
    BY <1>2, <1>3, <1>4, <1>5

LEMMA WhoIsHinderedWaits ==
  ASSUME LockTypes, LocksKept, NEW t \in Thread, ~Unhindered(t)
  PROVE  \E u \in Thread : WaitsFor(t, u)
  <1> USE DEF LockTypes
  <1>1. CASE AsksRegistry(t) /\ ~RegistryFree(t)
    BY <1>1 DEF WaitsFor, RegistryFree, RegistryType
  <1>2. CASE LooksUp(t) /\ ~\E e \in Engine \cup {None} : Sees(e)
    <2>1. PICK b \in Backend : Loading(registry[b])
      BY <1>2, WhatLooksWaitFor
    <2>2. loading[registry[b]] \in Thread
      BY <2>1 DEF Loading, RegistryType, EngineType
    <2> QED
      BY <1>2, <2>1, <2>2 DEF WaitsFor
  <1>3. CASE at[t] \in UnloadPlaces \cup {"locks", "checks", "calls"} /\ Loading(held[t])
    <2>1. loading[held[t]] \in Thread
      BY <1>3 DEF Loading, ThreadType, EngineType
    <2> QED
      BY <1>3, <2>1 DEF WaitsFor
  <1>4. CASE at[t] \in UnloadPlaces /\ Inferring(held[t])
    BY <1>4, Threads DEF WaitsFor, Inferring
  <1>5. CASE at[t] \in {"succeeded", "touches"} /\ ~RecencyFree(t)
    BY <1>5 DEF WaitsFor, RecencyFree
  <1>6. CASE at[t] = "lazy" /\ lazyLock # None
    BY <1>6 DEF WaitsFor, ManagerType
  <1>7. CASE at[t] = "enters" /\ ~(changeLock = None /\ ConfigFree)
    BY <1>7, Threads DEF WaitsFor, ManagerType, ConfigFree
  <1>8. CASE at[t] = "joins" /\ at[Loader] # "off"
    BY <1>8, Threads DEF WaitsFor
  <1> QED
    BY <1>1, <1>2, <1>3, <1>4, <1>5, <1>6, <1>7, <1>8 DEF Unhindered

(* Whenever the guards hold back one of these threads, one that it waits for *)
(* can go on: the engine side never stands still with work to do, unless an  *)
(* inference or a load hangs.                                                *)
THEOREM SomebodyAlwaysGoesOn == EngineManagerSpec => []SomebodyGoesOn
  <1>1. IInv /\ LockInv => SomebodyGoesOn
    <2> SUFFICES ASSUME IInv, LockInv, \E t \in Thread : ~Unhindered(t)
                 PROVE  \E t, u \in Thread : ~Unhindered(t) /\ WaitsFor(t, u) /\ Unhindered(u)
      BY DEF SomebodyGoesOn
    <2>1. LockTypes /\ LocksKept
      BY DEF IInv, EngineManagerTypeOK, LockInv, LockTypes
    <2> DEFINE hindered == {t \in Thread : ~Unhindered(t)}
    <2>2. PICK t \in hindered : \A u \in hindered : ~WaitsFor(t, u)
      BY <2>1, LocksGiveOrder DEF NoCircularWait
    <2>3. PICK u \in Thread : WaitsFor(t, u)
      BY <2>1, <2>2, WhoIsHinderedWaits
    <2> QED
      BY <2>2, <2>3
  <1> QED
    BY <1>1, LocksAlwaysKept, PTL
==============================================================================
