----------------------------- MODULE EngineManager -----------------------------
\* The speech engines of the server: server/model_manager/ (load, change, idle
\* unload, forced unload), server/asr/registry.py and asr_registry.py (which engine
\* serves, who is busy), server/asr/circuit_breaker.py, the locks of the in-process
\* engines (parakeet_engine/, qwen_engine.py), and the places where a dictation
\* meets them (recording_lifecycle.py, dictation_pipeline/transcribe_step.py).
\*
\* An engine object is a backend and a number.  A dictation is its three visits: the
\* hotkey looks for an engine and applies what was deferred, a start worker makes
\* sure that there is one, a transcription takes what the registry gives it.  A model
\* is identified with its backend, and one dictation follows the other: how they
\* overlap is the subject of DictationLifecycle.
EXTENDS Naturals, FiniteSets, Sequences

CONSTANTS
    Backend,      \* the names of the backends
    Whisper,      \* the backend every other one falls back to; it loads nothing here
    Serials,      \* bound: engine objects of a backend alive at one time
    MaxStarts,    \* bound: dictations
    MaxChanges,   \* bound: requests of the settings page
    MaxFailures,  \* _MAX_CONSECUTIVE_FAILURES of the circuit breaker
    Environments  \* what one behaviour may meet: see Environment

\* A load raises, is refused, or returns False; a lock is waited for in vain; an
\* inference hangs; the idle time runs out; a change overtakes a start; another backend
\* is asked for amid a dictation.
Trouble == {"raises", "refuses", "false", "slow", "hangs", "idle", "races", "midway"}

\* The dictations and the requests of the settings page, the backends whose model is
\* on disk, _MAX_LOADED_MODELS, and what goes wrong.
Environment == [starts : 1..MaxStarts, changes : 0..MaxChanges, installed : SUBSET Backend,
                models : Nat \ {0}, troubles : SUBSET Trouble]

None == <<>>
Nothing == ""

Hotkey == <<"hotkey", 0>>
Loader == <<"loader", 0>>
Idler == <<"idler", 0>>
Starter == {"starter"} \X (1..MaxStarts)
Transcriber == {"transcriber"} \X (1..MaxStarts)
Changer == {"changer"} \X (1..MaxChanges)
Thread == {Hotkey, Loader, Idler} \cup Starter \cup Transcriber \cup Changer

\* The threads that run _change_model_blocking or _set_active_backend_blocking.
Changing == Changer \cup {Hotkey}

Engine == Backend \X Serials
InProcess(e) == e[1] # Whisper

EngineConstants ==
    /\ IsFiniteSet(Backend) /\ Whisper \in Backend /\ Nothing \notin Backend
    /\ IsFiniteSet(Serials)
    /\ MaxStarts \in Nat \ {0} /\ MaxChanges \in Nat /\ MaxFailures \in Nat \ {0}
    /\ Environments \subseteq Environment
ASSUME EngineAssumption == EngineConstants

VARIABLES
    env,         \* bound: the environment of this behaviour
    config,      \* config.asr_backend
    registry,    \* _backends: the engine registered for a backend
    waiting,     \* the thread that keeps the registry's lock while it waits for an engine's
    loaded,      \* the engines whose model is in memory
    loading,     \* the thread whose load holds the lock of an engine
    marked,      \* _busy_backends
    failures,    \* _failure_counts
    recency,     \* _model_access_times, oldest first
    armed,       \* the idle-unload deadline is set
    deferred,    \* _pending_model_change, _pending_backend_change
    pending,     \* _pending_dictation
    lazyLock,    \* _lazy_init_lock
    changeLock,  \* _model_change_lock
    phase,       \* what the program is at: "idle", "recording" or "busy"
    starts,      \* dictations started
    at,          \* the place of a thread
    held,        \* the engine a thread has at hand
    name,        \* the backend a thread is at work for
    leaving,     \* the backend a change takes leave of
    kind,        \* which of the two changes it is
    lost         \* ghost: the transcriptions that found no engine

registryVars == <<env, config, registry, waiting, marked, failures, recency>>
engineVars == <<loaded, loading>>
managerVars == <<armed, deferred, pending, lazyLock, changeLock>>
dictationVars == <<phase, starts, lost>>
threadVars == <<at, held, name, leaving, kind>>
engineManagerVars == <<registryVars, engineVars, managerVars, dictationVars, threadVars>>

Place == {"off", "applies", "enters", "unloads", "unregisters", "ensures", "creates",
          "resolves", "tries", "locks", "loads", "drops", "whispers", "failed", "succeeded",
          "ejects", "forgets", "counts", "misses", "finishes", "asks", "joins", "lazy", "revalidates", "checks",
          "verifies", "replaces", "judges", "looks", "rereads", "marks", "calls", "infers",
          "unmarks", "touches", "spent"}

RegistryType ==
    /\ env \in Environments
    /\ config \in Backend /\ registry \in [Backend -> Engine \cup {None}]
    /\ waiting \in Thread \cup {None}
    /\ marked \subseteq Backend /\ failures \in [Backend -> 0..MaxFailures]

RecencyType == recency \in Seq(Backend) /\ Len(recency) <= Cardinality(Backend)

EngineType == loaded \subseteq Engine /\ loading \in [Engine -> Thread \cup {None}]

ManagerType ==
    /\ armed \in BOOLEAN /\ pending \in BOOLEAN
    /\ deferred \in [{"model", "backend"} -> Backend \cup {Nothing}]
    /\ lazyLock \in Thread \cup {None} /\ changeLock \in Thread \cup {None}

DictationType ==
    /\ phase \in {"idle", "recording", "busy"} /\ starts \in 0..MaxStarts
    /\ lost \subseteq Transcriber

ThreadType ==
    /\ at \in [Thread -> Place] /\ held \in [Thread -> Engine \cup {None}]
    /\ name \in [Thread -> Backend \cup {Nothing}]
    /\ leaving \in [Thread -> Backend \cup {Nothing}]
    /\ kind \in [Thread -> {"model", "backend"}]

EngineManagerTypeOK ==
    /\ RegistryType /\ RecencyType /\ EngineType /\ ManagerType /\ DictationType /\ ThreadType

EngineManagerInit ==
    /\ env \in Environments
    /\ config \in Backend /\ registry = [b \in Backend |-> None] /\ waiting = None
    /\ loaded = {} /\ loading = [e \in Engine |-> None]
    /\ marked = {} /\ failures = [b \in Backend |-> 0] /\ recency = <<>>
    /\ armed = FALSE /\ pending = FALSE
    /\ deferred = [k \in {"model", "backend"} |-> Nothing]
    /\ lazyLock = None /\ changeLock = None
    /\ phase = "idle" /\ starts = 0
    /\ at = [t \in Thread |-> "off"] /\ held = [t \in Thread |-> None]
    /\ name = [t \in Thread |-> Nothing] /\ leaving = [t \in Thread |-> Nothing]
    /\ kind = [t \in Thread |-> "model"]
    /\ lost = {}

--------------------------------------------------------------------------------
\* Locks and looks.

Goes(t, place) == at' = [at EXCEPT ![t] = place]
GoesWith(t, place, e) == Goes(t, place) /\ held' = [held EXCEPT ![t] = e]

\* A transcription counted in _active_inference of an engine.
Inferring(e) == \E t \in Transcriber : at[t] = "infers" /\ held[t] = e

Ready(e) == e \in loaded
Loading(e) == e # None /\ loading[e] # None

\* _lock of the registry: another thread may keep it.
RegistryFree(t) == waiting \in {None, t}

Disabled(b) == failures[b] >= MaxFailures

\* get_active: the engine of the configured backend, else whisper's, else whatever
\* comes first, and nobody if that is not ready.  is_loaded of an in-process engine
\* takes the lock that a load of it holds: nobody has been seen before it is over.
Sees(e) ==
    LET own == registry[config]
        whisper == registry[Whisper]
        registered == {registry[b] : b \in Backend} \ {None} IN
    \/ ~Loading(own) /\ Ready(own) /\ e = own
    \/ /\ ~Loading(own) /\ ~Ready(own)
       /\ IF Ready(whisper) THEN e = whisper
          ELSE IF registered = {} THEN e = None
          ELSE \E first \in registered : ~Loading(first) /\ e = IF Ready(first) THEN first ELSE None

Looks(t, e) == RegistryFree(t) /\ Sees(e) /\ waiting' = None

\* A look that has to wait keeps the registry's lock meanwhile.
LookPlaces == {"verifies", "judges", "looks", "rereads"}
Waits(t) ==
    /\ at[t] \in LookPlaces /\ waiting = None /\ ~\E e \in Engine \cup {None} : Sees(e)
    /\ at[t] = "verifies" => phase = "recording"
    /\ waiting' = t
    /\ UNCHANGED <<env, config, registry, marked, failures, recency, engineVars, managerVars,
                   dictationVars, threadVars>>

--------------------------------------------------------------------------------
\* Creating and loading: what loader, start workers and changes have in common.

\* A start worker is past the lock: it falls back.
FallsBack(t) == t = Loader \/ (t \in Starter /\ lazyLock # t)

\* An object that nobody refers to any more.
Unreferred(e) == e \notin {registry[b] : b \in Backend} \cup {held[t] : t \in Thread}
Fresh(b) == CHOOSE e \in {b} \X Serials : Unreferred(e)
CanCreate(b) == \E e \in {b} \X Serials : Unreferred(e)

AfterEnsure(t) == IF FallsBack(t) THEN "tries"
                  ELSE IF t \in Starter THEN "revalidates" ELSE "resolves"

\* _ensure_engine, up to its look into the registry.
Ensures(t) ==
    /\ at[t] = "ensures" /\ RegistryFree(t)
    /\ Goes(t, IF registry[name[t]] # None THEN AfterEnsure(t) ELSE "creates")
    /\ UNCHANGED <<registryVars, engineVars, managerVars, dictationVars, held, name, leaving, kind>>

\* create, which may take its time to import: whoever comes last stays registered.
Creates(t) ==
    /\ at[t] = "creates" /\ RegistryFree(t) /\ CanCreate(name[t])
    /\ registry' = [registry EXCEPT ![name[t]] = Fresh(name[t])]
    /\ loaded' = loaded \ {Fresh(name[t])}
    /\ Goes(t, AfterEnsure(t))
    /\ UNCHANGED <<env, config, waiting, marked, failures, recency, loading, managerVars,
                   dictationVars, held, name, leaving, kind>>

\* load_active: the breaker, and the engine of the backend configured now.
Resolves(t) ==
    /\ at[t] = "resolves" /\ RegistryFree(t)
    /\ IF Disabled(config) \/ registry[config] = None
       THEN GoesWith(t, "failed", None)
       ELSE GoesWith(t, "locks", registry[config])
    /\ UNCHANGED <<registryVars, engineVars, managerVars, dictationVars, name, leaving, kind>>

\* load_with_fallback: the same, but for whisper in reserve.
Tries(t) ==
    /\ at[t] = "tries" /\ RegistryFree(t)
    /\ name' = [name EXCEPT ![t] = config]
    /\ IF Disabled(config) \/ registry[config] = None
       THEN GoesWith(t, IF config = Whisper THEN "failed" ELSE "whispers", None)
       ELSE GoesWith(t, "locks", registry[config])
    /\ UNCHANGED <<registryVars, engineVars, managerVars, dictationVars, leaving, kind>>

\* The backend whose count a load changes: load_active reads it again.
Counted(t) == IF FallsBack(t) THEN name[t] ELSE config

\* load takes the engine's lock and finds the model there, or begins.
Locks(t) ==
    /\ at[t] = "locks" /\ ~Loading(held[t])
    /\ IF Ready(held[t]) THEN Goes(t, "counts") /\ UNCHANGED loading
       ELSE /\ Goes(t, "loads")
            /\ loading' = IF InProcess(held[t]) THEN [loading EXCEPT ![held[t]] = t] ELSE loading
    /\ UNCHANGED <<registryVars, loaded, managerVars, dictationVars, held, name, leaving, kind>>

EndsLoad(t) ==
    /\ at[t] = "loads" /\ loading' = [loading EXCEPT ![held[t]] = None]
    /\ UNCHANGED <<registryVars, managerVars, dictationVars, held, name, leaving, kind>>

\* Neither load_active nor load_with_fallback looks at what load returns: False, with
\* which an in-process engine reports a failure, counts as success like True.
LoadReturns(t) ==
    /\ EndsLoad(t) /\ Goes(t, "counts")
    /\ \/ loaded' = loaded \cup {held[t]}
       \/ "false" \in env.troubles /\ InProcess(held[t]) /\ UNCHANGED loaded

\* Any other exception than the refusals.
LoadRaises(t) ==
    /\ "raises" \in env.troubles /\ EndsLoad(t) /\ Goes(t, "misses")
    /\ UNCHANGED loaded

\* ModelNotDownloadedError, ModelIntegrityError: nothing is recorded, and no fallback.
LoadIsRefused(t) ==
    /\ "refuses" \in env.troubles /\ EndsLoad(t) /\ Goes(t, "failed")
    /\ UNCHANGED loaded

\* _record_success and _record_failure.
Counts(t) ==
    /\ RegistryFree(t)
    /\ \/ /\ at[t] = "counts" /\ Goes(t, "succeeded")
          /\ failures' = [failures EXCEPT ![Counted(t)] = 0]
       \/ /\ at[t] = "misses" /\ Goes(t, "drops")
          /\ failures' = [failures EXCEPT ![Counted(t)] = IF @ < MaxFailures THEN @ + 1 ELSE @]
    /\ UNCHANGED <<env, config, registry, waiting, marked, recency, engineVars, managerVars,
                   dictationVars, held, name, leaving, kind>>

\* Mutant of Unloads: the model is dropped under the lock, whoever infers.
UnloadsAtOnce(t) ==
    /\ InProcess(held[t]) => ~Loading(held[t])
    /\ loaded' = loaded \ {held[t]}

\* unload of an engine: its lock, and then the end of its inferences.
Unloads(t) ==
    /\ InProcess(held[t]) => ~Loading(held[t]) /\ ~Inferring(held[t])
    /\ loaded' = loaded \ {held[t]}

\* backend.unload() after the exception.
Drops(t) ==
    /\ at[t] = "drops" /\ Unloads(t)
    /\ Goes(t, IF FallsBack(t) /\ name[t] # Whisper THEN "whispers" ELSE "failed")
    /\ UNCHANGED <<registryVars, loading, managerVars, dictationVars, held, name, leaving, kind>>

\* Whisper as a fallback is created if need be, and not counted by the breaker.
Whispers(t) ==
    /\ at[t] = "whispers" /\ RegistryFree(t) /\ CanCreate(Whisper)
    /\ LET e == IF registry[Whisper] = None THEN Fresh(Whisper) ELSE registry[Whisper] IN
       /\ registry' = [registry EXCEPT ![Whisper] = e]
       /\ \/ /\ Whisper \in env.installed
             /\ loaded' = loaded \cup {e} /\ Goes(t, "succeeded")
          \/ /\ Whisper \notin env.installed \/ "raises" \in env.troubles
             /\ loaded' = loaded \ {e} /\ Goes(t, "failed")
    /\ UNCHANGED <<env, config, waiting, marked, failures, recency, loading, managerVars,
                   dictationVars, held, name, leaving, kind>>

\* A sequence without b, which is in it once at most.
Without(s, b) ==
    IF \E i \in 1..Len(s) : s[i] = b
    THEN LET i == CHOOSE i \in 1..Len(s) : s[i] = b IN
         [j \in 1..(Len(s) - 1) |-> IF j < i THEN s[j] ELSE s[j + 1]]
    ELSE s

\* Mutant of Touched: the entry of a backend is added once more.
TouchedAgain(b) == Append(recency, b)

\* _on_load_success and _evict_lru_model.  The name that is touched is that of the
\* configured backend, also when whisper came in for it.
Touched(b) == Append(Without(recency, b), b)
Served(t) == IF FallsBack(t) THEN config ELSE name[t]

\* _model_lru_lock, which an eviction keeps while it waits for its engine.
RecencyFree(t) == \A u \in Thread \ {t} : at[u] \notin {"ejects", "forgets"}

\* The idle-unload deadline is set by a touch of the configured backend.
ArmedBy(b) == IF b = config THEN "idle" \in env.troubles ELSE armed

NextPlace(t) == CASE t = Loader -> "finishes"
                  [] t \in Starter -> IF lazyLock = t THEN "verifies" ELSE "judges"
                  [] t \in Changer -> "spent"
                  [] t = Hotkey -> "applies"

\* A thread is done with its load, or its change, and gives back its lock.
Concludes(t) ==
    /\ Goes(t, NextPlace(t))
    /\ lazyLock' = IF lazyLock = t THEN None ELSE lazyLock
    /\ changeLock' = IF changeLock = t THEN None ELSE changeLock

Succeeds(t) ==
    /\ at[t] = "succeeded" /\ RegistryFree(t) /\ RecencyFree(t)
    /\ recency' = Touched(Served(t)) /\ armed' = ArmedBy(Served(t))
    /\ LET oldest == Head(recency') IN
       IF Len(recency') > env.models /\ oldest \notin marked
       THEN /\ GoesWith(t, IF registry[oldest] = None THEN "forgets" ELSE "ejects", registry[oldest])
            /\ leaving' = [leaving EXCEPT ![t] = oldest] /\ UNCHANGED <<lazyLock, changeLock>>
       ELSE Concludes(t) /\ UNCHANGED <<held, leaving>>
    /\ UNCHANGED <<env, config, registry, waiting, marked, failures, engineVars, deferred, pending,
                   dictationVars, name, kind>>

Ejects(t) ==
    /\ at[t] = "ejects" /\ Unloads(t)
    /\ Goes(t, "forgets")
    /\ UNCHANGED <<registryVars, loading, managerVars, dictationVars, held, name, leaving, kind>>

Forgets(t) ==
    /\ at[t] = "forgets" /\ RegistryFree(t)
    /\ registry' = [registry EXCEPT ![leaving[t]] = None]
    /\ recency' = Without(recency, leaving[t])
    /\ leaving' = [leaving EXCEPT ![t] = Nothing]
    /\ Concludes(t)
    /\ UNCHANGED <<env, config, waiting, marked, failures, engineVars, armed, deferred, pending,
                   dictationVars, held, name, kind>>

\* A failed load: a start worker goes through the ritual of success all the same, the
\* loader drops the queued dictation.
Fails(t) ==
    /\ at[t] = "failed"
    /\ IF t \in Starter /\ lazyLock = t
       THEN Goes(t, "succeeded") /\ UNCHANGED <<lazyLock, changeLock>>
       ELSE Concludes(t)
    /\ pending' = (pending /\ t # Loader)
    /\ UNCHANGED <<registryVars, engineVars, armed, deferred, dictationVars,
                   held, name, leaving, kind>>

LoadSteps(t) ==
    \/ Ensures(t) \/ Creates(t) \/ Resolves(t) \/ Tries(t) \/ Locks(t) \/ Counts(t)
    \/ Drops(t) \/ Whispers(t) \/ Succeeds(t) \/ Ejects(t) \/ Forgets(t) \/ Fails(t)

LoadEnds(t) == LoadReturns(t) \/ LoadRaises(t) \/ LoadIsRefused(t)

--------------------------------------------------------------------------------
\* The loader and the changes.

\* The end of load_background: a queued dictation is started, if nothing is going on.
LoaderEnds ==
    /\ at[Loader] = "finishes"
    /\ IF pending /\ phase = "idle" /\ at[Hotkey] = "off" /\ starts < env.starts
       THEN at' = [at EXCEPT ![Loader] = "off", ![Hotkey] = "applies"] /\ starts' = starts + 1
       ELSE Goes(Loader, "off") /\ UNCHANGED starts
    /\ pending' = FALSE
    /\ UNCHANGED <<registryVars, engineVars, armed, deferred, lazyLock, changeLock, phase, lost,
                   held, name, leaving, kind>>

\* What "applying after active work" looks at.
ActiveWork == phase # "idle"

\* _config_mutation_lock, kept by a change up to the new engine's load.
KeepsConfig(t) == \/ at[t] \in {"unloads", "unregisters"}
                  \/ kind[t] = "backend" /\ at[t] \in {"ensures", "creates"}
ConfigFree == \A t \in Changing : ~KeepsConfig(t)

\* None of the threads is at work.
Resting(threads) == \A t \in threads : at[t] \in {"off", "spent"}

\* A client asks for a change, under the configuration's lock; its changer is to
\* make it.
Requests(c, k, b) ==
    /\ at[c] = "off" /\ c[2] <= env.changes /\ (\A d \in Changer : d[2] < c[2] => at[d] # "off")
    /\ ConfigFree /\ b \in env.installed
    /\ "races" \in env.troubles \/ Resting(Thread \ Transcriber)
    /\ armed' = FALSE
    /\ kind' = [kind EXCEPT ![c] = k] /\ name' = [name EXCEPT ![c] = b]
    /\ UNCHANGED <<env, registry, waiting, marked, failures, recency, engineVars, pending, lazyLock,
                   changeLock, dictationVars, held, leaving>>

\* change_model, whose thread is spawned unless the model is loaded already.
RequestsModel(c, b) ==
    /\ Requests(c, "model", b) /\ RegistryFree(c)
    /\ ~Loading(registry[b]) /\ ~(b = config /\ Ready(registry[b]))
    /\ Goes(c, "enters") /\ UNCHANGED <<config, deferred>>

\* set_active_backend, whose thread is spawned only if nothing is going on.  Otherwise
\* the backend is configured now, so that the hotkey will find it so and change nothing.
RequestsBackend(c, b) ==
    /\ Requests(c, "backend", b) /\ b # config
    /\ ActiveWork => "midway" \in env.troubles
    /\ IF ActiveWork
       THEN /\ config' = b /\ deferred' = [deferred EXCEPT !["backend"] = b]
            /\ Goes(c, "spent")
       ELSE Goes(c, "enters") /\ UNCHANGED <<config, deferred>>

\* The first section of a change, under both locks: nothing to do, put off, refused
\* by an exception (the hotkey then drops what else was deferred), or begun.
Enters(t) ==
    /\ at[t] = "enters" /\ changeLock = None /\ ConfigFree /\ RegistryFree(t)
    /\ armed' = FALSE
    /\ \/ /\ kind[t] = "backend" /\ name[t] = config
          /\ Concludes(t) /\ UNCHANGED <<config, deferred, held, leaving>>
       \/ /\ kind[t] = "model" \/ name[t] # config
          /\ ActiveWork
          /\ config' = name[t] /\ deferred' = [deferred EXCEPT ![kind[t]] = name[t]]
          /\ Concludes(t) /\ UNCHANGED <<held, leaving>>
       \/ /\ kind[t] = "model" \/ name[t] # config
          /\ ~ActiveWork /\ config \in marked
          /\ config' = IF kind[t] = "model" THEN name[t] ELSE config
          /\ deferred' = IF t = Hotkey THEN [k \in DOMAIN deferred |-> Nothing] ELSE deferred
          /\ Concludes(t) /\ UNCHANGED <<held, leaving>>
       \/ /\ kind[t] = "model" \/ name[t] # config
          /\ ~ActiveWork /\ config \notin marked
          /\ config' = IF kind[t] = "model" THEN name[t] ELSE config
          /\ leaving' = [leaving EXCEPT ![t] = config]
          /\ GoesWith(t, IF registry[config] = None THEN "unregisters" ELSE "unloads", registry[config])
          /\ changeLock' = t /\ UNCHANGED <<deferred, lazyLock>>
    /\ UNCHANGED <<env, registry, waiting, marked, failures, recency, engineVars, pending,
                   dictationVars, name, kind>>

UnloadsOld(t) ==
    /\ at[t] = "unloads" /\ t \in Changing /\ Unloads(t)
    /\ Goes(t, "unregisters")
    /\ UNCHANGED <<registryVars, loading, managerVars, dictationVars, held, name, leaving, kind>>

UnregistersOld(t) ==
    /\ at[t] = "unregisters" /\ RegistryFree(t)
    /\ registry' = [registry EXCEPT ![leaving[t]] = None]
    /\ config' = IF kind[t] = "backend" THEN name[t] ELSE config
    /\ leaving' = [leaving EXCEPT ![t] = Nothing]
    /\ GoesWith(t, "ensures", None)
    /\ UNCHANGED <<env, waiting, marked, failures, recency, engineVars, managerVars, dictationVars,
                   name, kind>>

ChangeSteps(t) == Enters(t) \/ UnloadsOld(t) \/ UnregistersOld(t)

--------------------------------------------------------------------------------
\* The hotkey.

HotkeyPresses ==
    /\ at[Hotkey] = "off" /\ phase = "idle" /\ starts < env.starts
    /\ "races" \in env.troubles \/ Resting(Changer)
    /\ Goes(Hotkey, "looks") /\ starts' = starts + 1
    /\ UNCHANGED <<registryVars, engineVars, managerVars, phase, lost, held, name, leaving, kind>>

\* toggle: without an engine and a live loader a load is begun, and the recording too.
HotkeyLooks ==
    /\ at[Hotkey] = "looks"
    /\ \E e \in Engine \cup {None} :
        /\ Looks(Hotkey, e)
        /\ IF e = None /\ at[Loader] = "off"
           THEN /\ at' = [at EXCEPT ![Hotkey] = "applies", ![Loader] = "ensures"]
                /\ name' = [name EXCEPT ![Loader] = config]
           ELSE Goes(Hotkey, "applies") /\ UNCHANGED name
    /\ UNCHANGED <<env, config, registry, marked, failures, recency, engineVars, managerVars,
                   dictationVars, held, leaving, kind>>

\* apply_pending_model_change, the model first, and then the start of the recording.
\* Nothing can be put off while the program is idle: taking the two one after the other
\* is taking both at once.
HotkeyApplies ==
    /\ at[Hotkey] = "applies"
    /\ \/ \E k \in {"model", "backend"} :
            /\ deferred[k] # Nothing /\ (k = "backend" => deferred["model"] = Nothing)
            /\ deferred' = [deferred EXCEPT ![k] = Nothing]
            /\ name' = [name EXCEPT ![Hotkey] = deferred[k]] /\ kind' = [kind EXCEPT ![Hotkey] = k]
            /\ Goes(Hotkey, "enters") /\ UNCHANGED phase
       \/ /\ deferred = [k \in {"model", "backend"} |-> Nothing]
          /\ at' = [at EXCEPT ![Hotkey] = "off", ![<<"starter", starts>>] = "asks"]
          /\ phase' = "recording" /\ UNCHANGED <<deferred, name, kind>>
    /\ UNCHANGED <<registryVars, engineVars, armed, pending, lazyLock, changeLock, starts, lost,
                   held, leaving>>

HotkeyStops ==
    /\ at[Hotkey] = "off" /\ phase = "recording"
    /\ phase' = "busy" /\ Goes(<<"transcriber", starts>>, "looks")
    /\ UNCHANGED <<registryVars, engineVars, managerVars, starts, lost, held, name, leaving, kind>>

--------------------------------------------------------------------------------
\* The start worker: ensure_active_engine_loaded, then a look, then a fallback.

\* A busy backend queues a dictation, a live loader is joined, else the lock is taken.
StarterAsks(t) ==
    /\ at[t] = "asks" /\ RegistryFree(t)
    /\ IF config \in marked
       THEN Goes(t, "verifies") /\ pending' = TRUE /\ UNCHANGED armed
       ELSE /\ Goes(t, IF at[Loader] = "off" THEN "lazy" ELSE "joins")
            /\ armed' = FALSE /\ UNCHANGED pending
    /\ UNCHANGED <<registryVars, engineVars, deferred, lazyLock, changeLock, dictationVars,
                   held, name, leaving, kind>>

Joins(t) ==
    /\ at[t] = "joins" /\ at[Loader] = "off"
    /\ Goes(t, IF t \in Starter THEN "verifies" ELSE "rereads")
    /\ UNCHANGED <<registryVars, engineVars, managerVars, dictationVars, held, name, leaving, kind>>

StarterEnters(t) ==
    /\ at[t] = "lazy" /\ t \in Starter /\ lazyLock = None
    /\ lazyLock' = t /\ Goes(t, "ensures")
    /\ name' = [name EXCEPT ![t] = config]
    /\ UNCHANGED <<registryVars, engineVars, armed, deferred, pending, changeLock, dictationVars,
                   held, leaving, kind>>

\* The backend may have changed meanwhile: once more with the new one.
Revalidates(t) ==
    /\ at[t] = "revalidates" /\ RegistryFree(t)
    /\ IF name[t] # config
       THEN name' = [name EXCEPT ![t] = config] /\ Goes(t, "ensures") /\ UNCHANGED held
       ELSE GoesWith(t, "checks", registry[config]) /\ UNCHANGED name
    /\ UNCHANGED <<registryVars, engineVars, managerVars, dictationVars, leaving, kind>>

\* An engine that is not loaded is loaded by load_active, one that is serves.
Checks(t) ==
    /\ at[t] = "checks" /\ ~Loading(held[t])
    /\ IF held[t] # None /\ ~Ready(held[t])
       THEN Goes(t, "resolves") /\ UNCHANGED <<lazyLock, changeLock>>
       ELSE Concludes(t)
    /\ UNCHANGED <<registryVars, engineVars, armed, deferred, pending, dictationVars,
                   held, name, leaving, kind>>

Verifies(t) ==
    /\ at[t] = "verifies"
    /\ \/ /\ phase # "recording" /\ waiting # t /\ Goes(t, "off") /\ UNCHANGED waiting
       \/ /\ phase = "recording" \/ waiting = t
          /\ \E e \in Engine \cup {None} :
                Looks(t, e) /\ Goes(t, IF e = None THEN "replaces" ELSE "off")
    /\ UNCHANGED <<env, config, registry, marked, failures, recency, engineVars, managerVars,
                   dictationVars, held, name, leaving, kind>>

\* fallback_to_whisper selects another installed model, whichever comes first.
Replaces(t) ==
    /\ at[t] = "replaces"
    /\ IF env.installed \subseteq {config}
       THEN Goes(t, "judges") /\ UNCHANGED <<config, name>>
       ELSE \E b \in env.installed \ {config} :
                config' = b /\ name' = [name EXCEPT ![t] = b] /\ Goes(t, "ensures")
    /\ UNCHANGED <<env, registry, waiting, marked, failures, recency, engineVars, managerVars,
                   dictationVars, held, leaving, kind>>

\* Without an engine still, the recording is discarded.
Judges(t) ==
    /\ at[t] = "judges" /\ Goes(t, "off")
    /\ \E e \in Engine \cup {None} :
        /\ Looks(t, e)
        /\ phase' = IF e = None /\ phase = "recording" THEN "idle" ELSE phase
    /\ UNCHANGED <<env, config, registry, marked, failures, recency, engineVars, managerVars,
                   starts, lost, held, name, leaving, kind>>

StarterSteps(t) ==
    \/ StarterAsks(t) \/ Joins(t) \/ StarterEnters(t) \/ Revalidates(t) \/ Checks(t)
    \/ Verifies(t) \/ Replaces(t) \/ Judges(t)

--------------------------------------------------------------------------------
\* The transcription: _transcribe and wait_for_active_engine_loaded.

\* The end of a transcription, of its dictation too unless that has been given up.
PhaseAfter(t) == IF t[2] = starts /\ phase = "busy" THEN "idle" ELSE phase

Loses(t) == Goes(t, "off") /\ lost' = lost \cup {t} /\ phase' = PhaseAfter(t)

\* Mutant of TranscriberLooks: only the lock is waited for, not a live loader.
TranscriberOverlooks(t) ==
    /\ at[t] = "looks" /\ t \in Transcriber
    /\ \E e \in Engine \cup {None} :
        /\ Looks(t, e) /\ GoesWith(t, IF e # None THEN "marks" ELSE "lazy", e)
    /\ UNCHANGED <<env, config, registry, marked, failures, recency, engineVars, managerVars,
                   dictationVars, name, leaving, kind>>

TranscriberLooks(t) ==
    /\ at[t] = "looks" /\ t \in Transcriber
    /\ \E e \in Engine \cup {None} :
        /\ Looks(t, e)
        /\ GoesWith(t, IF e # None THEN "marks" ELSE IF at[Loader] = "off" THEN "lazy" ELSE "joins", e)
    /\ UNCHANGED <<env, config, registry, marked, failures, recency, engineVars, managerVars,
                   dictationVars, name, leaving, kind>>

\* The loader is over, or the lock of the start workers free: a last look.
TranscriberRereads(t) ==
    /\ \/ at[t] = "rereads"
       \/ at[t] = "lazy" /\ t \in Transcriber /\ lazyLock = None
    /\ \E e \in Engine \cup {None} :
        /\ Looks(t, e) /\ held' = [held EXCEPT ![t] = e]
        /\ IF e = None THEN Loses(t) ELSE Goes(t, "marks") /\ UNCHANGED <<lost, phase>>
    /\ UNCHANGED <<env, config, registry, marked, failures, recency, engineVars, managerVars, starts,
                   name, leaving, kind>>

\* The time for the lock is up.
TranscriberGivesUp(t) ==
    /\ "slow" \in env.troubles
    /\ at[t] = "lazy" /\ t \in Transcriber /\ lazyLock # None
    /\ Loses(t)
    /\ UNCHANGED <<registryVars, engineVars, managerVars, starts, held, name, leaving, kind>>

\* busy_context: the mark is for the backend configured now, whatever engine it is.
Marks(t) ==
    /\ at[t] = "marks" /\ RegistryFree(t)
    /\ name' = [name EXCEPT ![t] = config] /\ marked' = marked \cup {config}
    /\ Goes(t, "calls")
    /\ UNCHANGED <<env, config, registry, waiting, failures, recency, engineVars, managerVars,
                   dictationVars, held, leaving, kind>>

\* transcribe of an in-process engine is refused if its model has gone.
Calls(t) ==
    /\ at[t] = "calls" /\ RegistryFree(t) /\ ~Loading(held[t])
    /\ IF InProcess(held[t]) /\ ~Ready(held[t])
       THEN Loses(t) /\ marked' = marked \ {name[t]}
       ELSE Goes(t, "infers") /\ UNCHANGED <<marked, lost, phase>>
    /\ UNCHANGED <<env, config, registry, waiting, failures, recency, engineVars, managerVars, starts,
                   held, name, leaving, kind>>

\* Mutant of InferenceEnds: the touch comes first, while the inference still counts.
InferenceEndsTouched(t) ==
    /\ at[t] = "infers" /\ RecencyFree(t) /\ GoesWith(t, "unmarks", None)
    /\ UNCHANGED <<registryVars, engineVars, managerVars, dictationVars, name, leaving, kind>>

\* _active_inference goes down.
InferenceEnds(t) ==
    /\ at[t] = "infers" /\ GoesWith(t, "unmarks", None)
    /\ UNCHANGED <<registryVars, engineVars, managerVars, dictationVars, name, leaving, kind>>

\* The mark goes, and the configured backend is touched.
Unmarks(t) ==
    /\ at[t] = "unmarks" /\ RegistryFree(t)
    /\ marked' = marked \ {name[t]} /\ Goes(t, "touches")
    /\ UNCHANGED <<env, config, registry, waiting, failures, recency, engineVars, managerVars,
                   dictationVars, held, name, leaving, kind>>

Touches(t) ==
    /\ at[t] = "touches" /\ RecencyFree(t)
    /\ recency' = Touched(config) /\ armed' = ArmedBy(config)
    /\ phase' = PhaseAfter(t) /\ Goes(t, "off")
    /\ UNCHANGED <<env, config, registry, waiting, marked, failures, engineVars, deferred, pending,
                   lazyLock, changeLock, starts, lost, held, name, leaving, kind>>

TranscriberSteps(t) ==
    \/ TranscriberLooks(t) \/ Joins(t) \/ TranscriberRereads(t) \/ TranscriberGivesUp(t)
    \/ Marks(t) \/ Calls(t) \/ Unmarks(t) \/ Touches(t)

--------------------------------------------------------------------------------
\* The watchdog and the idle time.

\* force_recover, force_unload_active: the engine of the configured backend is dropped
\* without unloading it, and its mark cleared.
Recovers(t) ==
    /\ "hangs" \in env.troubles
    /\ phase = "busy" /\ t = <<"transcriber", starts>> /\ at[t] = "infers" /\ waiting = None
    /\ registry' = [registry EXCEPT ![config] = None] /\ marked' = marked \ {config}
    /\ phase' = "idle"
    /\ UNCHANGED <<env, config, waiting, failures, recency, engineVars, managerVars, starts, lost,
                   threadVars>>

\* The deadline passes: the engine that serves is unloaded.  registry.unload refuses a
\* busy backend, but engine.unload() is called next whatever it did.
IdleTimePasses ==
    /\ armed /\ at[Idler] = "off"
    /\ armed' = FALSE /\ Goes(Idler, "looks")
    /\ UNCHANGED <<registryVars, engineVars, deferred, pending, lazyLock, changeLock,
                   dictationVars, held, name, leaving, kind>>

IdlerLooks ==
    /\ at[Idler] = "looks"
    /\ \E e \in Engine \cup {None} :
        Looks(Idler, e) /\ GoesWith(Idler, IF e = None THEN "off" ELSE "unloads", e)
    /\ UNCHANGED <<env, config, registry, marked, failures, recency, engineVars, managerVars,
                   dictationVars, name, leaving, kind>>

IdlerUnloads ==
    /\ at[Idler] = "unloads" /\ Unloads(Idler)
    /\ GoesWith(Idler, "off", None)
    /\ UNCHANGED <<registryVars, loading, managerVars, dictationVars, name, leaving, kind>>

IdlerSteps == IdlerLooks \/ IdlerUnloads

--------------------------------------------------------------------------------
EngineManagerNext ==
    \/ \E t \in Thread : Waits(t)
    \/ \E t \in Thread : LoadSteps(t)
    \/ \E t \in Thread : LoadEnds(t)
    \/ LoaderEnds
    \/ \E c \in Changer, b \in Backend : RequestsModel(c, b) \/ RequestsBackend(c, b)
    \/ \E t \in Changing : ChangeSteps(t)
    \/ HotkeyPresses \/ HotkeyLooks \/ HotkeyApplies \/ HotkeyStops
    \/ \E t \in Starter : StarterSteps(t)
    \/ \E t \in Transcriber : TranscriberSteps(t) \/ InferenceEnds(t) \/ Recovers(t)
    \/ IdleTimePasses \/ IdlerSteps

\* An inference ends for sure where none hangs.
InferenceMayEnd(t) == "hangs" \notin env.troubles /\ InferenceEnds(t)

\* Threads that can go on do, loads and inferences end unless they hang; nothing is
\* asked of the user, the settings page and the clock.
EngineManagerFairness ==
    /\ \A t \in Thread : WF_engineManagerVars(LoadSteps(t)) /\ WF_engineManagerVars(LoadEnds(t))
    /\ WF_engineManagerVars(LoaderEnds)
    /\ \A t \in Changing : WF_engineManagerVars(ChangeSteps(t))
    /\ WF_engineManagerVars(HotkeyLooks) /\ WF_engineManagerVars(HotkeyApplies)
    /\ \A t \in Starter : WF_engineManagerVars(StarterSteps(t))
    /\ \A t \in Transcriber : /\ WF_engineManagerVars(TranscriberSteps(t))
                              /\ WF_engineManagerVars(InferenceMayEnd(t))
    /\ WF_engineManagerVars(IdlerSteps)

EngineManagerSpec == EngineManagerInit /\ [][EngineManagerNext]_engineManagerVars
EngineManagerFairSpec == EngineManagerSpec /\ EngineManagerFairness

--------------------------------------------------------------------------------
\* Properties.

\* No engine is unloaded under an inference: _active_inference and its condition hold
\* back every unload, of a change, an eviction, a failed load or the idle time.
InferenceKeepsEngine ==
    \A t \in Transcriber : at[t] = "infers" /\ InProcess(held[t]) => held[t] \in loaded

\* Where nothing goes wrong, a recording finds an engine, however cold it began and
\* whatever change of the model was put off, or of model and backend applied, before it.
\* A change of backend that is put off is never made up for: the old engine serves on
\* beside the configured one, which alone is marked and spared by an eviction.
AudioFindsEngine == env.troubles = {} => lost = {}

\* Everybody who asks for an engine is answered: hotkey, start worker, transcription,
\* loader, change and the idle time.
CallersReturn == []<>("hangs" \in env.troubles \/ Resting(Thread))

\* What a thread is held up by: the registry's lock, kept by one that waits for a load;
\* the lock of an engine, and its inferences if it is to be unloaded; the locks of the
\* access times, of the start workers and of the changes; a loader that is joined.
LooksUp(t) == at[t] \in LookPlaces \/ (t \in Transcriber /\ at[t] = "lazy")
AsksRegistry(t) ==
    LooksUp(t) \/ at[t] \in {"ensures", "creates", "resolves", "tries", "whispers", "counts", "misses",
                            "succeeded", "forgets", "enters", "unregisters", "asks", "revalidates",
                            "marks", "calls", "unmarks"}
UnloadPlaces == {"drops", "unloads", "ejects"}

WaitsFor(t, u) ==
    \/ AsksRegistry(t) /\ waiting = u /\ u # t
    \/ /\ LooksUp(t) /\ ~\E e \in Engine \cup {None} : Sees(e)
       /\ \E b \in Backend : Loading(registry[b]) /\ loading[registry[b]] = u
    \/ /\ at[t] \in UnloadPlaces \cup {"locks", "checks", "calls"}
       /\ Loading(held[t]) /\ loading[held[t]] = u
    \/ at[t] \in UnloadPlaces /\ u \in Transcriber /\ at[u] = "infers" /\ held[u] = held[t]
    \/ at[t] \in {"succeeded", "touches"} /\ u # t /\ at[u] \in {"ejects", "forgets"}
    \/ at[t] = "lazy" /\ lazyLock = u
    \/ at[t] = "enters" /\ (changeLock = u \/ (u \in Changing /\ KeepsConfig(u)))
    \/ at[t] = "joins" /\ u = Loader /\ at[Loader] # "off"

\* Whoever waits, and whatever each of them keeps meanwhile, they do not wait in a
\* circle: among any threads there is one that is not held up by another of them.
NoCircularWait ==
    \A threads \in SUBSET Thread : threads # {} =>
        \E t \in threads : \A u \in threads : ~WaitsFor(t, u)

\* What the tests of the idle time ask for: "ensure_active_engine_loaded must cancel the
\* idle-unload deadline so the model isn't unloaded mid-dictation".
RecordingDisarms == phase = "recording" /\ at[<<"starter", starts>>] = "off" => ~armed
================================================================================
