---------------------------- MODULE Recorder_proofs ----------------------------
(***************************************************************************)
(* What holds of the recorder for every number of handler threads, of      *)
(* retries, of sessions and of chunks, and for every size of its deques.   *)
(* First RecorderDevice: the types, the lock and where the open streams    *)
(* are; then RecorderCapture: the types, what is in the buffer and who     *)
(* consumes the ring; last the run of the services.                        *)
(***************************************************************************)
EXTENDS MCServices, TimerCoordinator_proofs, SequenceTheorems

----------------------------------------------------------------------------
(* The inductive invariant of the device side.                               *)

Reopening == {"teardown", "lock", "open", "assign", "clear", "flap"}
Locking   == {"open", "assign", "clear", "flap"}

(* _recording_event is set between StartRecords and the end.                 *)
RecordingFollows == recording <=> caller \in {"workers", "live"}

(* _stream_lifecycle_lock is held by the handler between its acquire and its *)
(* release, whatever the generation says meanwhile.                          *)
LockFollows ==
    /\ lockedBy # NoHandler => lockedBy \in Handlers /\ handler[lockedBy].at \in Locking
    /\ \A h \in Handlers : handler[h].at \in Locking => lockedBy = h

(* While no detection has met another one, or an end: what is noticed and    *)
(* what is handled is of the present generation, ...                         *)
Current ==
    /\ \A d \in Detectors : detector[d].at = "marked" => detector[d].gen = gen
    /\ \A h \in Handlers : Active(h) => handler[h].gen = gen

(* ... there is one handler, and it reopens within a recording, ...          *)
Alone ==
    /\ \A h, k \in Handlers : Active(h) /\ Active(k) => h = k
    /\ \A h \in Handlers : handler[h].at \in Reopening => recording

(* ... and every open stream is where it is expected.                        *)
Placed ==
    /\ caller \in {"idle", "opening"} => opened = {}
    /\ \A h \in Handlers : handler[h].at \in {"lock", "open"} => opened = {}
    /\ \A h \in Handlers : handler[h].at = "assign" => opened \subseteq {handler[h].new}
    /\ (\A h \in Handlers : handler[h].at # "assign") => opened \subseteq {stream}

DeviceIInv ==
    /\ DeviceTypeOK
    /\ RecordingFollows
    /\ LockFollows
    /\ ~crossed => Current /\ Alone /\ Placed

----------------------------------------------------------------------------
(* Who writes what.                                                          *)

Callers ==
    \/ StartReset \/ CallerSteps
    \/ \E how \in {"stopping", "discarding"} : EndBegins(how)

LEMMA ControlFrame ==
  [DeviceNext]_deviceVars => Callers \/ UNCHANGED controlVars
  <1> SUFFICES ASSUME [DeviceNext]_deviceVars PROVE Callers \/ UNCHANGED controlVars
    OBVIOUS
  <1>1. ASSUME NEW d \in Detectors, Notices(d) \/ Marks(d) \/ Spawn(d)
        PROVE  UNCHANGED controlVars
    BY <1>1 DEF Notices, Marks, Spawn
  <1>2. CASE StreamFinishes \/ DevicesChange \/ CheckerLeaves \/ UNCHANGED deviceVars
    BY <1>2 DEF StreamFinishes, DevicesChange, CheckerLeaves, deviceVars
  <1>3. ASSUME NEW h \in Handlers, HandlerSteps(h) PROVE UNCHANGED controlVars
    BY <1>3 DEF HandlerSteps, HandlerGivesUp, HandlerRetries, HandlerSurrenders,
                HandlerTearsDown, HandlerLocks, HandlerOpens, HandlerFails, HandlerAssigns,
                HandlerClears, HandlerCountsFlap, HandlerTells, HandlerEnds
  <1> QED
    BY <1>1, <1>2, <1>3 DEF DeviceNext, Callers

StreamWriters(h) ==
    \/ HandlerTearsDown(h) \/ HandlerLocks(h) \/ HandlerOpens(h) \/ HandlerFails(h)
    \/ HandlerAssigns(h) \/ HandlerCountsFlap(h)

TearingDown == StartIsForbidden \/ StartUndoes \/ EndTearsDown

LEMMA StreamFrame ==
  [DeviceNext]_deviceVars =>
      \/ StartOpens \/ StartFindsNoDevice \/ TearingDown
      \/ \E h \in Handlers : StreamWriters(h)
      \/ UNCHANGED streamVars
  <1> SUFFICES ASSUME [DeviceNext]_deviceVars,
                      ~(StartOpens \/ StartFindsNoDevice \/ TearingDown),
                      ~(\E h \in Handlers : StreamWriters(h))
               PROVE  UNCHANGED streamVars
    OBVIOUS
  <1>1. CASE Callers
    BY <1>1 DEF Callers, TearingDown, CallerSteps, StartReset, StartRecords, StartFinishes,
                StartFails, EndBegins
  <1>2. ASSUME NEW d \in Detectors, Notices(d) \/ Marks(d) \/ Spawn(d)
        PROVE  UNCHANGED streamVars
    BY <1>2 DEF Notices, Marks, Spawn
  <1>3. CASE StreamFinishes \/ DevicesChange \/ CheckerLeaves \/ UNCHANGED deviceVars
    BY <1>3 DEF StreamFinishes, DevicesChange, CheckerLeaves, deviceVars
  <1>4. ASSUME NEW h \in Handlers, HandlerSteps(h) PROVE UNCHANGED streamVars
    BY <1>4 DEF HandlerSteps, StreamWriters, HandlerGivesUp, HandlerRetries,
                HandlerSurrenders, HandlerClears, HandlerTells, HandlerEnds
  <1> QED
    BY <1>1, <1>2, <1>3, <1>4 DEF DeviceNext, Callers

LEMMA HandlerFrame ==
  [DeviceNext]_deviceVars =>
      \/ \E d \in Detectors : Spawn(d)
      \/ \E h \in Handlers : HandlerSteps(h)
      \/ UNCHANGED handler
  <1> SUFFICES ASSUME [DeviceNext]_deviceVars PROVE
      \/ \E d \in Detectors : Spawn(d)
      \/ \E h \in Handlers : HandlerSteps(h)
      \/ UNCHANGED handler
    OBVIOUS
  <1>1. CASE Callers
    BY <1>1 DEF Callers, CallerSteps, StartReset, StartOpens, StartFindsNoDevice,
                StartIsForbidden, StartRecords, StartFinishes, StartFails, StartUndoes,
                EndTearsDown, EndBegins
  <1>2. ASSUME NEW d \in Detectors, Notices(d) \/ Marks(d)
        PROVE  UNCHANGED handler
    BY <1>2 DEF Notices, Marks
  <1>3. CASE StreamFinishes \/ DevicesChange \/ CheckerLeaves \/ UNCHANGED deviceVars
    BY <1>3 DEF StreamFinishes, DevicesChange, CheckerLeaves, deviceVars
  <1> QED
    BY <1>1, <1>2, <1>3 DEF DeviceNext, Callers

(* A detection is noticed, marked, and then answered.                        *)
LEMMA DetectorFrame ==
  [DeviceNext]_deviceVars =>
      \/ \E d \in Detectors : Notices(d) \/ Marks(d) \/ Spawn(d)
      \/ StreamFinishes \/ DevicesChange
      \/ UNCHANGED <<detector, notices>>
  <1> SUFFICES ASSUME [DeviceNext]_deviceVars,
                      ~(\E d \in Detectors : Notices(d) \/ Marks(d) \/ Spawn(d)),
                      ~StreamFinishes, ~DevicesChange
               PROVE  UNCHANGED <<detector, notices>>
    OBVIOUS
  <1>1. CASE Callers
    BY <1>1 DEF Callers, CallerSteps, StartReset, StartOpens, StartFindsNoDevice,
                StartIsForbidden, StartRecords, StartFinishes, StartFails, StartUndoes,
                EndTearsDown, EndBegins, noticeVars
  <1>2. CASE CheckerLeaves \/ UNCHANGED deviceVars
    BY <1>2 DEF CheckerLeaves, deviceVars, noticeVars
  <1>3. ASSUME NEW h \in Handlers, HandlerSteps(h) PROVE UNCHANGED <<detector, notices>>
    BY <1>3 DEF HandlerSteps, HandlerGivesUp, HandlerRetries, HandlerSurrenders,
                HandlerTearsDown, HandlerLocks, HandlerOpens, HandlerFails, HandlerAssigns,
                HandlerClears, HandlerCountsFlap, HandlerTells, HandlerEnds, noticeVars
  <1> QED
    BY <1>1, <1>2, <1>3 DEF DeviceNext, Callers

----------------------------------------------------------------------------
(* The types, part by part.                                                  *)

Flags ==
    /\ recording \in BOOLEAN /\ userStop \in BOOLEAN /\ running \in BOOLEAN
    /\ lost \in BOOLEAN /\ told \in BOOLEAN /\ checker \in BOOLEAN
    /\ checkerStop \in BOOLEAN /\ crossed \in BOOLEAN
ControlKinds == caller \in CallerStages /\ gen \in Nat /\ starts \in Nat
StreamKinds ==
    /\ serial \in Nat /\ stream \in 0..serial /\ opened \subseteq 1..serial
    /\ lockedBy \in Handlers \cup {NoHandler}
HandlerKinds ==
    handler \in [Handlers -> [at : HandlerStages, gen : Nat, new : 0..serial]]
LossKinds == retries \in 0..MaxRetries /\ flaps \in 0..(MaxFlaps - 1)
NoticeKinds ==
    /\ detector \in [Detectors -> [at : {"idle", "seen", "marked"}, gen : Nat]]
    /\ notices \in Nat

LEMMA Kinds ==
  DeviceTypeOK <=> /\ ControlKinds /\ StreamKinds /\ HandlerKinds /\ LossKinds
                   /\ NoticeKinds /\ Flags
  BY DEF DeviceTypeOK, ControlKinds, StreamKinds, HandlerKinds, LossKinds, NoticeKinds,
         Flags

LEMMA ControlStep == ControlKinds /\ [DeviceNext]_deviceVars => ControlKinds'
  <1> SUFFICES ASSUME ControlKinds, [DeviceNext]_deviceVars PROVE ControlKinds'
    OBVIOUS
  <1>1. CASE UNCHANGED controlVars
    BY <1>1 DEF controlVars, ControlKinds
  <1>2. ASSUME caller' \in CallerStages, starts' \in {starts, starts + 1},
               gen' \in {gen, gen + 1}
        PROVE  ControlKinds'
    BY <1>2 DEF ControlKinds
  <1>3. CASE StartReset
    BY <1>2, <1>3 DEF StartReset, CallerStages
  <1>4. ASSUME NEW how \in {"stopping", "discarding"}, EndBegins(how) PROVE ControlKinds'
    BY <1>2, <1>4 DEF EndBegins, CallerStages
  <1>5. CASE CallerSteps
    BY <1>2, <1>5 DEF CallerSteps, StartOpens, StartFindsNoDevice, StartIsForbidden,
                      StartRecords, StartFinishes, StartFails, StartUndoes, EndTearsDown,
                      CallerStages
  <1> QED
    BY <1>1, <1>3, <1>4, <1>5, ControlFrame DEF Callers

(* The number of the newest stream only grows.                               *)
LEMMA SerialGrows ==
  ASSUME StreamKinds, [DeviceNext]_deviceVars
  PROVE  serial' \in Nat /\ 0..serial \subseteq 0..serial' /\ 1..serial \subseteq 1..serial'
  <1>1. serial' = serial \/ serial' = serial + 1
    <2>1. CASE StartOpens \/ StartFindsNoDevice \/ TearingDown
      BY <2>1 DEF StartOpens, StartFindsNoDevice, TearingDown, StartIsForbidden, StartUndoes,
                  EndTearsDown
    <2>2. ASSUME NEW h \in Handlers, StreamWriters(h)
          PROVE  serial' = serial \/ serial' = serial + 1
      BY <2>2 DEF StreamWriters, HandlerTearsDown, HandlerLocks, HandlerOpens, HandlerFails,
                  HandlerAssigns, HandlerCountsFlap
    <2>3. CASE UNCHANGED streamVars
      BY <2>3 DEF streamVars
    <2> QED
      BY <2>1, <2>2, <2>3, StreamFrame
  <1> QED
    BY <1>1 DEF StreamKinds

(* _teardown_stream closes the stream of the slot, or does nothing.          *)
LEMMA TeardownKeeps ==
  ASSUME StreamKinds, Teardown
  PROVE  stream' \in 0..serial /\ opened' \subseteq opened
  BY DEF Teardown, StreamKinds, NoStream

LEMMA StreamStep ==
  ASSUME StreamKinds, HandlerKinds, [DeviceNext]_deviceVars
  PROVE  StreamKinds'
  <1>1. CASE StartOpens \/ StartFindsNoDevice
    <2>1. /\ stream' = NoStream \/ stream' = serial'
          /\ \/ opened' = opened
             \/ opened' = opened \cup {serial'} /\ serial' = serial + 1
          /\ lockedBy' = lockedBy
      BY <1>1 DEF StartOpens, StartFindsNoDevice
    <2>2. serial \in Nat /\ serial' \in Nat /\ 1..serial \subseteq 1..serial'
      BY <2>1, SerialGrows DEF StreamKinds
    <2>3. stream' \in 0..serial'
      BY <2>1, <2>2 DEF NoStream
    <2>4. opened' \subseteq 1..serial'
      <3>1. opened \subseteq 1..serial'
        BY <2>2 DEF StreamKinds
      <3>2. serial' = serial + 1 => serial' \in 1..serial'
        BY <2>2
      <3> QED
        BY <2>1, <3>1, <3>2
    <2> QED
      BY <2>1, <2>2, <2>3, <2>4 DEF StreamKinds
  <1>2. CASE Teardown /\ UNCHANGED <<serial, lockedBy>>
    BY <1>2, TeardownKeeps DEF StreamKinds
  <1>3. CASE TearingDown
    BY <1>2, <1>3 DEF TearingDown, StartIsForbidden, StartUndoes, EndTearsDown
  <1>4. ASSUME NEW h \in Handlers, StreamWriters(h) PROVE StreamKinds'
    <2>1. CASE HandlerTearsDown(h)
      BY <1>2, <2>1 DEF HandlerTearsDown
    <2>2. CASE HandlerOpens(h)
      <3>1. /\ serial' = serial + 1 /\ stream' = stream
            /\ opened' = opened \/ opened' = opened \cup {serial + 1}
            /\ lockedBy' \in {lockedBy, NoHandler}
        BY <2>2 DEF HandlerOpens, LeavesEarly, Unlock
      <3>2. 0..serial \subseteq 0..serial' /\ 1..serial \subseteq 1..serial'
            /\ serial' \in Nat /\ serial + 1 \in 1..serial'
        BY <3>1, SerialGrows DEF StreamKinds
      <3> QED
        BY <3>1, <3>2 DEF StreamKinds
    <2>3. CASE HandlerFails(h) \/ HandlerCountsFlap(h) \/ HandlerLocks(h)
      <3>1. /\ UNCHANGED <<serial, stream, opened>>
            /\ lockedBy' \in {lockedBy, NoHandler, h}
        BY <2>3 DEF HandlerFails, HandlerCountsFlap, HandlerLocks, Unlock
      <3> QED
        BY <3>1 DEF StreamKinds
    <2>4. CASE HandlerAssigns(h)
      BY <2>4 DEF HandlerAssigns, HandlerKinds, StreamKinds
    <2> QED
      BY <1>4, <2>1, <2>2, <2>3, <2>4 DEF StreamWriters
  <1>5. CASE UNCHANGED streamVars
    BY <1>5 DEF streamVars, StreamKinds
  <1> QED
    BY <1>1, <1>3, <1>4, <1>5, StreamFrame

LEMMA HandlerStep ==
  ASSUME StreamKinds, HandlerKinds, NoticeKinds, [DeviceNext]_deviceVars
  PROVE  HandlerKinds'
  <1>0. handler \in [Handlers -> [at : HandlerStages, gen : Nat, new : 0..serial']]
    BY SerialGrows DEF HandlerKinds
  <1>1. ASSUME NEW d \in Detectors, Spawn(d) PROVE HandlerKinds'
    <2>1. CASE InFlight
      BY <1>0, <1>1, <2>1 DEF Spawn, HandlerKinds
    <2>2. CASE ~InFlight
      <3> DEFINE h == CHOOSE free \in Handlers : ~Active(free)
                 new == [at |-> IF d = "permission" THEN "tell" ELSE "begin",
                         gen |-> detector[d].gen, new |-> NoStream]
      <3>1. handler' = [handler EXCEPT ![h] = new]
        BY <1>1, <2>2 DEF Spawn
      <3>2. new \in [at : HandlerStages, gen : Nat, new : 0..serial']
        BY SerialGrows DEF NoticeKinds, HandlerStages, NoStream
      <3> QED
        BY <1>0, <3>1, <3>2 DEF HandlerKinds
    <2> QED
      BY <2>1, <2>2
  <1>2. ASSUME NEW h \in Handlers, HandlerSteps(h) PROVE HandlerKinds'
    <2>1. CASE HandlerEnds(h)
      BY <1>0, <2>1, SerialGrows DEF HandlerEnds, HandlerKinds, HandlerStages, NoStream
    <2>2. CASE HandlerOpens(h)
      <3>1. Stale(h) \/ (serial' = serial + 1 /\ serial + 1 \in 0..serial')
        BY <2>2, SerialGrows DEF HandlerOpens, StreamKinds
      <3> QED
        BY <1>0, <2>2, <3>1 DEF HandlerOpens, Moves, HandlerKinds, HandlerStages
    <2>3. CASE ~HandlerEnds(h) /\ ~HandlerOpens(h)
      <3>1. \E from \in HandlerStages, to \in HandlerStages : Moves(h, from, to)
        BY <1>2, <2>3
        DEF HandlerSteps, HandlerGivesUp, HandlerRetries, HandlerSurrenders,
            HandlerTearsDown, HandlerLocks, HandlerFails, HandlerAssigns, HandlerClears,
            HandlerCountsFlap, HandlerTells, HandlerStages
      <3> QED
        BY <1>0, <3>1 DEF Moves, HandlerKinds
    <2> QED
      BY <2>1, <2>2, <2>3
  <1>3. CASE UNCHANGED handler
    BY <1>0, <1>3 DEF HandlerKinds
  <1> QED
    BY <1>1, <1>2, <1>3, HandlerFrame

LEMMA NoticeStep ==
  ASSUME ControlKinds, NoticeKinds, [DeviceNext]_deviceVars
  PROVE  NoticeKinds'
  <1> USE DEF NoticeKinds
  <1>1. ASSUME NEW d \in Detectors, Notices(d) \/ Marks(d) \/ Spawn(d) PROVE NoticeKinds'
    BY <1>1 DEF Notices, Marks, Spawn, DetectorAt, ControlKinds
  <1>2. CASE StreamFinishes \/ DevicesChange
    BY <1>2 DEF StreamFinishes, DevicesChange, ControlKinds
  <1>3. CASE UNCHANGED <<detector, notices>>
    BY <1>3
  <1> QED
    BY <1>1, <1>2, <1>3, DetectorFrame

LEMMA FlagStep == Flags /\ [DeviceNext]_deviceVars => Flags'
  <1> SUFFICES ASSUME Flags, [DeviceNext]_deviceVars PROVE Flags'
    OBVIOUS
  <1> USE DEF Flags, controlVars, lossVars, noticeVars, deviceVars
  <1>1. CASE StartReset \/ StartOpens \/ StartFindsNoDevice \/ StartIsForbidden \/ StartRecords
    BY Zenon, <1>1 DEF StartReset, StartOpens, StartFindsNoDevice, StartIsForbidden,
                       StartRecords
  <1>2. CASE StartFinishes \/ StartFails \/ StartUndoes \/ EndTearsDown
    BY Zenon, <1>2 DEF StartFinishes, StartFails, StartUndoes, EndTearsDown
  <1>3. ASSUME NEW how \in {"stopping", "discarding"}, EndBegins(how) PROVE Flags'
    BY Zenon, <1>3 DEF EndBegins
  <1>4. ASSUME NEW d \in Detectors, Notices(d) \/ Marks(d) \/ Spawn(d) PROVE Flags'
    BY Zenon, <1>4 DEF Notices, Marks, Spawn
  <1>5. CASE StreamFinishes \/ DevicesChange \/ CheckerLeaves \/ UNCHANGED deviceVars
    BY Zenon, <1>5 DEF StreamFinishes, DevicesChange, CheckerLeaves
  <1>6. ASSUME NEW h \in Handlers, HandlerSteps(h) PROVE Flags'
    <2>1. CASE HandlerGivesUp(h) \/ HandlerRetries(h) \/ HandlerSurrenders(h)
      BY Zenon, <2>1 DEF HandlerGivesUp, HandlerRetries, HandlerSurrenders
    <2>2. CASE HandlerTearsDown(h) \/ HandlerLocks(h) \/ HandlerOpens(h)
      BY Zenon, <2>2 DEF HandlerTearsDown, HandlerLocks, HandlerOpens
    <2>3. CASE HandlerFails(h) \/ HandlerAssigns(h)
      BY Zenon, <2>3 DEF HandlerFails, HandlerAssigns, AfterFailure
    <2>4. CASE HandlerClears(h) \/ HandlerCountsFlap(h)
      BY Zenon, <2>4 DEF HandlerClears, HandlerCountsFlap, AfterFailure
    <2>5. CASE HandlerTells(h) \/ HandlerEnds(h)
      BY Zenon, <2>5 DEF HandlerTells, HandlerEnds
    <2> QED
      BY <1>6, <2>1, <2>2, <2>3, <2>4, <2>5 DEF HandlerSteps
  <1> QED
    BY <1>1, <1>2, <1>3, <1>4, <1>5, <1>6 DEF DeviceNext, CallerSteps

LEMMA LossStep == LossKinds /\ [DeviceNext]_deviceVars => LossKinds'
  <1> SUFFICES ASSUME LossKinds, [DeviceNext]_deviceVars PROVE LossKinds'
    OBVIOUS
  <1>0. MaxRetries \in Nat \ {0} /\ MaxFlaps \in Nat \ {0}
    BY DeviceAssumption DEF DeviceConstants
  <1>1. ASSUME retries' \in {retries, 0}, flaps' \in {flaps, 0} PROVE LossKinds'
    BY <1>0, <1>1 DEF LossKinds
  <1>2. CASE Callers
    BY <1>1, <1>2
    DEF Callers, CallerSteps, StartReset, StartOpens, StartFindsNoDevice, StartIsForbidden,
        StartRecords, StartFinishes, StartFails, StartUndoes, EndTearsDown, EndBegins,
        lossVars
  <1>3. ASSUME NEW d \in Detectors, Notices(d) \/ Marks(d) \/ Spawn(d) PROVE LossKinds'
    BY <1>1, <1>3 DEF Notices, Marks, Spawn, lossVars
  <1>4. CASE StreamFinishes \/ DevicesChange \/ CheckerLeaves \/ UNCHANGED deviceVars
    BY <1>1, <1>4 DEF StreamFinishes, DevicesChange, CheckerLeaves, deviceVars, lossVars
  <1>5. ASSUME NEW h \in Handlers, HandlerSteps(h) PROVE LossKinds'
    <2>1. CASE HandlerRetries(h)
      <3>1. retries < MaxRetries /\ retries' = retries + 1 /\ flaps' = flaps
        BY <2>1 DEF HandlerRetries
      <3> QED
        BY <1>0, <3>1 DEF LossKinds
    <2>2. CASE HandlerSurrenders(h) \/ HandlerFails(h) \/ HandlerClears(h)
      BY <1>1, <2>2 DEF HandlerSurrenders, HandlerFails, HandlerClears, AfterFailure
    <2>3. CASE HandlerCountsFlap(h)
      <3>1. \/ flaps' = 0
            \/ flaps' = flaps + 1 /\ ~(flaps + 1 >= MaxFlaps)
        BY <2>3 DEF HandlerCountsFlap, Flapping
      <3>2. retries' = retries
        BY <2>3 DEF HandlerCountsFlap
      <3> QED
        BY <1>0, <3>1, <3>2 DEF LossKinds
    <2>4. CASE \/ HandlerGivesUp(h) \/ HandlerTearsDown(h) \/ HandlerLocks(h)
               \/ HandlerOpens(h) \/ HandlerAssigns(h) \/ HandlerTells(h) \/ HandlerEnds(h)
      BY <1>1, <2>4 DEF HandlerGivesUp, HandlerTearsDown, HandlerLocks, HandlerOpens,
                        HandlerAssigns, HandlerTells, HandlerEnds, lossVars
    <2> QED
      BY <1>5, <2>1, <2>2, <2>3, <2>4 DEF HandlerSteps
  <1> QED
    BY <1>2, <1>3, <1>4, <1>5 DEF DeviceNext, Callers

LEMMA DeviceTypeStep == DeviceTypeOK /\ [DeviceNext]_deviceVars => DeviceTypeOK'
  <1> SUFFICES ASSUME DeviceTypeOK, [DeviceNext]_deviceVars PROVE DeviceTypeOK'
    OBVIOUS
  <1>1. /\ ControlKinds /\ StreamKinds /\ HandlerKinds /\ LossKinds /\ NoticeKinds
        /\ Flags
    BY Kinds
  <1>2. /\ ControlKinds' /\ StreamKinds' /\ HandlerKinds' /\ LossKinds' /\ NoticeKinds'
        /\ Flags'
    BY <1>1, ControlStep, StreamStep, HandlerStep, LossStep, NoticeStep, FlagStep
  <1> QED
    BY <1>2 DEF DeviceTypeOK, ControlKinds, StreamKinds, HandlerKinds, LossKinds,
                NoticeKinds, Flags

----------------------------------------------------------------------------
(* What a step does to the generation, to the recording and to a handler.    *)

LEMMA CrossedStays == [DeviceNext]_deviceVars /\ ~crossed' => ~crossed
  <1> SUFFICES ASSUME [DeviceNext]_deviceVars, crossed PROVE crossed'
    OBVIOUS
  <1> USE DEF controlVars, lossVars, noticeVars, deviceVars
  <1>1. CASE StartReset \/ CallerSteps
    BY <1>1 DEF CallerSteps, StartReset, StartOpens, StartFindsNoDevice, StartIsForbidden,
                StartRecords, StartFinishes, StartFails, StartUndoes, EndTearsDown
  <1>2. ASSUME NEW how \in {"stopping", "discarding"}, EndBegins(how) PROVE crossed'
    BY <1>2 DEF EndBegins
  <1>3. ASSUME NEW d \in Detectors, Notices(d) \/ Marks(d) \/ Spawn(d) PROVE crossed'
    BY <1>3 DEF Notices, Marks, Spawn
  <1>4. CASE StreamFinishes \/ DevicesChange \/ CheckerLeaves \/ UNCHANGED deviceVars
    BY <1>4 DEF StreamFinishes, DevicesChange, CheckerLeaves
  <1>5. ASSUME NEW h \in Handlers, HandlerSteps(h) PROVE crossed'
    BY <1>5 DEF HandlerSteps, HandlerGivesUp, HandlerRetries, HandlerSurrenders,
                HandlerTearsDown, HandlerLocks, HandlerOpens, HandlerFails, HandlerAssigns,
                HandlerClears, HandlerCountsFlap, HandlerTells, HandlerEnds
  <1> QED
    BY <1>1, <1>2, <1>3, <1>4, <1>5 DEF DeviceNext

LEMMA RecordingStep == RecordingFollows /\ [DeviceNext]_deviceVars => RecordingFollows'
  <1> SUFFICES ASSUME RecordingFollows, [DeviceNext]_deviceVars PROVE RecordingFollows'
    OBVIOUS
  <1> USE DEF RecordingFollows
  <1>1. CASE UNCHANGED controlVars
    BY <1>1 DEF controlVars
  <1>2. CASE StartReset \/ StartOpens \/ StartFindsNoDevice \/ StartIsForbidden \/ StartRecords
    BY <1>2 DEF StartReset, StartOpens, StartFindsNoDevice, StartIsForbidden, StartRecords
  <1>3. CASE StartFinishes \/ StartFails \/ StartUndoes \/ EndTearsDown
    BY <1>3 DEF StartFinishes, StartFails, StartUndoes, EndTearsDown
  <1>4. ASSUME NEW how \in {"stopping", "discarding"}, EndBegins(how)
        PROVE  RecordingFollows'
    BY <1>4 DEF EndBegins
  <1> QED
    BY <1>1, <1>2, <1>3, <1>4, ControlFrame DEF Callers, CallerSteps

(* A recording ends, and a generation with it, while nothing is pending, or  *)
(* the run is crossed.                                                       *)
LEMMA EndsQuietly ==
  ASSUME RecordingFollows, [DeviceNext]_deviceVars, ~crossed'
  PROVE  \/ gen' = gen /\ (recording => recording')
         \/ /\ Quiet /\ UNCHANGED <<handler, detector, opened, stream>>
            /\ caller' \notin {"idle", "opening"}
  <1>1. CASE UNCHANGED controlVars
    BY <1>1 DEF controlVars
  <1>2. CASE StartReset \/ StartOpens \/ StartFindsNoDevice \/ StartIsForbidden \/ StartRecords
    BY <1>2 DEF StartReset, StartOpens, StartFindsNoDevice, StartIsForbidden, StartRecords
  <1>3. CASE StartFinishes \/ StartUndoes \/ EndTearsDown
    BY <1>3 DEF StartFinishes, StartUndoes, EndTearsDown
  <1>4. CASE StartFails \/ \E how \in {"stopping", "discarding"} : EndBegins(how)
    BY <1>4 DEF StartFails, EndBegins, streamVars, noticeVars
  <1> QED
    BY <1>1, <1>2, <1>3, <1>4, ControlFrame DEF Callers, CallerSteps

(* A handler's step moves that handler, which was active, and keeps its      *)
(* generation until it ends.                                                 *)
LEMMA HandlerShape ==
  ASSUME HandlerKinds, NEW h \in Handlers, HandlerSteps(h)
  PROVE  /\ Active(h)
         /\ \A k \in Handlers \ {h} : handler'[k] = handler[k]
         /\ handler'[h].at = "off" \/ handler'[h].gen = handler[h].gen
  <1>1. CASE HandlerOpens(h)
    BY <1>1 DEF HandlerOpens, Moves, HandlerKinds, Active
  <1>2. CASE HandlerEnds(h)
    BY <1>2 DEF HandlerEnds, HandlerKinds, Active
  <1>3. CASE ~HandlerOpens(h) /\ ~HandlerEnds(h)
    <2>1. \E from \in HandlerStages \ {"off"}, to \in HandlerStages : Moves(h, from, to)
      BY <1>3
      DEF HandlerSteps, HandlerGivesUp, HandlerRetries, HandlerSurrenders, HandlerTearsDown,
          HandlerLocks, HandlerFails, HandlerAssigns, HandlerClears, HandlerCountsFlap,
          HandlerTells, HandlerStages
    <2> QED
      BY <2>1 DEF Moves, HandlerKinds, Active
  <1> QED
    BY <1>1, <1>2, <1>3

(* The thread that is spawned, unless one is running already.                *)
LEMMA SpawnShape ==
  ASSUME HandlerKinds, NEW d \in Detectors, Spawn(d)
  PROVE  \/ UNCHANGED handler
         \/ \E h \in Handlers :
               /\ ~Active(h)
               /\ handler' = [handler EXCEPT ![h] =
                     [at |-> IF d = "permission" THEN "tell" ELSE "begin",
                      gen |-> detector[d].gen, new |-> NoStream]]
               /\ crossed' = (crossed \/ \E other \in Handlers : Active(other))
  <1>1. CASE InFlight
    BY <1>1 DEF Spawn
  <1>2. CASE ~InFlight
    BY <1>2 DEF Spawn
  <1> QED
    BY <1>1, <1>2

----------------------------------------------------------------------------
(* The parts of the invariant.                                               *)

LEMMA LockStep ==
  ASSUME HandlerKinds, LockFollows, [DeviceNext]_deviceVars
  PROVE  LockFollows'
  <1>0. NoHandler \notin Handlers
    BY DeviceAssumption DEF DeviceConstants
  <1> USE DEF LockFollows, Locking
  <1>1. CASE UNCHANGED handler /\ UNCHANGED lockedBy
    BY <1>1
  <1>2. ASSUME NEW d \in Detectors, Spawn(d) PROVE LockFollows'
    <2>1. lockedBy' = lockedBy
      BY <1>2 DEF Spawn, streamVars
    <2>2. CASE UNCHANGED handler
      BY <1>1, <2>1, <2>2
    <2>3. ASSUME NEW h \in Handlers, ~Active(h),
                 handler' = [handler EXCEPT ![h] =
                     [at |-> IF d = "permission" THEN "tell" ELSE "begin",
                      gen |-> detector[d].gen, new |-> NoStream]]
          PROVE  LockFollows'
      <3>1. handler[h].at \notin Locking /\ handler'[h].at \notin Locking
        BY <2>3 DEF Active, HandlerKinds
      <3>2. \A k \in Handlers : handler'[k].at \in Locking <=> handler[k].at \in Locking
        BY <2>3, <3>1 DEF HandlerKinds
      <3> QED
        BY <2>1, <3>2
    <2> QED
      BY <1>2, <2>2, <2>3, SpawnShape
  <1>3. ASSUME NEW h \in Handlers, HandlerSteps(h) PROVE LockFollows'
    <2>0. \A k \in Handlers \ {h} : handler'[k] = handler[k]
      BY <1>3, HandlerShape
    <2>1. CASE \/ HandlerGivesUp(h) \/ HandlerRetries(h) \/ HandlerSurrenders(h)
               \/ HandlerTearsDown(h) \/ HandlerTells(h) \/ HandlerEnds(h)
      <3>1. /\ lockedBy' = lockedBy
            /\ handler[h].at \notin Locking /\ handler'[h].at \notin Locking
        BY <2>1 DEF HandlerGivesUp, HandlerRetries, HandlerSurrenders, HandlerTearsDown,
                    HandlerTells, HandlerEnds, Moves, HandlerKinds, streamVars
      <3> QED
        BY <2>0, <3>1
    <2>2. CASE HandlerLocks(h)
      <3>1. /\ lockedBy = NoHandler
            /\ \/ lockedBy' = NoHandler /\ handler'[h].at \notin Locking
               \/ lockedBy' = h /\ handler'[h].at \in Locking
        BY <2>2 DEF HandlerLocks, Moves, HandlerKinds
      <3> QED
        BY <1>0, <2>0, <3>1
    <2>3. CASE HandlerOpens(h)
      <3>1. /\ handler[h].at \in Locking
            /\ \/ lockedBy' = NoHandler /\ handler'[h].at \notin Locking
               \/ lockedBy' = lockedBy /\ handler'[h].at \in Locking
        BY <2>3 DEF HandlerOpens, LeavesEarly, Unlock, Moves, HandlerKinds
      <3> QED
        BY <1>0, <2>0, <3>1
    <2>4. CASE HandlerFails(h) \/ HandlerCountsFlap(h)
      <3>1. /\ handler[h].at \in Locking
            /\ lockedBy' = NoHandler /\ handler'[h].at \notin Locking
        BY <2>4 DEF HandlerFails, HandlerCountsFlap, Unlock, Moves, HandlerKinds
      <3> QED
        BY <1>0, <2>0, <3>1
    <2>5. CASE HandlerAssigns(h) \/ HandlerClears(h)
      <3>1. /\ handler[h].at \in Locking
            /\ lockedBy' = lockedBy /\ handler'[h].at \in Locking
        BY <2>5 DEF HandlerAssigns, HandlerClears, Moves, HandlerKinds, streamVars
      <3> QED
        BY <1>0, <2>0, <3>1
    <2> QED
      BY <1>3, <2>1, <2>2, <2>3, <2>4, <2>5 DEF HandlerSteps
  <1>4. CASE UNCHANGED handler /\ ~UNCHANGED lockedBy
    <2>1. CASE StartOpens \/ StartFindsNoDevice \/ TearingDown
      BY <1>4, <2>1 DEF StartOpens, StartFindsNoDevice, TearingDown, StartIsForbidden,
                        StartUndoes, EndTearsDown
    <2>2. ASSUME NEW h \in Handlers, StreamWriters(h) PROVE HandlerSteps(h)
      BY <2>2 DEF StreamWriters, HandlerSteps
    <2> QED
      BY <1>3, <1>4, <2>1, <2>2, StreamFrame DEF streamVars
  <1> QED
    BY <1>1, <1>2, <1>3, <1>4, HandlerFrame

LEMMA CurrentStep ==
  ASSUME ControlKinds, HandlerKinds, NoticeKinds, RecordingFollows, Current,
         [DeviceNext]_deviceVars, ~crossed'
  PROVE  Current'
  <1>1. CASE /\ Quiet /\ UNCHANGED <<handler, detector>>
    BY <1>1 DEF Quiet, Current, Active
  <1>2. CASE gen' = gen
    <2>1. \A d \in Detectors : detector'[d].at = "marked" => detector'[d].gen = gen
      <3>1. ASSUME NEW d \in Detectors, Notices(d) \/ Marks(d) \/ Spawn(d)
            PROVE  \A e \in Detectors : detector'[e].at = "marked" => detector'[e].gen = gen
        BY <3>1 DEF Notices, Marks, Spawn, DetectorAt, Current, NoticeKinds
      <3>2. CASE StreamFinishes \/ DevicesChange
        BY <3>2 DEF StreamFinishes, DevicesChange, Current, NoticeKinds
      <3>3. CASE UNCHANGED <<detector, notices>>
        BY <3>3 DEF Current
      <3> QED
        BY <3>1, <3>2, <3>3, DetectorFrame
    <2>2. \A h \in Handlers : handler'[h].at # "off" => handler'[h].gen = gen
      <3>1. ASSUME NEW d \in Detectors, Spawn(d)
            PROVE  \A h \in Handlers : handler'[h].at # "off" => handler'[h].gen = gen
        <4>1. detector[d].gen = gen
          BY <3>1 DEF Spawn, DetectorAt, Current
        <4> QED
          BY <3>1, <4>1, SpawnShape DEF Current, Active, HandlerKinds
      <3>2. ASSUME NEW h \in Handlers, HandlerSteps(h)
            PROVE  \A k \in Handlers : handler'[k].at # "off" => handler'[k].gen = gen
        BY <3>2, HandlerShape DEF Current, Active
      <3>3. CASE UNCHANGED handler
        BY <3>3 DEF Current, Active
      <3> QED
        BY <3>1, <3>2, <3>3, HandlerFrame
    <2> QED
      BY <1>2, <2>1, <2>2 DEF Current, Active
  <1> QED
    BY <1>1, <1>2, EndsQuietly

LEMMA AloneStep ==
  ASSUME HandlerKinds, RecordingFollows, Alone, [DeviceNext]_deviceVars, ~crossed'
  PROVE  Alone'
  <1>1. CASE /\ Quiet /\ UNCHANGED <<handler, detector>>
    BY <1>1 DEF Quiet, Alone, Active, Reopening
  <1>2. CASE recording => recording'
    <2>1. ASSUME NEW d \in Detectors, Spawn(d) PROVE Alone'
      <3>1. CASE UNCHANGED handler
        BY <1>2, <3>1 DEF Alone, Active
      <3>2. CASE ~UNCHANGED handler
        <4>1. PICK h \in Handlers :
                 /\ handler' = [handler EXCEPT ![h] =
                     [at |-> IF d = "permission" THEN "tell" ELSE "begin",
                      gen |-> detector[d].gen, new |-> NoStream]]
                 /\ ~ \E other \in Handlers : Active(other)
          BY <2>1, <3>2, SpawnShape
        <4>2. handler'[h].at \notin Reopening
          BY <4>1 DEF HandlerKinds, Reopening
        <4>3. \A k \in Handlers \ {h} : handler'[k].at = "off"
          BY <4>1 DEF HandlerKinds, Active
        <4> QED
          BY <4>2, <4>3 DEF Alone, Active, Reopening
      <3> QED
        BY <3>1, <3>2
    <2>2. ASSUME NEW h \in Handlers, HandlerSteps(h) PROVE Alone'
      <3>1. handler'[h].at \in Reopening => handler[h].at \in Reopening \/ recording
        <4>1. CASE HandlerOpens(h) \/ HandlerEnds(h)
          BY <4>1 DEF HandlerOpens, HandlerEnds, Moves, HandlerKinds, Reopening
        <4>2. CASE ~HandlerOpens(h) /\ ~HandlerEnds(h)
          BY <2>2, <4>2
          DEF HandlerSteps, HandlerGivesUp, HandlerRetries, HandlerSurrenders,
              HandlerTearsDown, HandlerLocks, HandlerFails, HandlerAssigns, HandlerClears,
              HandlerCountsFlap, HandlerTells, Moves, HandlerKinds, Reopening
        <4> QED
          BY <4>1, <4>2
      <3> QED
        BY <1>2, <2>2, <3>1, HandlerShape DEF Alone, Active
    <2>3. CASE UNCHANGED handler
      BY <1>2, <2>3 DEF Alone, Active
    <2> QED
      BY <2>1, <2>2, <2>3, HandlerFrame
  <1> QED
    BY <1>1, <1>2, EndsQuietly

(* The places of the open streams.  A step that opens and closes nothing     *)
(* keeps them if it makes no handler expect more than before; ...            *)
LEMMA PlacedKept ==
  ASSUME Placed, UNCHANGED <<opened, stream>>,
         caller' \in {"idle", "opening"} => opened = {},
         \A h \in Handlers : handler'[h].at \in {"lock", "open"} => opened = {},
         \A h \in Handlers : handler'[h].at = "assign" => handler'[h] = handler[h],
         \A h \in Handlers : handler[h].at = "assign" => handler'[h] = handler[h]
  PROVE  Placed'
  BY DEF Placed

(* ... outside a recording the lock is free and every open stream is in the  *)
(* slot; ...                                                                 *)
LEMMA Outside ==
  ASSUME RecordingFollows, LockFollows, Alone, Placed, caller \notin {"workers", "live"}
  PROVE  /\ lockedBy = NoHandler
         /\ \A h \in Handlers : handler[h].at \notin Reopening
         /\ opened \subseteq {stream}
  BY DEF RecordingFollows, LockFollows, Alone, Placed, Locking, Reopening

(* ... and a handler that reopens is the only one, within a recording.       *)
LEMMA Inside ==
  ASSUME RecordingFollows, LockFollows, Alone, NEW h \in Handlers, handler[h].at \in Reopening
  PROVE  /\ caller \notin {"idle", "opening"}
         /\ \A k \in Handlers \ {h} : handler[k].at = "off"
         /\ lockedBy \in {NoHandler, h}
  BY DEF RecordingFollows, LockFollows, Alone, Active, Locking, Reopening

LEMMA PlacedStep ==
  ASSUME ControlKinds, StreamKinds, HandlerKinds, RecordingFollows, LockFollows, Current, Alone,
         Placed, [DeviceNext]_deviceVars, ~crossed'
  PROVE  Placed'
  <1>1. ASSUME NEW d \in Detectors, Spawn(d) PROVE Placed'
    <2>1. UNCHANGED <<opened, stream>> /\ caller' = caller
      BY <1>1 DEF Spawn, controlVars, streamVars
    <2>2. \A h \in Handlers : \/ handler'[h] = handler[h]
                              \/ handler[h].at = "off" /\ handler'[h].at \in {"tell", "begin"}
      BY <1>1, SpawnShape DEF HandlerKinds, Active
    <2> QED
      BY <2>1, <2>2, PlacedKept DEF Placed
  <1>2. ASSUME NEW h \in Handlers, HandlerSteps(h) PROVE Placed'
    <2>0. /\ caller' = caller
          /\ \A k \in Handlers \ {h} : handler'[k] = handler[k]
      BY <1>2, HandlerShape
      DEF HandlerSteps, HandlerGivesUp, HandlerRetries, HandlerSurrenders, HandlerTearsDown,
          HandlerLocks, HandlerOpens, HandlerFails, HandlerAssigns, HandlerClears,
          HandlerCountsFlap, HandlerTells, HandlerEnds, controlVars
    <2>1. CASE \/ HandlerGivesUp(h) \/ HandlerRetries(h) \/ HandlerSurrenders(h)
               \/ HandlerClears(h) \/ HandlerTells(h) \/ HandlerEnds(h)
               \/ HandlerCountsFlap(h)
      <3>1. /\ UNCHANGED <<opened, stream>>
            /\ handler[h].at # "assign" /\ handler'[h].at \notin {"lock", "open", "assign"}
        BY <2>1 DEF HandlerGivesUp, HandlerRetries, HandlerSurrenders, HandlerClears,
                    HandlerCountsFlap, HandlerTells, HandlerEnds, Moves, HandlerKinds,
                    streamVars
      <3>2. \A k \in Handlers : handler'[k].at \in {"lock", "open"} => opened = {}
        BY <2>0, <3>1 DEF Placed
      <3>3. \A k \in Handlers : handler'[k].at = "assign" \/ handler[k].at = "assign"
                                => handler'[k] = handler[k]
        BY <2>0, <3>1
      <3>4. caller' \in {"idle", "opening"} => opened = {}
        BY <2>0 DEF Placed
      <3> QED
        BY <3>1, <3>2, <3>3, <3>4, PlacedKept
    <2>2. CASE HandlerTearsDown(h)
      <3>1. handler[h].at = "teardown" /\ handler'[h].at = "lock" /\ Teardown
        BY <2>2 DEF HandlerTearsDown, Moves, HandlerKinds
      <3>2. \A k \in Handlers \ {h} : handler[k].at = "off"
        BY <3>1, Inside DEF Reopening
      <3>3. lockedBy = NoHandler
        BY <3>1, Inside DEF Reopening, LockFollows, Locking
      <3>4. opened \subseteq {stream}
        BY <3>1, <3>2 DEF Placed
      <3>5. opened' = {}
        BY <3>1, <3>3, <3>4 DEF Teardown
      <3> QED
        BY <3>5 DEF Placed
    <2>3. CASE HandlerLocks(h) \/ HandlerFails(h)
      <3>1. /\ UNCHANGED <<opened, stream>>
            /\ handler[h].at \in {"lock", "open"} /\ handler'[h].at # "assign"
        BY <2>3 DEF HandlerLocks, HandlerFails, Moves, HandlerKinds
      <3>2. opened' = {}
        BY <3>1 DEF Placed
      <3> QED
        BY <3>2 DEF Placed
    <2>4. CASE HandlerOpens(h)
      <3>1. handler[h].at = "open" /\ opened = {} /\ ~Stale(h)
        BY <2>4 DEF HandlerOpens, Placed, Current, Active, Stale
      <3>2. /\ handler'[h].at = "assign" /\ handler'[h].new = serial + 1
            /\ opened' = {serial + 1}
        BY <2>4, <3>1 DEF HandlerOpens, HandlerKinds
      <3>3. /\ caller \notin {"idle", "opening"}
            /\ \A k \in Handlers \ {h} : handler[k].at = "off"
        BY <3>1, Inside DEF Reopening
      <3> QED
        BY <2>0, <3>2, <3>3 DEF Placed
    <2>5. CASE HandlerAssigns(h)
      <3>1. /\ handler[h].at = "assign" /\ handler'[h].at = "clear"
            /\ stream' = handler[h].new /\ opened' = opened
        BY <2>5 DEF HandlerAssigns, Moves, HandlerKinds
      <3>2. opened \subseteq {handler[h].new}
        BY <3>1 DEF Placed
      <3>3. /\ caller \notin {"idle", "opening"}
            /\ \A k \in Handlers \ {h} : handler[k].at = "off"
        BY <3>1, Inside DEF Reopening
      <3> QED
        BY <2>0, <3>1, <3>2, <3>3 DEF Placed
    <2> QED
      BY <1>2, <2>1, <2>2, <2>3, <2>4, <2>5 DEF HandlerSteps
  <1>3. CASE UNCHANGED handler
    <2>1. CASE StartOpens
      <3>1. opened' = opened \cup {stream'} /\ caller = "opening" /\ caller' = "armed"
        BY <2>1 DEF StartOpens
      <3>2. opened = {} /\ \A h \in Handlers : handler[h].at \notin Reopening
        BY <3>1, Outside DEF Placed
      <3> QED
        BY <1>3, <3>1, <3>2 DEF Placed, Reopening
    <2>2. CASE StartFindsNoDevice
      <3>1. opened' = {}
        BY <2>2 DEF StartFindsNoDevice, Placed
      <3> QED
        BY <3>1 DEF Placed
    <2>3. CASE TearingDown
      <3>1. Teardown /\ caller \notin {"workers", "live"}
        BY <2>3 DEF TearingDown, StartIsForbidden, StartUndoes, EndTearsDown
      <3>2. opened' = {}
        BY <3>1, Outside DEF Teardown
      <3> QED
        BY <3>2 DEF Placed
    <2>4. ASSUME NEW h \in Handlers, StreamWriters(h) PROVE Placed'
      BY <1>2, <2>4 DEF StreamWriters, HandlerSteps
    <2>5. CASE UNCHANGED streamVars /\ ~StartOpens /\ ~StartFindsNoDevice /\ ~TearingDown
      <3>1. UNCHANGED <<opened, stream>>
        BY <2>5 DEF streamVars
      <3>2. caller' \in {"idle", "opening"} => caller \in {"idle", "opening"}
        <4>1. CASE UNCHANGED controlVars
          BY <4>1 DEF controlVars
        <4>2. CASE StartReset \/ StartRecords \/ StartFinishes \/ StartFails
          BY <4>2 DEF StartReset, StartRecords, StartFinishes, StartFails
        <4>3. ASSUME NEW how \in {"stopping", "discarding"}, EndBegins(how)
              PROVE  caller' \notin {"idle", "opening"}
          BY <4>3 DEF EndBegins
        <4> QED
          BY <2>5, <4>1, <4>2, <4>3, ControlFrame DEF Callers, CallerSteps, TearingDown
      <3> QED
        BY <1>3, <3>1, <3>2 DEF Placed
    <2> QED
      BY <2>1, <2>2, <2>3, <2>4, <2>5, StreamFrame
  <1> QED
    BY <1>1, <1>2, <1>3, HandlerFrame

----------------------------------------------------------------------------
(* The theorems.                                                             *)

LEMMA DeviceInitially == DeviceInit => DeviceIInv
  <1> SUFFICES ASSUME DeviceInit PROVE DeviceIInv
    OBVIOUS
  <1>0. MaxRetries \in Nat \ {0} /\ MaxFlaps \in Nat \ {0} /\ NoHandler \notin Handlers
    BY DeviceAssumption DEF DeviceConstants
  <1>1. DeviceTypeOK
    <2>1. Flags
      BY DEF DeviceInit, Flags
    <2>2. ControlKinds /\ StreamKinds /\ LossKinds
      BY <1>0 DEF DeviceInit, ControlKinds, StreamKinds, LossKinds, CallerStages, NoStream
    <2>3. HandlerKinds /\ NoticeKinds
      BY DEF DeviceInit, HandlerKinds, NoticeKinds, HandlerStages, NoStream
    <2> QED
      BY <2>1, <2>2, <2>3, Kinds
  <1>2. RecordingFollows /\ LockFollows
    BY <1>0 DEF DeviceInit, RecordingFollows, LockFollows, Locking
  <1>3. Current /\ Alone /\ Placed
    BY DEF DeviceInit, Current, Alone, Placed, Active, Reopening
  <1> QED
    BY <1>1, <1>2, <1>3 DEF DeviceIInv

LEMMA DeviceInduction == DeviceIInv /\ [DeviceNext]_deviceVars => DeviceIInv'
  <1> SUFFICES ASSUME DeviceIInv, [DeviceNext]_deviceVars PROVE DeviceIInv'
    OBVIOUS
  <1>1. /\ DeviceTypeOK /\ RecordingFollows /\ LockFollows
        /\ ControlKinds /\ StreamKinds /\ HandlerKinds /\ NoticeKinds
    BY Kinds DEF DeviceIInv
  <1>2. DeviceTypeOK'
    BY <1>1, DeviceTypeStep
  <1>3. RecordingFollows' /\ LockFollows'
    BY <1>1, RecordingStep, LockStep
  <1>4. ASSUME ~crossed' PROVE Current' /\ Alone' /\ Placed'
    <2>1. Current /\ Alone /\ Placed
      BY <1>4, CrossedStays DEF DeviceIInv
    <2> QED
      BY <1>1, <1>4, <2>1, CurrentStep, AloneStep, PlacedStep
  <1> QED
    BY <1>2, <1>3, <1>4 DEF DeviceIInv

LEMMA DeviceInvariance == DeviceSpec => []DeviceIInv
  BY DeviceInitially, DeviceInduction, PTL DEF DeviceSpec

(* The device side of the recorder keeps its types, for every number of      *)
(* handler threads, retries and restarts.                                    *)
THEOREM DeviceTypeCorrect == DeviceSpec => []DeviceTypeOK
  <1>1. DeviceIInv => DeviceTypeOK
    BY DEF DeviceIInv
  <1> QED
    BY <1>1, DeviceInvariance, PTL

(* A handler takes the stream lock and gives it back whatever ends the       *)
(* recording meanwhile, crossed or not: the lock is held by the handler that *)
(* is between its acquire and its release, and by no other thread            *)
(* (restart_stream, _stream_lifecycle_lock).                                 *)
THEOREM LockIsTheHandlers == DeviceSpec => []LockFollows
  <1>1. DeviceIInv => LockFollows
    BY DEF DeviceIInv
  <1> QED
    BY <1>1, DeviceInvariance, PTL

(* As long as no detection meets another one or the end of its recording, no *)
(* stream is forgotten while it is open, and the microphone is closed        *)
(* between two recordings (_teardown_stream, restart_stream).                *)
THEOREM DeviceHoldsItsStreams == DeviceSpec => []OpenStreamsAreHeld
  <1>1. DeviceIInv => OpenStreamsAreHeld
    BY DEF DeviceIInv, Placed, OpenStreamsAreHeld
  <1> QED
    BY <1>1, DeviceInvariance, PTL

----------------------------------------------------------------------------
(* The capture side: its inductive invariant.                                *)

Increasing(q) == \A i, j \in 1..Len(q) : i < j => q[i] < q[j]
Distinct(q)   == \A i, j \in 1..Len(q) : q[i] = q[j] => i = j
Precede(S, T) == \A x \in S, y \in T : x < y

Busy(w) == at[w] = "busy"

(* A worker that is processing has a chunk in its hand.                      *)
HandsFull == \A w \in Sessions : Busy(w) => hand[w] # 0

(* A session is counted when it starts, and its worker begins later.         *)
SessionsInTurn ==
    /\ phase # "idle" => session # 0
    /\ \A w \in Sessions : w > session => at[w] = "off"
    /\ active <=> phase \in {"recording", "rejoin", "live"}

(* Every chunk has been captured, ...                                        *)
CapturedBefore ==
    /\ first <= heard + 1
    /\ \A x \in ToSet(preroll) \cup ToSet(ring) \cup ToSet(kept) : x <= heard
    /\ \A w \in Sessions : hand[w] <= heard

(* ... is in one place at a time, with stalls and without, ...               *)
InOnePlace ==
    /\ Distinct(kept)
    /\ ToSet(preroll) \cap ToSet(ring) = {}
    /\ (ToSet(preroll) \cup ToSet(ring)) \cap ToSet(kept) = {}
    /\ \A w \in Sessions :
          Busy(w) => hand[w] \notin ToSet(preroll) \cup ToSet(ring) \cup ToSet(kept)
    /\ \A v, w \in Sessions : Busy(v) /\ Busy(w) /\ hand[v] = hand[w] => v = w

(* ... and waits behind the older ones.                                      *)
QueuesInOrder == Increasing(ring) /\ Increasing(preroll)

(* Without a stall the only worker is that of the session, which has begun   *)
(* before the recording ends and is joined before its buffer is taken; ...   *)
OneWorker ==
    /\ phase # "rejoin"
    /\ phase \in {"take", "idle", "open", "recording"} => ref = NoWorker
    /\ phase \in {"live", "teardown", "signal", "join"} => ref = session
    /\ \A w \in Sessions :
          Alive(w) => w = session /\ phase \in {"live", "teardown", "signal", "join"}
    /\ \A w \in Sessions : at[w] = "preroll" => phase = "live"

(* ... the buffer is in order and of the session, what is in the worker's    *)
(* hand comes after it, and what is in the ring after both.                  *)
BufferInOrder ==
    /\ \A s \in Sessions : Increasing(result[s])
    /\ Increasing(kept)
    /\ \A x \in ToSet(kept) : x >= first
    /\ phase \in {"idle", "open", "recording"} => kept = <<>>
    /\ phase \in {"open", "recording"} => \A x \in ToSet(preroll) : x >= first
    /\ \A w \in Sessions :
          /\ Alive(w) => \A x \in ToSet(ring) : x >= first
          /\ at[w] = "preroll" => /\ kept = <<>>
                                  /\ \A x \in ToSet(preroll) : x >= first
                                  /\ Precede(ToSet(preroll), ToSet(ring))
          /\ at[w] \in {"drain", "busy"} => Precede(ToSet(kept), ToSet(ring))
          /\ Busy(w) => /\ hand[w] >= first
                        /\ Precede(ToSet(kept), {hand[w]})
                        /\ Precede({hand[w]}, ToSet(ring))

CaptureIInv ==
    /\ CaptureTypeOK
    /\ HandsFull
    /\ SessionsInTurn
    /\ CapturedBefore
    /\ InOnePlace
    /\ QueuesInOrder
    /\ ~stalled => OneWorker /\ BufferInOrder

----------------------------------------------------------------------------
(* Queues of chunks: what an append, a pop and a concatenation contain, and  *)
(* when they are in order.                                                   *)

LEMMA InSet ==
  ASSUME NEW q, NEW i \in 1..Len(q), q \in Seq(Nat)
  PROVE  q[i] \in ToSet(q) /\ q[i] \in Nat
  BY DEF ToSet

LEMMA EmptyQueue == ToSet(<<>>) = {} /\ Increasing(<<>>) /\ Distinct(<<>>) /\ <<>> \in Seq(Nat)
  BY DEF ToSet, Increasing, Distinct

LEMMA AppendIs ==
  ASSUME NEW q \in Seq(Nat), NEW x \in Nat
  PROVE  /\ Append(q, x) \in Seq(Nat) /\ Len(Append(q, x)) = Len(q) + 1
         /\ \A i \in 1..Len(q) : Append(q, x)[i] = q[i]
         /\ Append(q, x)[Len(q) + 1] = x
  OBVIOUS

LEMMA AppendHas ==
  ASSUME NEW q \in Seq(Nat), NEW x \in Nat
  PROVE  ToSet(Append(q, x)) = ToSet(q) \cup {x}
  <1> DEFINE a == Append(q, x)
  <1>1. /\ DOMAIN a = 1..(Len(q) + 1) /\ DOMAIN q = 1..Len(q) /\ Len(q) \in Nat
        /\ \A i \in 1..Len(q) : a[i] = q[i]
        /\ a[Len(q) + 1] = x
    BY AppendIs
  <1>2. 1..(Len(q) + 1) = 1..Len(q) \cup {Len(q) + 1}
    BY <1>1
  <1> HIDE DEF a
  <1>3. ToSet(a) = ToSet(q) \cup {x}
    BY <1>1, <1>2 DEF ToSet
  <1> QED
    BY <1>3 DEF a

LEMMA AppendOrder ==
  ASSUME NEW q \in Seq(Nat), NEW x \in Nat
  PROVE  /\ Increasing(q) /\ Precede(ToSet(q), {x}) => Increasing(Append(q, x))
         /\ Distinct(q) /\ x \notin ToSet(q) => Distinct(Append(q, x))
  <1> DEFINE a == Append(q, x)
  <1>1. /\ Len(a) = Len(q) + 1 /\ Len(q) \in Nat
        /\ \A i \in 1..Len(q) : a[i] = q[i] /\ a[i] \in ToSet(q) /\ a[i] \in Nat
        /\ a[Len(q) + 1] = x
    BY AppendIs, InSet
  <1> HIDE DEF a
  <1>2. \A i \in 1..Len(a) : i \in 1..Len(q) \/ i = Len(q) + 1
    BY <1>1
  <1>3. ASSUME Increasing(q), Precede(ToSet(q), {x}) PROVE Increasing(a)
    <2> SUFFICES ASSUME NEW i \in 1..Len(a), NEW j \in 1..Len(a), i < j PROVE a[i] < a[j]
      BY DEF Increasing
    <2>1. i \in 1..Len(q)
      BY <1>1, <1>2
    <2>2. CASE j \in 1..Len(q)
      BY <1>1, <1>3, <2>1, <2>2 DEF Increasing
    <2>3. CASE j = Len(q) + 1
      BY <1>1, <1>3, <2>1, <2>3 DEF Precede
    <2> QED
      BY <1>2, <2>2, <2>3
  <1>4. ASSUME Distinct(q), x \notin ToSet(q) PROVE Distinct(a)
    <2> SUFFICES ASSUME NEW i \in 1..Len(a), NEW j \in 1..Len(a), a[i] = a[j] PROVE i = j
      BY DEF Distinct
    <2>1. CASE i \in 1..Len(q) /\ j \in 1..Len(q)
      BY <1>1, <1>4, <2>1 DEF Distinct
    <2>2. CASE i = Len(q) + 1 \/ j = Len(q) + 1
      BY <1>1, <1>2, <1>4, <2>2
    <2> QED
      BY <1>2, <2>1, <2>2
  <1> QED
    BY <1>3, <1>4 DEF a

LEMMA TailIs ==
  ASSUME NEW q \in Seq(Nat), q # <<>>
  PROVE  /\ Tail(q) \in Seq(Nat) /\ Len(Tail(q)) = Len(q) - 1 /\ Len(q) \in Nat \ {0}
         /\ \A i \in 1..(Len(q) - 1) : Tail(q)[i] = q[i + 1]
         /\ Head(q) = q[1] /\ Head(q) \in Nat
  OBVIOUS

LEMMA TailHas ==
  ASSUME NEW q \in Seq(Nat), q # <<>>
  PROVE  ToSet(q) = ToSet(Tail(q)) \cup {Head(q)}
  <1> DEFINE t == Tail(q)
  <1>1. /\ DOMAIN t = 1..(Len(q) - 1) /\ DOMAIN q = 1..Len(q) /\ Len(q) \in Nat \ {0}
        /\ \A i \in 1..(Len(q) - 1) : t[i] = q[i + 1]
        /\ Head(q) = q[1]
    BY TailIs
  <1> HIDE DEF t
  <1>2. ASSUME NEW x \in ToSet(q) PROVE x \in ToSet(t) \cup {Head(q)}
    <2>1. PICK i \in 1..Len(q) : x = q[i]
      BY <1>1 DEF ToSet
    <2>2. CASE i = 1
      BY <1>1, <2>1, <2>2
    <2>3. CASE i # 1
      <3>1. i - 1 \in 1..(Len(q) - 1) /\ (i - 1) + 1 = i
        BY <1>1, <2>3
      <3>2. t[i - 1] = x
        BY <1>1, <2>1, <3>1
      <3> QED
        BY <1>1, <3>1, <3>2 DEF ToSet
    <2> QED
      BY <2>2, <2>3
  <1>3. ASSUME NEW x \in ToSet(t) \cup {Head(q)} PROVE x \in ToSet(q)
    <2>1. CASE x = Head(q)
      BY <1>1, <2>1 DEF ToSet
    <2>2. CASE x \in ToSet(t)
      <3>1. PICK i \in 1..(Len(q) - 1) : x = t[i]
        BY <1>1, <2>2 DEF ToSet
      <3>2. i + 1 \in 1..Len(q) /\ x = q[i + 1]
        BY <1>1, <3>1
      <3> QED
        BY <1>1, <3>2 DEF ToSet
    <2> QED
      BY <1>3, <2>1, <2>2
  <1>4. ToSet(q) = ToSet(t) \cup {Head(q)}
    BY <1>2, <1>3
  <1> QED
    BY <1>4 DEF t

LEMMA TailOrder ==
  ASSUME NEW q \in Seq(Nat), q # <<>>, Increasing(q)
  PROVE  Increasing(Tail(q)) /\ Precede({Head(q)}, ToSet(Tail(q)))
  <1> DEFINE t == Tail(q)
  <1>1. /\ DOMAIN t = 1..(Len(q) - 1) /\ Len(q) \in Nat \ {0} /\ Len(t) = Len(q) - 1
        /\ \A i \in 1..(Len(q) - 1) : t[i] = q[i + 1]
        /\ Head(q) = q[1]
    BY TailIs
  <1> HIDE DEF t
  <1>2. Increasing(t)
    <2> SUFFICES ASSUME NEW i \in 1..Len(t), NEW j \in 1..Len(t), i < j PROVE t[i] < t[j]
      BY DEF Increasing
    <2>1. i + 1 \in 1..Len(q) /\ j + 1 \in 1..Len(q) /\ i + 1 < j + 1
      BY <1>1
    <2> QED
      BY <1>1, <2>1 DEF Increasing
  <1>3. Precede({Head(q)}, ToSet(t))
    <2> SUFFICES ASSUME NEW i \in 1..(Len(q) - 1) PROVE Head(q) < t[i]
      BY <1>1 DEF Precede, ToSet
    <2>1. i + 1 \in 1..Len(q) /\ 1 \in 1..Len(q) /\ 1 < i + 1
      BY <1>1
    <2> QED
      BY <1>1, <2>1 DEF Increasing
  <1> QED
    BY <1>2, <1>3 DEF t

LEMMA ConcatIs ==
  ASSUME NEW q \in Seq(Nat), NEW r \in Seq(Nat)
  PROVE  /\ q \o r \in Seq(Nat) /\ Len(q \o r) = Len(q) + Len(r)
         /\ \A i \in 1..Len(q) : (q \o r)[i] = q[i]
         /\ \A i \in 1..Len(r) : (q \o r)[Len(q) + i] = r[i]
  OBVIOUS

LEMMA ConcatPlaces ==
  ASSUME NEW q \in Seq(Nat), NEW r \in Seq(Nat), NEW i \in 1..Len(q \o r)
  PROVE  \/ i \in 1..Len(q) /\ (q \o r)[i] = q[i]
         \/ /\ i - Len(q) \in 1..Len(r) /\ (q \o r)[i] = r[i - Len(q)]
  <1>1. Len(q) \in Nat /\ Len(r) \in Nat /\ i \in 1..(Len(q) + Len(r))
    BY ConcatIs
  <1>2. CASE i <= Len(q)
    BY <1>1, <1>2, ConcatIs
  <1>3. CASE i > Len(q)
    <2>1. i - Len(q) \in 1..Len(r) /\ Len(q) + (i - Len(q)) = i
      BY <1>1, <1>3
    <2> QED
      BY <2>1, ConcatIs
  <1> QED
    BY <1>1, <1>2, <1>3

LEMMA ConcatHas ==
  ASSUME NEW q \in Seq(Nat), NEW r \in Seq(Nat)
  PROVE  ToSet(q \o r) = ToSet(q) \cup ToSet(r)
  <1>1. /\ DOMAIN (q \o r) = 1..Len(q \o r) /\ DOMAIN q = 1..Len(q) /\ DOMAIN r = 1..Len(r)
        /\ Len(q) \in Nat /\ Len(r) \in Nat
    BY ConcatIs
  <1>2. ASSUME NEW x \in ToSet(q \o r) PROVE x \in ToSet(q) \cup ToSet(r)
    <2>1. PICK i \in 1..Len(q \o r) : x = (q \o r)[i]
      BY <1>1 DEF ToSet
    <2>2. \/ i \in 1..Len(q) /\ x = q[i]
          \/ i - Len(q) \in 1..Len(r) /\ x = r[i - Len(q)]
      BY <2>1, ConcatPlaces
    <2> QED
      BY <1>1, <2>2 DEF ToSet
  <1>3. ASSUME NEW x \in ToSet(q) PROVE x \in ToSet(q \o r)
    <2>1. PICK i \in 1..Len(q) : x = q[i]
      BY <1>1 DEF ToSet
    <2>2. i \in 1..Len(q \o r) /\ (q \o r)[i] = x
      BY <1>1, <2>1, ConcatIs
    <2> QED
      BY <1>1, <2>2 DEF ToSet
  <1>4. ASSUME NEW x \in ToSet(r) PROVE x \in ToSet(q \o r)
    <2>1. PICK i \in 1..Len(r) : x = r[i]
      BY <1>1 DEF ToSet
    <2>2. Len(q) + i \in 1..Len(q \o r) /\ (q \o r)[Len(q) + i] = x
      BY <1>1, <2>1, ConcatIs
    <2> QED
      BY <1>1, <2>2 DEF ToSet
  <1> QED
    BY <1>2, <1>3, <1>4

LEMMA ConcatOrder ==
  ASSUME NEW q \in Seq(Nat), NEW r \in Seq(Nat)
  PROVE  Distinct(q) /\ Distinct(r) /\ ToSet(q) \cap ToSet(r) = {} => Distinct(q \o r)
  <1> SUFFICES ASSUME Distinct(q), Distinct(r), ToSet(q) \cap ToSet(r) = {},
                      NEW i \in 1..Len(q \o r), NEW j \in 1..Len(q \o r),
                      (q \o r)[i] = (q \o r)[j]
               PROVE  i = j
    BY DEF Distinct
  <1> DEFINE c == q \o r
             n == Len(q)
  <1>1. n \in Nat /\ Len(r) \in Nat /\ i \in Nat /\ j \in Nat
    BY ConcatIs
  <1>2. \/ i \in 1..n /\ c[i] = q[i]
        \/ i - n \in 1..Len(r) /\ c[i] = r[i - n]
    BY ConcatPlaces
  <1>3. \/ j \in 1..n /\ c[j] = q[j]
        \/ j - n \in 1..Len(r) /\ c[j] = r[j - n]
    BY ConcatPlaces
  <1>4. c[i] = c[j]
    OBVIOUS
  <1>5. \A k \in 1..n : q[k] \in ToSet(q)
    BY InSet
  <1>6. \A k \in 1..Len(r) : r[k] \in ToSet(r)
    BY InSet
  <1> HIDE DEF c
  <1>7. CASE i \in 1..n /\ c[i] = q[i] /\ j \in 1..n /\ c[j] = q[j]
    BY <1>4, <1>7 DEF Distinct
  <1>8. CASE /\ i - n \in 1..Len(r) /\ c[i] = r[i - n]
             /\ j - n \in 1..Len(r) /\ c[j] = r[j - n]
    <2>1. i - n = j - n
      BY <1>4, <1>8 DEF Distinct
    <2> QED
      BY <1>1, <2>1
  <1> QED
    BY <1>2, <1>3, <1>4, <1>5, <1>6, <1>7, <1>8

LEMMA IncreasingIsDistinct ==
  ASSUME NEW q \in Seq(Nat), Increasing(q)
  PROVE  Distinct(q)
  <1> SUFFICES ASSUME NEW i \in 1..Len(q), NEW j \in 1..Len(q), q[i] = q[j], i # j
               PROVE  FALSE
    BY DEF Distinct
  <1>1. q[i] \in Nat /\ q[j] \in Nat /\ Len(q) \in Nat /\ (i < j \/ j < i)
    OBVIOUS
  <1> QED
    BY <1>1 DEF Increasing

(* A deque with a maxlen.                                                    *)
LEMMA PushHas ==
  ASSUME NEW q \in Seq(Nat), NEW x \in Nat, NEW limit \in Nat \ {0}, Len(q) <= limit
  PROVE  /\ Push(q, limit, x) \in Seq(Nat) /\ Len(Push(q, limit, x)) <= limit
         /\ ToSet(Push(q, limit, x)) \subseteq ToSet(q) \cup {x}
         /\ Increasing(q) /\ Precede(ToSet(q), {x}) => Increasing(Push(q, limit, x))
  <1>1. CASE Len(q) = limit
    <2>1. q # <<>>
      BY <1>1
    <2>2. /\ Tail(q) \in Seq(Nat) /\ Len(Tail(q)) = limit - 1 /\ ToSet(Tail(q)) \subseteq ToSet(q)
          /\ Increasing(q) => Increasing(Tail(q))
      <3>1. Tail(q) \in Seq(Nat) /\ Len(Tail(q)) = limit - 1
        BY <1>1, <2>1, TailIs
      <3>2. ToSet(Tail(q)) \subseteq ToSet(q)
        BY <2>1, TailHas
      <3>3. Increasing(q) => Increasing(Tail(q))
        BY <2>1, TailOrder
      <3> QED
        BY <3>1, <3>2, <3>3
    <2>3. Push(q, limit, x) = Append(Tail(q), x)
      BY <1>1 DEF Push
    <2>4. Len(Append(Tail(q), x)) = limit
      BY <2>2, AppendIs
    <2>5. /\ Append(Tail(q), x) \in Seq(Nat)
          /\ ToSet(Append(Tail(q), x)) \subseteq ToSet(q) \cup {x}
      BY <2>2, AppendIs, AppendHas
    <2>6. Increasing(q) /\ Precede(ToSet(q), {x}) => Increasing(Append(Tail(q), x))
      <3>1. Precede(ToSet(q), {x}) => Precede(ToSet(Tail(q)), {x})
        BY <2>2 DEF Precede
      <3> QED
        BY <2>2, <3>1, AppendOrder
    <2> QED
      BY <2>3, <2>4, <2>5, <2>6
  <1>2. CASE Len(q) # limit
    <2>1. Push(q, limit, x) = Append(q, x)
      BY <1>2 DEF Push
    <2>2. Len(Append(q, x)) <= limit
      BY <1>2, AppendIs
    <2> QED
      BY <2>1, <2>2, AppendIs, AppendHas, AppendOrder
  <1> QED
    BY <1>1, <1>2

----------------------------------------------------------------------------
(* The types of the capture side, part by part.                              *)

CaptureFlags ==
    /\ discarding \in BOOLEAN /\ active \in BOOLEAN /\ overflowed \in BOOLEAN
    /\ stalled \in BOOLEAN
PhaseKinds ==
    /\ phase \in {"idle", "open", "recording", "rejoin", "live", "teardown", "signal",
                  "join", "take"}
    /\ session \in 0..MaxSessions /\ ref \in 0..MaxSessions
FirstKinds == heard \in 0..MaxChunks /\ first \in 1..(MaxChunks + 1)
QueueKinds ==
    /\ ring \in Seq(Chunk) /\ Len(ring) <= RingSize
    /\ preroll \in Seq(Chunk) /\ Len(preroll) <= PrerollSize
KeptKinds == kept \in Seq(Chunk) /\ result \in [Sessions -> Seq(Chunk)]
WorkerKinds ==
    /\ at \in [Sessions -> {"off", "preroll", "drain", "busy", "over"}]
    /\ hand \in [Sessions -> 0..MaxChunks] /\ drained \in [Sessions -> 0..(DrainStop - 1)]
EventKinds == stopSet \in [Sessions -> BOOLEAN]

LEMMA CaptureKinds ==
  CaptureTypeOK <=> /\ CaptureFlags /\ PhaseKinds /\ FirstKinds /\ QueueKinds /\ KeptKinds
                    /\ WorkerKinds /\ EventKinds
  BY DEF CaptureTypeOK, CaptureFlags, PhaseKinds, FirstKinds, QueueKinds, KeptKinds,
         WorkerKinds, EventKinds

LEMMA Bounds ==
  /\ MaxSessions \in Nat \ {0} /\ MaxChunks \in Nat \ {0} /\ RingSize \in Nat \ {0}
  /\ PrerollSize \in Nat \ {0} /\ DrainStop \in Nat \ {0}
  BY CaptureAssumption DEF CaptureConstants

LEMMA ChunksAreNumbers ==
  ASSUME NEW q \in Seq(Chunk)
  PROVE  q \in Seq(Nat) /\ ToSet(q) \subseteq Chunk
  <1>1. Chunk \subseteq Nat
    BY Bounds DEF Chunk
  <1>2. q \in Seq(Nat)
    BY <1>1, SeqMonotonic
  <1>3. \A i \in DOMAIN q : q[i] \in Chunk
    OBVIOUS
  <1>4. ToSet(q) \subseteq Chunk
    BY Zenon, <1>3 DEF ToSet
  <1> QED
    BY <1>2, <1>4

LEMMA PushType ==
  ASSUME NEW q \in Seq(Chunk), NEW x \in Chunk, NEW limit \in Nat \ {0}, Len(q) <= limit
  PROVE  Push(q, limit, x) \in Seq(Chunk) /\ Len(Push(q, limit, x)) <= limit
  <1>1. Len(Push(q, limit, x)) <= limit
    <2>1. q \in Seq(Nat) /\ x \in Nat
      BY ChunksAreNumbers, Bounds DEF Chunk
    <2> QED
      BY <2>1, PushHas
  <1>2. CASE Len(q) = limit
    <2>1. q # <<>> /\ Push(q, limit, x) = Append(Tail(q), x)
      BY <1>2 DEF Push
    <2>2. Tail(q) \in Seq(Chunk)
      BY <2>1
    <2>3. Append(Tail(q), x) \in Seq(Chunk)
      BY <2>2
    <2> QED
      BY <1>1, <2>1, <2>3
  <1>3. CASE Len(q) # limit
    BY <1>1, <1>3 DEF Push
  <1> QED
    BY <1>2, <1>3

CallerMoves ==
    \/ StartSession \/ SetRecording \/ StartAudioWorker \/ StaleJoined
    \/ TornDown \/ SignalWorker \/ JoinWorker \/ TakeBuffer
    \/ \E discard \in BOOLEAN : EndSession(discard)

LEMMA CaptureSplit ==
  CaptureNext => \/ AudioCallback \/ CallerMoves \/ \E w \in Sessions : WorkerSteps(w)
  BY DEF CaptureNext, CallerStep, CallerMoves

LEMMA CaptureFlagStep == CaptureFlags /\ [CaptureNext]_captureVars => CaptureFlags'
  <1> SUFFICES ASSUME CaptureFlags, [CaptureNext]_captureVars PROVE CaptureFlags'
    OBVIOUS
  <1> USE DEF CaptureFlags, callerVars, workVars, captureVars
  <1>1. CASE AudioCallback
    BY Zenon, <1>1 DEF AudioCallback
  <1>2. CASE StartSession \/ SetRecording \/ StartAudioWorker \/ StaleJoined \/ TornDown
    BY Zenon, <1>2 DEF StartSession, SetRecording, StartAudioWorker, StaleJoined,
                       StartWorker, TornDown
  <1>3. CASE SignalWorker \/ JoinWorker \/ TakeBuffer
    BY Zenon, <1>3 DEF SignalWorker, JoinWorker, TakeBuffer
  <1>4. ASSUME NEW discard \in BOOLEAN, EndSession(discard) PROVE CaptureFlags'
    BY Zenon, <1>4 DEF EndSession
  <1>5. ASSUME NEW w \in Sessions, WorkerSteps(w) PROVE CaptureFlags'
    BY Zenon, <1>5 DEF WorkerSteps, PrependPreroll, TakeChunk, ProcessChunk, RingEmpty
  <1>6. CASE UNCHANGED captureVars
    BY Zenon, <1>6
  <1> QED
    BY <1>1, <1>2, <1>3, <1>4, <1>5, <1>6, CaptureSplit DEF CallerMoves

LEMMA PhaseStep == PhaseKinds /\ [CaptureNext]_captureVars => PhaseKinds'
  <1> SUFFICES ASSUME PhaseKinds, [CaptureNext]_captureVars PROVE PhaseKinds'
    OBVIOUS
  <1> USE DEF callerVars, workVars, captureVars
  <1>1. CASE StartSession
    <2>1. session < MaxSessions /\ session' = session + 1 /\ phase' = "open" /\ ref' = ref
      BY <1>1 DEF StartSession
    <2> QED
      BY <2>1, Bounds DEF PhaseKinds
  <1>2. CASE SetRecording \/ StartAudioWorker \/ StaleJoined \/ TornDown \/ SignalWorker
    BY <1>2 DEF SetRecording, StartAudioWorker, StaleJoined, StartWorker, TornDown,
                SignalWorker, PhaseKinds
  <1>3. CASE JoinWorker \/ TakeBuffer \/ \E discard \in BOOLEAN : EndSession(discard)
    BY <1>3, Bounds DEF JoinWorker, TakeBuffer, EndSession, PhaseKinds, NoWorker
  <1>4. CASE AudioCallback \/ UNCHANGED captureVars
    BY <1>4 DEF AudioCallback, PhaseKinds
  <1>5. ASSUME NEW w \in Sessions, WorkerSteps(w) PROVE PhaseKinds'
    BY <1>5 DEF WorkerSteps, PrependPreroll, TakeChunk, ProcessChunk, RingEmpty, PhaseKinds
  <1> QED
    BY <1>1, <1>2, <1>3, <1>4, <1>5, CaptureSplit DEF CallerMoves

LEMMA FirstStep == FirstKinds /\ [CaptureNext]_captureVars => FirstKinds'
  <1> SUFFICES ASSUME FirstKinds, [CaptureNext]_captureVars PROVE FirstKinds'
    OBVIOUS
  <1> USE DEF callerVars, workVars, captureVars
  <1>1. CASE AudioCallback
    <2>1. heard < MaxChunks /\ heard' = heard + 1 /\ first' = first
      BY <1>1 DEF AudioCallback
    <2> QED
      BY <2>1, Bounds DEF FirstKinds
  <1>2. CASE StartSession
    <2>1. first' = heard + 1 /\ heard' = heard
      BY <1>2 DEF StartSession
    <2> QED
      BY <2>1, Bounds DEF FirstKinds
  <1>3. CASE UNCHANGED <<heard, first>>
    BY <1>3 DEF FirstKinds
  <1>4. CASE CallerMoves /\ ~StartSession
    BY <1>3, <1>4 DEF CallerMoves, SetRecording, StartAudioWorker, StaleJoined, StartWorker,
                      TornDown, SignalWorker, JoinWorker, TakeBuffer, EndSession
  <1>5. ASSUME NEW w \in Sessions, WorkerSteps(w) PROVE FirstKinds'
    BY <1>3, <1>5 DEF WorkerSteps, PrependPreroll, TakeChunk, ProcessChunk, RingEmpty
  <1> QED
    BY <1>1, <1>2, <1>3, <1>4, <1>5, CaptureSplit

LEMMA QueueStep == FirstKinds /\ QueueKinds /\ [CaptureNext]_captureVars => QueueKinds'
  <1> SUFFICES ASSUME FirstKinds, QueueKinds, [CaptureNext]_captureVars PROVE QueueKinds'
    OBVIOUS
  <1> USE DEF callerVars, workVars, captureVars
  <1>0. <<>> \in Seq(Chunk) /\ Len(<<>>) <= RingSize /\ Len(<<>>) <= PrerollSize
    BY Bounds
  <1>1. ASSUME ring' \in {ring, <<>>}, preroll' \in {preroll, <<>>} PROVE QueueKinds'
    BY <1>0, <1>1 DEF QueueKinds
  <1>2. CASE AudioCallback
    <2>1. heard + 1 \in Chunk
      BY <1>2, Bounds DEF AudioCallback, FirstKinds, Chunk
    <2>2. \/ ring' = Push(ring, RingSize, heard + 1) /\ preroll' = preroll
          \/ preroll' = Push(preroll, PrerollSize, heard + 1) /\ ring' = ring
      BY <1>2 DEF AudioCallback
    <2> QED
      BY <2>1, <2>2, PushType, Bounds DEF QueueKinds
  <1>3. CASE CallerMoves
    BY <1>1, <1>3 DEF CallerMoves, StartSession, SetRecording, StartAudioWorker, StaleJoined,
                      StartWorker, RingAtStart, TornDown, SignalWorker, LeftInRing,
                      JoinWorker, TakeBuffer, EndSession
  <1>4. ASSUME NEW w \in Sessions, TakeChunk(w) PROVE QueueKinds'
    <2>1. ring # <<>> /\ ring' = Tail(ring) /\ preroll' = preroll
      BY <1>4 DEF TakeChunk, PopLeft
    <2>2. Tail(ring) \in Seq(Chunk)
      BY <2>1 DEF QueueKinds
    <2>3. Len(Tail(ring)) <= RingSize
      <3>1. ring \in Seq(Nat) /\ Len(ring) <= RingSize
        BY ChunksAreNumbers DEF QueueKinds
      <3> QED
        BY <2>1, <3>1, TailIs, Bounds
    <2> QED
      BY <2>1, <2>2, <2>3 DEF QueueKinds
  <1>5. ASSUME NEW w \in Sessions, PrependPreroll(w) \/ ProcessChunk(w) \/ RingEmpty(w)
        PROVE  QueueKinds'
    BY <1>1, <1>5 DEF PrependPreroll, ProcessChunk, RingEmpty
  <1>6. CASE UNCHANGED captureVars
    BY <1>1, <1>6
  <1> QED
    BY <1>2, <1>3, <1>4, <1>5, <1>6, CaptureSplit DEF WorkerSteps

LEMMA KeptStep ==
  ASSUME QueueKinds, WorkerKinds, KeptKinds, HandsFull, [CaptureNext]_captureVars
  PROVE  KeptKinds'
  <1> USE DEF callerVars, workVars, captureVars
  <1>1. CASE UNCHANGED <<kept, result>>
    BY <1>1 DEF KeptKinds
  <1>2. CASE StartSession \/ TakeBuffer
    <2>1. kept' = <<>>
      BY <1>2 DEF StartSession, TakeBuffer
    <2>2. \/ result' = result
          \/ result' = [result EXCEPT ![session] = IF discarding THEN <<>> ELSE kept]
      BY <1>2 DEF StartSession, TakeBuffer
    <2> DEFINE taken == IF discarding THEN <<>> ELSE kept
    <2>3. taken \in Seq(Chunk) /\ <<>> \in Seq(Chunk)
      BY DEF KeptKinds
    <2>4. result' = result \/ result' = [result EXCEPT ![session] = taken]
      BY <2>2
    <2> HIDE DEF taken
    <2>5. result' \in [Sessions -> Seq(Chunk)]
      BY <2>3, <2>4 DEF KeptKinds
    <2> QED
      BY <2>1, <2>3, <2>5 DEF KeptKinds
  <1>3. CASE AudioCallback \/ (CallerMoves /\ ~StartSession /\ ~TakeBuffer)
    BY <1>1, <1>3 DEF AudioCallback, CallerMoves, SetRecording, StartAudioWorker, StaleJoined,
                      StartWorker, TornDown, SignalWorker, JoinWorker, EndSession
  <1>4. ASSUME NEW w \in Sessions, PrependPreroll(w) PROVE KeptKinds'
    <2>1. kept' = preroll \o kept /\ result' = result
      BY <1>4 DEF PrependPreroll
    <2>2. preroll \o kept \in Seq(Chunk)
      BY DEF QueueKinds, KeptKinds
    <2> QED
      BY <2>1, <2>2 DEF KeptKinds
  <1>5. ASSUME NEW w \in Sessions, ProcessChunk(w) PROVE KeptKinds'
    <2>1. kept' = Append(kept, hand[w]) /\ result' = result
      BY <1>5 DEF ProcessChunk
    <2>2. hand[w] \in Chunk
      BY <1>5, Bounds DEF ProcessChunk, WorkerAt, HandsFull, Busy, WorkerKinds, Chunk
    <2>3. Append(kept, hand[w]) \in Seq(Chunk)
      BY <2>2 DEF KeptKinds
    <2> QED
      BY <2>1, <2>3 DEF KeptKinds
  <1>6. ASSUME NEW w \in Sessions, TakeChunk(w) \/ RingEmpty(w) PROVE KeptKinds'
    BY <1>1, <1>6 DEF TakeChunk, RingEmpty
  <1>7. CASE UNCHANGED captureVars
    BY <1>1, <1>7
  <1> QED
    BY <1>2, <1>3, <1>4, <1>5, <1>6, <1>7, CaptureSplit DEF WorkerSteps

LEMMA Modulo == ASSUME NEW n \in Nat, NEW d \in Nat \ {0} PROVE n % d \in 0..(d - 1)
  OBVIOUS

LEMMA WorkerStep ==
  ASSUME QueueKinds, WorkerKinds, [CaptureNext]_captureVars
  PROVE  WorkerKinds'
  <1> USE DEF callerVars, workVars, captureVars
  <1>1. CASE UNCHANGED <<at, hand, drained>>
    BY <1>1 DEF WorkerKinds
  <1>2. ASSUME NEW w, at' = [at EXCEPT ![w] = "preroll"], UNCHANGED <<hand, drained>>
        PROVE  WorkerKinds'
    BY <1>2 DEF WorkerKinds
  <1>3. CASE AudioCallback \/ CallerMoves
    BY <1>1, <1>2, <1>3
    DEF AudioCallback, CallerMoves, StartSession, SetRecording, StartAudioWorker, StaleJoined,
        StartWorker, TornDown, SignalWorker, JoinWorker, TakeBuffer, EndSession
  <1>4. ASSUME NEW w \in Sessions, PrependPreroll(w) PROVE WorkerKinds'
    BY <1>4 DEF PrependPreroll, WorkerAt, WorkerKinds
  <1>5. ASSUME NEW w \in Sessions, TakeChunk(w) PROVE WorkerKinds'
    <2>1. Head(ring) \in Chunk
      BY <1>5 DEF TakeChunk, QueueKinds
    <2>2. Head(ring) \in 0..MaxChunks
      BY <2>1, Bounds DEF Chunk
    <2> QED
      BY <1>5, <2>2 DEF TakeChunk, PopLeft, WorkerAt, WorkerKinds
  <1>6. ASSUME NEW w \in Sessions, ProcessChunk(w) PROVE WorkerKinds'
    <2> DEFINE taken == (drained[w] + 1) % DrainStop
    <2>1. taken \in 0..(DrainStop - 1)
      <3>1. drained[w] + 1 \in Nat
        BY Bounds DEF WorkerKinds
      <3> QED
        BY <3>1, Modulo, Bounds
    <2>2. /\ drained' = [drained EXCEPT ![w] = taken]
          /\ hand' = [hand EXCEPT ![w] = 0]
          /\ \E to \in {"over", "drain"} : at' = [at EXCEPT ![w] = to]
      BY <1>6 DEF ProcessChunk, WorkerAt
    <2>3. 0 \in 0..MaxChunks
      BY Bounds
    <2> HIDE DEF taken
    <2> QED
      BY <2>1, <2>2, <2>3 DEF WorkerKinds
  <1>7. ASSUME NEW w \in Sessions, RingEmpty(w) PROVE WorkerKinds'
    <2>1. /\ drained' = [drained EXCEPT ![w] = 0] /\ hand' = hand
          /\ \E to \in {"over", "drain"} : at' = [at EXCEPT ![w] = to]
      BY <1>7 DEF RingEmpty, WorkerAt
    <2>2. 0 \in 0..(DrainStop - 1)
      BY Bounds
    <2> QED
      BY <2>1, <2>2 DEF WorkerKinds
  <1>8. CASE UNCHANGED captureVars
    BY <1>1, <1>8
  <1> QED
    BY <1>3, <1>4, <1>5, <1>6, <1>7, <1>8, CaptureSplit DEF WorkerSteps

LEMMA EventStep == EventKinds /\ [CaptureNext]_captureVars => EventKinds'
  <1> SUFFICES ASSUME EventKinds, [CaptureNext]_captureVars PROVE EventKinds'
    OBVIOUS
  <1> USE DEF callerVars, workVars, captureVars
  <1>1. stopSet' = stopSet \/ stopSet' = [stopSet EXCEPT ![ref] = TRUE]
    BY CaptureSplit
    DEF AudioCallback, CallerMoves, StartSession, SetRecording, StartAudioWorker, StaleJoined,
        StartWorker, TornDown, SignalWorker, JoinWorker, TakeBuffer, EndSession, WorkerSteps,
        PrependPreroll, TakeChunk, ProcessChunk, RingEmpty
  <1> QED
    BY <1>1 DEF EventKinds

LEMMA HandStep ==
  ASSUME QueueKinds, WorkerKinds, HandsFull, [CaptureNext]_captureVars
  PROVE  HandsFull'
  <1> USE DEF callerVars, workVars, captureVars, HandsFull, Busy
  <1>1. CASE UNCHANGED <<at, hand>>
    BY <1>1
  <1>2. ASSUME NEW w, NEW to \in {"preroll", "drain", "over"}, at' = [at EXCEPT ![w] = to],
               hand' = hand \/ hand' = [hand EXCEPT ![w] = 0]
        PROVE  HandsFull'
    BY <1>2 DEF WorkerKinds
  <1>3. CASE AudioCallback \/ CallerMoves
    BY <1>1, <1>2, <1>3
    DEF AudioCallback, CallerMoves, StartSession, SetRecording, StartAudioWorker, StaleJoined,
        StartWorker, TornDown, SignalWorker, JoinWorker, TakeBuffer, EndSession
  <1>4. ASSUME NEW w \in Sessions, PrependPreroll(w) \/ ProcessChunk(w) \/ RingEmpty(w)
        PROVE  HandsFull'
    <2>1. /\ hand' = hand \/ hand' = [hand EXCEPT ![w] = 0]
          /\ \E to \in {"over", "drain"} : at' = [at EXCEPT ![w] = to]
      BY <1>4 DEF PrependPreroll, ProcessChunk, RingEmpty, WorkerAt
    <2> QED
      BY <1>2, <2>1
  <1>5. ASSUME NEW w \in Sessions, TakeChunk(w) PROVE HandsFull'
    <2>1. Head(ring) \in Chunk
      BY <1>5 DEF TakeChunk, QueueKinds
    <2>2. Head(ring) # 0
      BY <2>1, Bounds DEF Chunk
    <2> QED
      BY <1>5, <2>2 DEF TakeChunk, PopLeft, WorkerAt, WorkerKinds
  <1>6. CASE UNCHANGED captureVars
    BY <1>1, <1>6
  <1> QED
    BY <1>3, <1>4, <1>5, <1>6, CaptureSplit DEF WorkerSteps

----------------------------------------------------------------------------
(* What an action does to the sets of chunks.                                *)

Typed == FirstKinds /\ QueueKinds /\ KeptKinds /\ WorkerKinds /\ PhaseKinds /\ HandsFull

LEMMA Numbers ==
  ASSUME Typed
  PROVE  /\ ring \in Seq(Nat) /\ preroll \in Seq(Nat) /\ kept \in Seq(Nat)
         /\ ToSet(ring) \subseteq Nat /\ ToSet(preroll) \subseteq Nat /\ ToSet(kept) \subseteq Nat
         /\ \A w \in Sessions : hand[w] \in Nat
         /\ heard \in Nat /\ first \in Nat /\ session \in Nat
  <1>1. ring \in Seq(Chunk) /\ preroll \in Seq(Chunk) /\ kept \in Seq(Chunk)
    BY DEF Typed, QueueKinds, KeptKinds
  <1>2. Chunk \subseteq Nat
    BY Bounds DEF Chunk
  <1>3. /\ ring \in Seq(Nat) /\ preroll \in Seq(Nat) /\ kept \in Seq(Nat)
        /\ ToSet(ring) \subseteq Nat /\ ToSet(preroll) \subseteq Nat /\ ToSet(kept) \subseteq Nat
    BY <1>1, <1>2, ChunksAreNumbers
  <1>4. heard \in Nat /\ first \in Nat /\ session \in Nat
    BY Bounds DEF Typed, FirstKinds, PhaseKinds
  <1>5. \A w \in Sessions : hand[w] \in Nat
    BY Bounds DEF Typed, WorkerKinds
  <1> QED
    BY <1>3, <1>4, <1>5

LEMMA CallerSets ==
  ASSUME CallerMoves
  PROVE  /\ ring' \in {ring, <<>>} /\ preroll' \in {preroll, <<>>} /\ kept' \in {kept, <<>>}
         /\ UNCHANGED <<heard, hand>>
         /\ at' = at \/ at' = [at EXCEPT ![session] = "preroll"]
         /\ first' = first \/ first' = heard + 1
  <1> USE DEF callerVars, workVars
  <1>1. CASE StartSession \/ SetRecording \/ TornDown \/ SignalWorker \/ JoinWorker \/ TakeBuffer
    BY <1>1 DEF StartSession, SetRecording, TornDown, SignalWorker, LeftInRing, JoinWorker,
                TakeBuffer
  <1>2. CASE StartAudioWorker \/ StaleJoined
    BY <1>2 DEF StartAudioWorker, StaleJoined, StartWorker, RingAtStart
  <1>3. CASE \E discard \in BOOLEAN : EndSession(discard)
    BY <1>3 DEF EndSession
  <1> QED
    BY <1>1, <1>2, <1>3 DEF CallerMoves

LEMMA CallbackSets ==
  ASSUME Typed, AudioCallback
  PROVE  /\ heard' = heard + 1 /\ UNCHANGED <<kept, at, hand, first, phase, session>>
         /\ \/ /\ active /\ preroll' = preroll
               /\ ToSet(ring') \subseteq ToSet(ring) \cup {heard + 1}
               /\ Increasing(ring) /\ Precede(ToSet(ring), {heard + 1}) => Increasing(ring')
            \/ /\ ~active /\ ring' = ring
               /\ ToSet(preroll') \subseteq ToSet(preroll) \cup {heard + 1}
               /\ Increasing(preroll) /\ Precede(ToSet(preroll), {heard + 1})
                     => Increasing(preroll')
  <1>0. /\ ring \in Seq(Nat) /\ preroll \in Seq(Nat) /\ heard + 1 \in Nat
        /\ Len(ring) <= RingSize /\ Len(preroll) <= PrerollSize
    BY Numbers DEF Typed, QueueKinds
  <1>1. heard' = heard + 1 /\ UNCHANGED <<kept, at, hand, first, phase, session>>
    BY DEF AudioCallback, callerVars, workVars
  <1>2. CASE active
    <2>1. ring' = Push(ring, RingSize, heard + 1) /\ preroll' = preroll
      BY <1>2 DEF AudioCallback
    <2> QED
      BY <1>0, <1>1, <1>2, <2>1, Bounds, PushHas
  <1>3. CASE ~active
    <2>1. preroll' = Push(preroll, PrerollSize, heard + 1) /\ ring' = ring
      BY <1>3 DEF AudioCallback
    <2> QED
      BY <1>0, <1>1, <1>3, <2>1, Bounds, PushHas
  <1> QED
    BY <1>2, <1>3

LEMMA PrependSets ==
  ASSUME Typed, NEW w \in Sessions, PrependPreroll(w)
  PROVE  /\ ToSet(kept') = ToSet(preroll) \cup ToSet(kept) /\ ToSet(preroll') = {}
         /\ kept' = preroll \o kept /\ preroll' = <<>>
         /\ at[w] = "preroll" /\ at' = [at EXCEPT ![w] = "drain"]
         /\ UNCHANGED <<heard, ring, hand, first, phase, session, result>>
  <1>1. /\ kept' = preroll \o kept /\ preroll' = <<>>
        /\ at[w] = "preroll" /\ at' = [at EXCEPT ![w] = "drain"]
        /\ UNCHANGED <<heard, ring, hand, first, phase, session, result>>
    BY DEF PrependPreroll, WorkerAt, callerVars
  <1>2. ToSet(preroll \o kept) = ToSet(preroll) \cup ToSet(kept)
    BY Numbers, ConcatHas
  <1> QED
    BY <1>1, <1>2, EmptyQueue

LEMMA PopSets ==
  ASSUME Typed, NEW w \in Sessions, TakeChunk(w)
  PROVE  /\ ToSet(ring) = ToSet(ring') \cup {Head(ring)}
         /\ Increasing(ring) => /\ Increasing(ring')
                                /\ Precede({Head(ring)}, ToSet(ring'))
         /\ hand' = [hand EXCEPT ![w] = Head(ring)] /\ Head(ring) \in Nat
         /\ at[w] = "drain" /\ at' = [at EXCEPT ![w] = "busy"]
         /\ UNCHANGED <<heard, preroll, kept, first, phase, session, result>>
  <1>1. /\ ring # <<>> /\ ring' = Tail(ring)
        /\ hand' = [hand EXCEPT ![w] = Head(ring)]
        /\ at[w] = "drain" /\ at' = [at EXCEPT ![w] = "busy"]
        /\ UNCHANGED <<heard, preroll, kept, first, phase, session, result>>
    BY DEF TakeChunk, PopLeft, WorkerAt, callerVars
  <1> QED
    BY <1>1, Numbers, TailHas, TailOrder, TailIs

LEMMA ProcessSets ==
  ASSUME Typed, NEW w \in Sessions, ProcessChunk(w)
  PROVE  /\ ToSet(kept') = ToSet(kept) \cup {hand[w]} /\ kept' = Append(kept, hand[w])
         /\ hand' = [hand EXCEPT ![w] = 0] /\ Busy(w)
         /\ \E to \in {"over", "drain"} : at' = [at EXCEPT ![w] = to]
         /\ UNCHANGED <<heard, preroll, ring, first, phase, session, result>>
  <1>1. /\ kept' = Append(kept, hand[w])
        /\ hand' = [hand EXCEPT ![w] = 0] /\ Busy(w)
        /\ \E to \in {"over", "drain"} : at' = [at EXCEPT ![w] = to]
        /\ UNCHANGED <<heard, preroll, ring, first, phase, session, result>>
    BY DEF ProcessChunk, WorkerAt, Busy, callerVars
  <1> QED
    BY <1>1, Numbers, AppendHas

LEMMA EmptySets ==
  ASSUME Typed, NEW w \in Sessions, RingEmpty(w)
  PROVE  /\ at[w] = "drain" /\ \E to \in {"over", "drain"} : at' = [at EXCEPT ![w] = to]
         /\ UNCHANGED <<heard, preroll, ring, kept, hand, first, phase, session, result>>
  BY DEF RingEmpty, WorkerAt, callerVars

----------------------------------------------------------------------------
(* The parts of the invariant.                                               *)

LEMMA SessionStep ==
  ASSUME Typed, SessionsInTurn, [CaptureNext]_captureVars
  PROVE  SessionsInTurn'
  <1> USE DEF callerVars, workVars, captureVars
  <1>0. session \in Nat
    BY Numbers
  <1>1. ASSUME phase' \in {"idle", phase} \/ session # 0,
               session' = session, at' = at
        PROVE  /\ phase' # "idle" => session' # 0
               /\ \A w \in Sessions : w > session' => at'[w] = "off"
    BY <1>1 DEF SessionsInTurn
  <1>2. /\ phase' # "idle" => session' # 0
        /\ \A w \in Sessions : w > session' => at'[w] = "off"
    <2>1. CASE AudioCallback \/ UNCHANGED captureVars
      BY <1>1, <2>1 DEF AudioCallback
    <2>2. CASE StartSession
      <3>1. session' = session + 1 /\ at' = at
        BY <2>2 DEF StartSession
      <3>2. \A w \in Sessions : w > session + 1 => w > session
        BY <1>0, Bounds DEF Sessions
      <3> QED
        BY <1>0, <3>1, <3>2 DEF SessionsInTurn
    <2>3. CASE SetRecording \/ TornDown \/ SignalWorker \/ JoinWorker \/ TakeBuffer
      BY <1>1, <2>3 DEF SetRecording, TornDown, SignalWorker, JoinWorker, TakeBuffer,
                        SessionsInTurn
    <2>4. CASE StartAudioWorker \/ StaleJoined
      <3>1. /\ session # 0 /\ session' = session
            /\ at' = at \/ at' = [at EXCEPT ![session] = "preroll"]
        BY <2>4 DEF StartAudioWorker, StaleJoined, StartWorker, SessionsInTurn
      <3>2. \A w \in Sessions : w > session => w # session
        BY <1>0, Bounds DEF Sessions
      <3> QED
        BY <3>1, <3>2 DEF SessionsInTurn, Typed, WorkerKinds
    <2>5. ASSUME NEW discard \in BOOLEAN, EndSession(discard)
          PROVE  /\ phase' # "idle" => session' # 0
                 /\ \A w \in Sessions : w > session' => at'[w] = "off"
      BY <1>1, <2>5 DEF EndSession, SessionsInTurn
    <2>6. ASSUME NEW w \in Sessions, WorkerSteps(w)
          PROVE  /\ phase' # "idle" => session' # 0
                 /\ \A v \in Sessions : v > session' => at'[v] = "off"
      <3>1. /\ phase' = phase /\ session' = session /\ at[w] # "off"
            /\ \E to \in {"drain", "busy", "over"} : at' = [at EXCEPT ![w] = to]
        BY <2>6 DEF WorkerSteps, PrependPreroll, TakeChunk, ProcessChunk, RingEmpty, WorkerAt
      <3> QED
        BY <3>1 DEF SessionsInTurn, Typed, WorkerKinds
    <2> QED
      BY <2>1, <2>2, <2>3, <2>4, <2>5, <2>6, CaptureSplit DEF CallerMoves
  <1>3. (active <=> phase \in {"recording", "rejoin", "live"})'
    <2> USE DEF SessionsInTurn
    <2>1. CASE AudioCallback \/ UNCHANGED captureVars
      BY <2>1 DEF AudioCallback
    <2>2. CASE StartSession \/ SetRecording \/ TornDown
      BY <2>2 DEF StartSession, SetRecording, TornDown
    <2>3. CASE SignalWorker \/ JoinWorker \/ TakeBuffer
      BY <2>3 DEF SignalWorker, JoinWorker, TakeBuffer
    <2>4. CASE StartAudioWorker \/ StaleJoined
      BY <2>4 DEF StartAudioWorker, StaleJoined, StartWorker
    <2>5. ASSUME NEW discard \in BOOLEAN, EndSession(discard)
          PROVE  (active <=> phase \in {"recording", "rejoin", "live"})'
      BY <2>5 DEF EndSession
    <2>6. ASSUME NEW w \in Sessions, WorkerSteps(w)
          PROVE  (active <=> phase \in {"recording", "rejoin", "live"})'
      BY <2>6 DEF WorkerSteps, PrependPreroll, TakeChunk, ProcessChunk, RingEmpty
    <2> QED
      BY <2>1, <2>2, <2>3, <2>4, <2>5, <2>6, CaptureSplit DEF CallerMoves
  <1> QED
    BY <1>2, <1>3 DEF SessionsInTurn

LEMMA CapturedStep ==
  ASSUME Typed, CapturedBefore, [CaptureNext]_captureVars
  PROVE  CapturedBefore'
  <1> USE DEF CapturedBefore
  <1>0. heard \in Nat /\ first \in Nat /\ \A w \in Sessions : hand[w] \in Nat
    BY Numbers
  <1>1. CASE AudioCallback
    <2>1. /\ heard' = heard + 1 /\ UNCHANGED <<kept, hand, first>>
          /\ ToSet(ring') \subseteq ToSet(ring) \cup {heard + 1}
          /\ ToSet(preroll') \subseteq ToSet(preroll) \cup {heard + 1}
      BY <1>1, CallbackSets
    <2>2. \A n \in Nat : n <= heard => n <= heard + 1
      BY <1>0
    <2>3. ToSet(preroll) \cup ToSet(ring) \cup ToSet(kept) \subseteq Nat
      BY Numbers
    <2>4. ASSUME NEW x \in ToSet(preroll') \cup ToSet(ring') \cup ToSet(kept')
          PROVE  x <= heard + 1
      BY <1>0, <2>1, <2>2, <2>3
    <2>5. first <= heard + 1 + 1 /\ \A w \in Sessions : hand[w] <= heard + 1
      BY <1>0, <2>2
    <2> QED
      BY <2>1, <2>4, <2>5
  <1>2. CASE CallerMoves
    <2>1. /\ ToSet(ring') \subseteq ToSet(ring) /\ ToSet(preroll') \subseteq ToSet(preroll)
          /\ ToSet(kept') \subseteq ToSet(kept)
      BY <1>2, CallerSets, EmptyQueue
    <2>2. first' <= heard' + 1
      BY <1>0, <1>2, CallerSets
    <2>3. UNCHANGED <<heard, hand>>
      BY <1>2, CallerSets
    <2> QED
      BY <2>1, <2>2, <2>3
  <1>3. ASSUME NEW w \in Sessions, WorkerSteps(w) PROVE CapturedBefore'
    <2>1. CASE PrependPreroll(w)
      BY <2>1, PrependSets
    <2>2. CASE TakeChunk(w)
      BY <2>2, PopSets DEF Typed, WorkerKinds
    <2>3. CASE ProcessChunk(w)
      <3>1. /\ UNCHANGED <<heard, preroll, ring, first>>
            /\ ToSet(kept') = ToSet(kept) \cup {hand[w]}
            /\ hand' = [hand EXCEPT ![w] = 0]
        BY <2>3, ProcessSets
      <3>2. \A v \in Sessions : hand'[v] <= heard
        BY <1>0, <3>1 DEF Typed, WorkerKinds
      <3> QED
        BY <3>1, <3>2
    <2>4. CASE RingEmpty(w)
      BY <2>4, EmptySets
    <2> QED
      BY <1>3, <2>1, <2>2, <2>3, <2>4 DEF WorkerSteps
  <1>4. CASE UNCHANGED captureVars
    BY <1>4 DEF captureVars, callerVars, workVars
  <1> QED
    BY <1>1, <1>2, <1>3, <1>4, CaptureSplit

(* A chunk that is captured now is in no place yet.                          *)
LEMMA FreshChunk ==
  ASSUME Typed, CapturedBefore
  PROVE  /\ heard + 1 \notin ToSet(preroll) \cup ToSet(ring) \cup ToSet(kept)
         /\ \A w \in Sessions : hand[w] # heard + 1
         /\ Precede(ToSet(ring), {heard + 1}) /\ Precede(ToSet(preroll), {heard + 1})
  <1>1. \A n \in Nat : n <= heard => n < heard + 1 /\ n # heard + 1
    BY Numbers
  <1> QED
    BY <1>1, Numbers DEF CapturedBefore, Precede

LEMMA QueuesStep ==
  ASSUME Typed, CapturedBefore, QueuesInOrder, [CaptureNext]_captureVars
  PROVE  QueuesInOrder'
  <1> USE DEF QueuesInOrder
  <1>1. CASE AudioCallback
    BY <1>1, CallbackSets, FreshChunk
  <1>2. CASE CallerMoves
    BY <1>2, CallerSets, EmptyQueue
  <1>3. ASSUME NEW w \in Sessions, WorkerSteps(w) PROVE QueuesInOrder'
    BY <1>3, PrependSets, PopSets, ProcessSets, EmptySets, EmptyQueue DEF WorkerSteps
  <1>4. CASE UNCHANGED captureVars
    BY <1>4 DEF captureVars
  <1> QED
    BY <1>1, <1>2, <1>3, <1>4, CaptureSplit

LEMMA PlaceStep ==
  ASSUME Typed, CapturedBefore, QueuesInOrder, InOnePlace, [CaptureNext]_captureVars
  PROVE  InOnePlace'
  <1> DEFINE P == ToSet(preroll)
             R == ToSet(ring)
             K == ToSet(kept)
  <1>1. CASE AudioCallback
    <2>1. /\ UNCHANGED <<kept, at, hand>>
          /\ \/ ToSet(ring') \subseteq R \cup {heard + 1} /\ ToSet(preroll') = P
             \/ ToSet(preroll') \subseteq P \cup {heard + 1} /\ ToSet(ring') = R
      BY <1>1, CallbackSets
    <2>2. heard + 1 \notin P \cup R \cup K /\ \A w \in Sessions : hand[w] # heard + 1
      BY FreshChunk
    <2>3. Distinct(kept') /\ ToSet(kept') = K
      BY <2>1 DEF InOnePlace
    <2> QED
      BY <2>1, <2>2, <2>3 DEF InOnePlace, Busy
  <1>2. CASE CallerMoves
    <2>1. /\ ToSet(ring') \subseteq R /\ ToSet(preroll') \subseteq P /\ ToSet(kept') \subseteq K
          /\ Distinct(kept')
      BY <1>2, CallerSets, EmptyQueue DEF InOnePlace
    <2>2. hand' = hand /\ \A w \in Sessions : Busy(w)' => Busy(w)
      BY <1>2, CallerSets DEF Busy, Typed, WorkerKinds
    <2> QED
      BY <2>1, <2>2 DEF InOnePlace
  <1>3. ASSUME NEW w \in Sessions, PrependPreroll(w) PROVE InOnePlace'
    <2>1. Distinct(kept')
      <3>1. Distinct(preroll) /\ Distinct(kept) /\ P \cap K = {}
        BY Numbers, IncreasingIsDistinct DEF QueuesInOrder, InOnePlace
      <3>2. preroll \in Seq(Nat) /\ kept \in Seq(Nat) /\ kept' = preroll \o kept
        BY <1>3, Numbers, PrependSets
      <3>3. Distinct(preroll \o kept)
        BY <3>1, <3>2, ConcatOrder
      <3> QED
        BY <3>2, <3>3
    <2>2. /\ ToSet(kept') = P \cup K /\ ToSet(preroll') = {} /\ UNCHANGED <<ring, hand>>
          /\ \A v \in Sessions : Busy(v)' => Busy(v)
      BY <1>3, PrependSets DEF Busy, Typed, WorkerKinds
    <2> QED
      BY <2>1, <2>2 DEF InOnePlace
  <1>4. ASSUME NEW w \in Sessions, TakeChunk(w) PROVE InOnePlace'
    <2>1. /\ R = ToSet(ring') \cup {Head(ring)} /\ Head(ring) \notin ToSet(ring')
          /\ UNCHANGED <<preroll, kept>>
      BY <1>4, PopSets DEF QueuesInOrder, Precede
    <2>2. \A v \in Sessions \ {w} : Busy(v)' = Busy(v) /\ hand'[v] = hand[v]
      BY <1>4, PopSets DEF Busy, Typed, WorkerKinds
    <2>3. hand'[w] = Head(ring)
      BY <1>4, PopSets DEF Typed, WorkerKinds
    <2> QED
      BY <2>1, <2>2, <2>3 DEF InOnePlace
  <1>5. ASSUME NEW w \in Sessions, ProcessChunk(w) PROVE InOnePlace'
    <2>1. /\ ToSet(kept') = K \cup {hand[w]} /\ kept' = Append(kept, hand[w]) /\ Busy(w)
          /\ UNCHANGED <<ring, preroll>>
      BY <1>5, ProcessSets
    <2>2. /\ ~Busy(w)'
          /\ \A v \in Sessions \ {w} : Busy(v)' = Busy(v) /\ hand'[v] = hand[v]
      BY <1>5, ProcessSets DEF Busy, Typed, WorkerKinds
    <2>3. Distinct(kept')
      BY <2>1, Numbers, AppendOrder DEF InOnePlace
    <2> QED
      BY <2>1, <2>2, <2>3 DEF InOnePlace
  <1>6. ASSUME NEW w \in Sessions, RingEmpty(w) PROVE InOnePlace'
    <2>1. /\ UNCHANGED <<preroll, ring, kept, hand>>
          /\ \A v \in Sessions : Busy(v)' => Busy(v)
      BY <1>6, EmptySets DEF Busy, Typed, WorkerKinds
    <2> QED
      BY <2>1 DEF InOnePlace
  <1>7. CASE UNCHANGED captureVars
    BY <1>7 DEF captureVars, workVars, InOnePlace, Busy
  <1> QED
    BY <1>1, <1>2, <1>3, <1>4, <1>5, <1>6, <1>7, CaptureSplit DEF WorkerSteps

----------------------------------------------------------------------------
(* The parts that hold while nothing has stalled.                            *)

LEMMA StallStays ==
  ASSUME [CaptureNext]_captureVars, ~stalled'
  PROVE  ~stalled
  <1> USE DEF callerVars, workVars, captureVars
  <1>1. CASE AudioCallback \/ UNCHANGED captureVars
    BY <1>1 DEF AudioCallback
  <1>2. CASE StartSession \/ SetRecording \/ TornDown \/ SignalWorker \/ TakeBuffer
    BY <1>2 DEF StartSession, SetRecording, TornDown, SignalWorker, TakeBuffer
  <1>3. CASE StartAudioWorker \/ StaleJoined \/ JoinWorker
    BY Zenon, <1>3 DEF StartAudioWorker, StaleJoined, JoinWorker
  <1>4. CASE \E discard \in BOOLEAN : EndSession(discard)
    BY <1>4 DEF EndSession
  <1>5. ASSUME NEW w \in Sessions, WorkerSteps(w) PROVE ~stalled
    BY <1>5 DEF WorkerSteps, PrependPreroll, TakeChunk, ProcessChunk, RingEmpty
  <1> QED
    BY <1>1, <1>2, <1>3, <1>4, <1>5, CaptureSplit DEF CallerMoves

LEMMA OneWorkerStep ==
  ASSUME Typed, SessionsInTurn, OneWorker, [CaptureNext]_captureVars, ~stalled'
  PROVE  OneWorker'
  <1> USE DEF callerVars, workVars, captureVars
  <1>0. phase # "idle" => session # NoWorker
    BY DEF SessionsInTurn, NoWorker
  <1>1. CASE AudioCallback \/ UNCHANGED captureVars
    BY <1>1 DEF AudioCallback, OneWorker, Alive
  <1>2. CASE StartSession \/ SetRecording
    BY <1>2 DEF StartSession, SetRecording, OneWorker, Alive
  <1>3. CASE StartAudioWorker \/ StaleJoined
    <2>1. /\ phase = "recording" /\ phase' = "live" /\ ref' = session /\ session' = session
          /\ at' = [at EXCEPT ![session] = "preroll"]
      BY <1>3 DEF StartAudioWorker, StaleJoined, StartWorker, OneWorker
    <2>2. \A w \in Sessions : at[w] \in {"off", "over"}
      BY <2>1 DEF OneWorker, Alive
    <2> QED
      BY <2>1, <2>2 DEF OneWorker, Alive, Typed, WorkerKinds
  <1>4. CASE TornDown \/ SignalWorker
    BY <1>4 DEF TornDown, SignalWorker, OneWorker, Alive
  <1>5. CASE JoinWorker
    <2>1. /\ phase = "join" /\ phase' = "take" /\ ref' = NoWorker /\ at' = at /\ ~Alive(ref)
          /\ session' = session
      BY <1>5 DEF JoinWorker
    <2> QED
      BY <2>1 DEF OneWorker, Alive
  <1>6. CASE TakeBuffer
    BY <1>6 DEF TakeBuffer, OneWorker, Alive
  <1>7. ASSUME NEW discard \in BOOLEAN, EndSession(discard) PROVE OneWorker'
    <2>1. /\ phase = "live" /\ phase' = "teardown" /\ UNCHANGED <<ref, session, at>>
          /\ at[session] # "preroll"
      BY <1>7 DEF EndSession
    <2>2. \A w \in Sessions : at[w] # "preroll"
      BY <2>1 DEF OneWorker, Alive
    <2> QED
      BY <2>1, <2>2 DEF OneWorker, Alive
  <1>8. ASSUME NEW w \in Sessions, WorkerSteps(w) PROVE OneWorker'
    <2>1. /\ UNCHANGED <<phase, ref, session>> /\ Alive(w)
          /\ \E to \in {"drain", "busy", "over"} : at' = [at EXCEPT ![w] = to]
      BY <1>8 DEF WorkerSteps, PrependPreroll, TakeChunk, ProcessChunk, RingEmpty, WorkerAt,
                  Alive
    <2>2. \A v \in Sessions : /\ Alive(v)' => Alive(v)
                              /\ (at[v] = "preroll")' => at[v] = "preroll"
      BY <2>1 DEF Alive, Typed, WorkerKinds
    <2> QED
      BY <2>1, <2>2 DEF OneWorker
  <1> QED
    BY <1>1, <1>2, <1>3, <1>4, <1>5, <1>6, <1>7, <1>8, CaptureSplit DEF CallerMoves

(* The order of the buffer, for one worker and for the caller.               *)
ResultsInOrder == \A s \in Sessions : Increasing(result[s])
KeptInOrder ==
    /\ Increasing(kept)
    /\ \A x \in ToSet(kept) : x >= first
    /\ phase \in {"idle", "open", "recording"} => kept = <<>>
    /\ phase \in {"open", "recording"} => \A x \in ToSet(preroll) : x >= first
WorkerInOrder(w) ==
    /\ Alive(w) => \A x \in ToSet(ring) : x >= first
    /\ at[w] = "preroll" => /\ kept = <<>>
                            /\ \A x \in ToSet(preroll) : x >= first
                            /\ Precede(ToSet(preroll), ToSet(ring))
    /\ at[w] \in {"drain", "busy"} => Precede(ToSet(kept), ToSet(ring))
    /\ Busy(w) => /\ hand[w] >= first
                  /\ Precede(ToSet(kept), {hand[w]})
                  /\ Precede({hand[w]}, ToSet(ring))

LEMMA BufferParts ==
  BufferInOrder <=> ResultsInOrder /\ KeptInOrder /\ \A w \in Sessions : WorkerInOrder(w)
  BY DEF BufferInOrder, ResultsInOrder, KeptInOrder, WorkerInOrder

LEMMA ResultsStep ==
  ASSUME Typed, ResultsInOrder, KeptInOrder, KeptKinds, [CaptureNext]_captureVars
  PROVE  ResultsInOrder'
  <1> USE DEF callerVars, workVars, captureVars
  <1>1. CASE result' = result
    BY <1>1 DEF ResultsInOrder
  <1>2. CASE TakeBuffer
    <2> DEFINE taken == IF discarding THEN <<>> ELSE kept
    <2>1. result' = [result EXCEPT ![session] = taken]
      BY <1>2 DEF TakeBuffer
    <2>2. Increasing(taken)
      BY EmptyQueue DEF KeptInOrder
    <2> HIDE DEF taken
    <2>3. \A s \in Sessions : result'[s] \in {result[s], taken}
      BY <2>1 DEF KeptKinds
    <2> QED
      BY <2>2, <2>3 DEF ResultsInOrder
  <1>3. CASE AudioCallback \/ (CallerMoves /\ ~TakeBuffer)
    BY <1>1, <1>3 DEF AudioCallback, CallerMoves, StartSession, SetRecording,
       StartAudioWorker, StaleJoined, StartWorker, TornDown, SignalWorker, JoinWorker, EndSession
  <1>4. ASSUME NEW w \in Sessions, WorkerSteps(w) PROVE ResultsInOrder'
    BY <1>1, <1>4 DEF WorkerSteps, PrependPreroll, TakeChunk, ProcessChunk, RingEmpty
  <1>5. CASE UNCHANGED captureVars
    BY <1>1, <1>5
  <1> QED
    BY <1>2, <1>3, <1>4, <1>5, CaptureSplit

(* What an actor's step leaves alone keeps its order.                        *)
LEMMA KeptFrame ==
  ASSUME KeptInOrder, UNCHANGED <<kept, first, preroll>>,
         phase' \in {"idle", "open", "recording"} => phase \in {"idle", "open", "recording"},
         phase' \in {"open", "recording"} => phase \in {"open", "recording"}
  PROVE  KeptInOrder'
  BY DEF KeptInOrder

LEMMA WorkerFrame ==
  ASSUME NEW w \in Sessions, WorkerInOrder(w), UNCHANGED <<kept, first, preroll, hand>>,
         ring' \in {ring, <<>>}, at'[w] = at[w]
  PROVE  WorkerInOrder(w)'
  <1>1. ToSet(ring') \subseteq ToSet(ring)
    BY EmptyQueue
  <1> QED
    BY <1>1 DEF WorkerInOrder, Alive, Busy, Precede

LEMMA KeptOrderStep ==
  ASSUME Typed, SessionsInTurn, CapturedBefore, InOnePlace, QueuesInOrder, OneWorker,
         BufferInOrder, [CaptureNext]_captureVars, ~stalled'
  PROVE  KeptInOrder'
  <1> USE DEF callerVars, workVars, captureVars
  <1>0. KeptInOrder /\ \A w \in Sessions : WorkerInOrder(w)
    BY BufferParts
  <1>1. CASE AudioCallback
    <2>1. /\ UNCHANGED <<kept, first, phase>> /\ heard' = heard + 1
          /\ \/ preroll' = preroll
             \/ ~active /\ ToSet(preroll') \subseteq ToSet(preroll) \cup {heard + 1}
      BY <1>1, CallbackSets
    <2>2. heard + 1 >= first
      BY Numbers DEF CapturedBefore
    <2> QED
      BY <1>0, <2>1, <2>2 DEF KeptInOrder
  <1>2. CASE StartSession \/ TakeBuffer
    <2>1. /\ kept' = <<>> /\ phase' \in {"open", "idle"}
          /\ phase' = "open" => preroll' = <<>>
      BY <1>2 DEF StartSession, TakeBuffer
    <2> QED
      BY <2>1, EmptyQueue DEF KeptInOrder
  <1>3. CASE SetRecording \/ TornDown \/ SignalWorker \/ JoinWorker
    BY <1>0, <1>3, KeptFrame DEF SetRecording, TornDown, SignalWorker, JoinWorker
  <1>4. CASE StartAudioWorker \/ StaleJoined
    <2>1. phase' \in {"live", "rejoin"} /\ UNCHANGED <<kept, first, preroll>>
      BY <1>4 DEF StartAudioWorker, StaleJoined, StartWorker
    <2> QED
      BY <1>0, <2>1, KeptFrame
  <1>5. ASSUME NEW discard \in BOOLEAN, EndSession(discard) PROVE KeptInOrder'
    BY <1>0, <1>5, KeptFrame DEF EndSession
  <1>6. ASSUME NEW w \in Sessions, PrependPreroll(w) PROVE KeptInOrder'
    <2>1. /\ kept = <<>> /\ \A x \in ToSet(preroll) : x >= first
          /\ phase = "live" /\ phase' = phase /\ first' = first
      BY <1>0, <1>6, PrependSets DEF WorkerInOrder, OneWorker
    <2>2. kept' = preroll
      <3>1. kept' = preroll \o <<>> /\ preroll \in Seq(Nat)
        BY <1>6, <2>1, PrependSets, Numbers
      <3> QED
        BY <3>1, ConcatEmptySeq
    <2> QED
      BY <2>1, <2>2 DEF QueuesInOrder, KeptInOrder
  <1>7. ASSUME NEW w \in Sessions, ProcessChunk(w) PROVE KeptInOrder'
    <2>1. /\ kept' = Append(kept, hand[w]) /\ ToSet(kept') = ToSet(kept) \cup {hand[w]}
          /\ Busy(w) /\ UNCHANGED <<first, phase, preroll>>
      BY <1>7, ProcessSets
    <2>2. hand[w] >= first /\ Precede(ToSet(kept), {hand[w]})
      BY <1>0, <2>1 DEF WorkerInOrder
    <2>3. phase \notin {"idle", "open", "recording"}
      BY <2>1 DEF OneWorker, Alive, Busy
    <2>4. Increasing(kept')
      BY <1>0, <2>1, <2>2, Numbers, AppendOrder DEF KeptInOrder
    <2> QED
      BY <1>0, <2>1, <2>2, <2>3, <2>4 DEF KeptInOrder
  <1>8. ASSUME NEW w \in Sessions, TakeChunk(w) \/ RingEmpty(w) PROVE KeptInOrder'
    BY <1>0, <1>8, PopSets, EmptySets, KeptFrame
  <1>9. CASE UNCHANGED captureVars
    BY <1>0, <1>9, KeptFrame
  <1> QED
    BY <1>1, <1>2, <1>3, <1>4, <1>5, <1>6, <1>7, <1>8, <1>9, CaptureSplit
    DEF CallerMoves, WorkerSteps

LEMMA WorkerOrderStep ==
  ASSUME Typed, SessionsInTurn, CapturedBefore, InOnePlace, QueuesInOrder, OneWorker,
         BufferInOrder, [CaptureNext]_captureVars, ~stalled', NEW v \in Sessions
  PROVE  WorkerInOrder(v)'
  <1> USE DEF callerVars, workVars, captureVars
  <1>0. KeptInOrder /\ \A w \in Sessions : WorkerInOrder(w)
    BY BufferParts
  <1>1. ASSUME at'[v] \in {"off", "over"} PROVE WorkerInOrder(v)'
    BY <1>1 DEF WorkerInOrder, Alive, Busy
  <1>2. CASE AudioCallback
    <2>1. /\ UNCHANGED <<kept, first, at, hand>>
          /\ ToSet(ring') \subseteq ToSet(ring) \cup {heard + 1}
          /\ preroll' = preroll \/ ~active
      BY <1>2, CallbackSets
    <2>2. at[v] = "preroll" => preroll' = preroll
      BY <2>1 DEF OneWorker, SessionsInTurn
    <2>3. /\ heard + 1 >= first /\ Precede(ToSet(preroll), {heard + 1})
          /\ Precede(ToSet(kept), {heard + 1}) /\ hand[v] < heard + 1
      <3>1. \A n \in Nat : n <= heard => n < heard + 1
        BY Numbers
      <3> QED
        BY <3>1, FreshChunk, Numbers DEF CapturedBefore, Precede
    <2>4. WorkerInOrder(v)
      BY <1>0
    <2>5. Alive(v)' => \A x \in ToSet(ring') : x >= first
      BY <2>1, <2>3, <2>4 DEF WorkerInOrder, Alive
    <2>6. at'[v] = "preroll" => /\ kept' = <<>>
                                /\ \A x \in ToSet(preroll') : x >= first'
                                /\ Precede(ToSet(preroll'), ToSet(ring'))
      BY <2>1, <2>2, <2>3, <2>4 DEF WorkerInOrder, Precede
    <2>7. at'[v] \in {"drain", "busy"} => Precede(ToSet(kept'), ToSet(ring'))
      BY <2>1, <2>3, <2>4 DEF WorkerInOrder, Precede
    <2>8. Busy(v)' => /\ hand'[v] >= first'
                      /\ Precede(ToSet(kept'), {hand'[v]})
                      /\ Precede({hand'[v]}, ToSet(ring'))
      BY <2>1, <2>3, <2>4 DEF WorkerInOrder, Precede, Busy
    <2> QED
      BY <2>1, <2>5, <2>6, <2>7, <2>8 DEF WorkerInOrder
  <1>3. CASE StartSession \/ TakeBuffer
    <2>1. phase \in {"idle", "take"} /\ at' = at
      BY <1>3 DEF StartSession, TakeBuffer
    <2>2. ~Alive(v)
      BY <2>1 DEF OneWorker
    <2> QED
      BY <1>1, <2>1, <2>2 DEF Alive
  <1>4. CASE SetRecording \/ TornDown \/ SignalWorker \/ JoinWorker
    <2>1. UNCHANGED <<kept, first, preroll, hand, at>> /\ ring' \in {ring, <<>>}
      BY <1>4 DEF SetRecording, TornDown, SignalWorker, LeftInRing, JoinWorker
    <2> QED
      BY <1>0, <2>1, WorkerFrame
  <1>5. CASE StartAudioWorker \/ StaleJoined
    <2>1. /\ phase = "recording" /\ at' = [at EXCEPT ![session] = "preroll"]
          /\ ring' = <<>> /\ UNCHANGED <<kept, preroll, first>>
      BY <1>5 DEF StartAudioWorker, StaleJoined, StartWorker, RingAtStart, OneWorker
    <2>2. at[v] \in {"off", "over"}
      BY <2>1 DEF OneWorker, Alive
    <2>3. at'[v] \in {"off", "over", "preroll"}
      BY <2>1, <2>2 DEF Typed, WorkerKinds
    <2>4. kept = <<>> /\ \A x \in ToSet(preroll) : x >= first
      BY <1>0, <2>1 DEF KeptInOrder
    <2> QED
      BY <1>1, <2>1, <2>3, <2>4, EmptyQueue DEF WorkerInOrder, Busy, Precede
  <1>6. ASSUME NEW discard \in BOOLEAN, EndSession(discard) PROVE WorkerInOrder(v)'
    BY <1>0, <1>6, WorkerFrame DEF EndSession
  <1>7. ASSUME NEW w \in Sessions, WorkerSteps(w) PROVE WorkerInOrder(v)'
    <2>1. Alive(w) /\ \E to \in {"drain", "busy", "over"} : at' = [at EXCEPT ![w] = to]
      BY <1>7 DEF WorkerSteps, PrependPreroll, TakeChunk, ProcessChunk, RingEmpty, WorkerAt,
                  Alive
    <2>2. CASE v # w
      <3>1. ~Alive(v) /\ at'[v] = at[v]
        BY <2>1, <2>2 DEF OneWorker, Typed, WorkerKinds
      <3> QED
        BY <1>1, <3>1 DEF Alive
    <2>3. CASE v = w /\ PrependPreroll(w)
      <3>1. /\ at[w] = "preroll" /\ kept = <<>> /\ UNCHANGED <<ring, first>> /\ at'[w] = "drain"
            /\ ToSet(kept') = ToSet(preroll) \cup ToSet(kept)
        BY <1>0, <2>3, PrependSets DEF WorkerInOrder, Typed, WorkerKinds
      <3>2. WorkerInOrder(w) /\ ToSet(kept') = ToSet(preroll)
        BY <1>0, <3>1, EmptyQueue
      <3> QED
        BY <2>3, <3>1, <3>2 DEF WorkerInOrder, Alive, Busy
    <2>4. CASE v = w /\ TakeChunk(w)
      <3>1. /\ ToSet(ring) = ToSet(ring') \cup {Head(ring)} /\ UNCHANGED <<kept, first>>
            /\ Precede({Head(ring)}, ToSet(ring'))
            /\ at[w] = "drain" /\ at'[w] = "busy" /\ hand'[w] = Head(ring)
        BY <2>4, PopSets DEF QueuesInOrder, Typed, WorkerKinds
      <3>2. WorkerInOrder(w)
        BY <1>0
      <3>3. /\ \A x \in ToSet(ring) : x >= first
            /\ Precede(ToSet(kept), ToSet(ring))
        BY <3>1, <3>2 DEF WorkerInOrder, Alive
      <3> QED
        BY <2>4, <3>1, <3>3 DEF WorkerInOrder, Alive, Busy, Precede
    <2>5. CASE v = w /\ ProcessChunk(w)
      <3>1. /\ ToSet(kept') = ToSet(kept) \cup {hand[w]} /\ UNCHANGED <<ring, first>>
            /\ Busy(w) /\ at'[w] \in {"over", "drain"}
        BY <2>5, ProcessSets DEF Typed, WorkerKinds
      <3>2. WorkerInOrder(w)
        BY <1>0
      <3>3. /\ \A x \in ToSet(ring) : x >= first
            /\ Precede(ToSet(kept), ToSet(ring)) /\ Precede({hand[w]}, ToSet(ring))
        BY <3>1, <3>2 DEF WorkerInOrder, Alive, Busy
      <3> QED
        BY <2>5, <3>1, <3>3 DEF WorkerInOrder, Alive, Busy, Precede
    <2>6. CASE v = w /\ RingEmpty(w)
      <3>1. /\ at[w] = "drain" /\ UNCHANGED <<ring, kept, first>>
            /\ at'[w] \in {"over", "drain"}
        BY <2>6, EmptySets DEF Typed, WorkerKinds
      <3>2. WorkerInOrder(w)
        BY <1>0
      <3> QED
        BY <2>6, <3>1, <3>2 DEF WorkerInOrder, Alive, Busy
    <2> QED
      BY <1>7, <2>2, <2>3, <2>4, <2>5, <2>6 DEF WorkerSteps
  <1>8. CASE UNCHANGED captureVars
    BY <1>0, <1>8, WorkerFrame
  <1> QED
    BY <1>2, <1>3, <1>4, <1>5, <1>6, <1>7, <1>8, CaptureSplit DEF CallerMoves

----------------------------------------------------------------------------
(* The invariant and what follows from it.                                   *)

LEMMA CaptureInitially == CaptureInit => CaptureIInv
  <1> SUFFICES ASSUME CaptureInit PROVE CaptureIInv
    OBVIOUS
  <1> USE DEF CaptureInit
  <1>1. CaptureFlags /\ EventKinds
    BY DEF CaptureFlags, EventKinds
  <1>2. PhaseKinds /\ FirstKinds
    BY Bounds DEF PhaseKinds, FirstKinds, NoWorker
  <1>3. QueueKinds /\ KeptKinds
    BY Bounds DEF QueueKinds, KeptKinds
  <1>4. WorkerKinds
    <2>1. 0 \in 0..MaxChunks /\ 0 \in 0..(DrainStop - 1)
      BY Bounds
    <2> QED
      BY <2>1 DEF WorkerKinds
  <1>5. HandsFull /\ SessionsInTurn
    BY DEF HandsFull, SessionsInTurn, Busy
  <1>6. CapturedBefore /\ InOnePlace /\ QueuesInOrder
    BY EmptyQueue DEF CapturedBefore, InOnePlace, QueuesInOrder, Busy
  <1>7. OneWorker
    BY DEF OneWorker, Alive
  <1>8. BufferInOrder
    BY EmptyQueue DEF BufferInOrder, Alive, Busy
  <1> QED
    BY <1>1, <1>2, <1>3, <1>4, <1>5, <1>6, <1>7, <1>8, CaptureKinds DEF CaptureIInv

LEMMA CaptureInduction == CaptureIInv /\ [CaptureNext]_captureVars => CaptureIInv'
  <1> SUFFICES ASSUME CaptureIInv, [CaptureNext]_captureVars PROVE CaptureIInv'
    OBVIOUS
  <1>1. /\ CaptureFlags /\ PhaseKinds /\ FirstKinds /\ QueueKinds /\ KeptKinds
        /\ WorkerKinds /\ EventKinds /\ HandsFull /\ Typed
    BY CaptureKinds DEF CaptureIInv, Typed
  <1>2. /\ CaptureFlags' /\ PhaseKinds' /\ FirstKinds' /\ QueueKinds' /\ KeptKinds'
        /\ WorkerKinds' /\ EventKinds' /\ HandsFull'
    BY <1>1, CaptureFlagStep, PhaseStep, FirstStep, QueueStep, KeptStep, WorkerStep, EventStep,
       HandStep
  <1>3. CaptureTypeOK'
    BY <1>2 DEF CaptureTypeOK, CaptureFlags, PhaseKinds, FirstKinds, QueueKinds, KeptKinds,
                WorkerKinds, EventKinds
  <1>4. SessionsInTurn' /\ CapturedBefore' /\ QueuesInOrder' /\ InOnePlace'
    BY <1>1, SessionStep, CapturedStep, QueuesStep, PlaceStep DEF CaptureIInv
  <1>5. ASSUME ~stalled' PROVE OneWorker' /\ BufferInOrder'
    <2>1. ~stalled
      BY <1>5, StallStays
    <2>2. OneWorker /\ BufferInOrder
      BY <2>1 DEF CaptureIInv
    <2>3. OneWorker'
      BY <1>1, <1>5, <2>2, OneWorkerStep DEF CaptureIInv
    <2>4. ResultsInOrder'
      BY <1>1, <2>2, ResultsStep, BufferParts
    <2>5. KeptInOrder' /\ \A v \in Sessions : WorkerInOrder(v)'
      BY <1>1, <1>5, <2>2, KeptOrderStep, WorkerOrderStep DEF CaptureIInv
    <2> QED
      BY <2>3, <2>4, <2>5 DEF BufferInOrder, ResultsInOrder, KeptInOrder, WorkerInOrder
  <1> QED
    BY <1>2, <1>3, <1>4, <1>5 DEF CaptureIInv

LEMMA CaptureInvariance == CaptureSpec => []CaptureIInv
  BY CaptureInitially, CaptureInduction, PTL DEF CaptureSpec

(* Every variable of the capture side keeps its type: the deques stay within *)
(* their maxlen, and a worker that appends has a chunk in its hand.          *)
THEOREM CaptureTypeCorrect == CaptureSpec => []CaptureTypeOK
  <1>1. CaptureIInv => CaptureTypeOK
    BY DEF CaptureIInv
  <1> QED
    BY <1>1, CaptureInvariance, PTL

(* What stop() returns is in the order of the capture and the buffer holds   *)
(* the audio of its own session, unless a worker was left behind; and even   *)
(* with several workers on one ring no chunk is buffered twice               *)
(* (capture_audio_worker.py, recording_start.py).                            *)
THEOREM BufferHoldsTheRecording == CaptureSpec => []BufferIsTheRecording
  <1>1. ASSUME CaptureIInv PROVE BufferIsTheRecording
    <2>1. /\ ring \in Seq(Nat) /\ kept \in Seq(Nat) /\ result \in [Sessions -> Seq(Chunk)]
          /\ \A w \in Sessions : hand[w] \in Nat
      BY <1>1, Numbers, CaptureKinds DEF CaptureIInv, Typed, KeptKinds
    <2>2. AudioInOrder
      <3> SUFFICES ASSUME ~stalled, NEW s \in Sessions, NEW i \in 1..(Len(result[s]) - 1)
                   PROVE  result[s][i] < result[s][i + 1]
        BY DEF AudioInOrder
      <3>1. Increasing(result[s])
        BY <1>1 DEF CaptureIInv, BufferInOrder
      <3>2. Len(result[s]) \in Nat
        BY <2>1
      <3>3. i \in 1..Len(result[s]) /\ i + 1 \in 1..Len(result[s]) /\ i < i + 1
        BY <3>2
      <3> QED
        BY <3>1, <3>3 DEF Increasing
    <2>3. OwnAudioOnly
      <3>1. ~stalled => \A x \in ToSet(kept) : x >= first
        BY <1>1 DEF CaptureIInv, BufferInOrder
      <3> QED
        BY <2>1, <3>1, InSet DEF OwnAudioOnly
    <2>4. BufferedOnce
      <3>1. IsInjective(kept)
        <4>1. DOMAIN kept = 1..Len(kept)
          BY <2>1
        <4>2. Distinct(kept)
          BY <1>1 DEF CaptureIInv, InOnePlace
        <4> QED
          BY <4>1, <4>2 DEF IsInjective, Distinct
      <3>2. \A w \in Sessions : at[w] = "busy" => hand[w] \notin ToSet(kept) \cup ToSet(ring)
        BY <1>1 DEF CaptureIInv, InOnePlace, Busy
      <3> QED
        BY <3>1, <3>2 DEF BufferedOnce
    <2> QED
      BY <2>2, <2>3, <2>4 DEF BufferIsTheRecording
  <1> QED
    BY <1>1, CaptureInvariance, PTL

----------------------------------------------------------------------------
(* Who listens to the ring.                                                  *)

ListeningPhases == {"live", "teardown", "signal"}

(* The worker of the session runs and has not been told to stop from its     *)
(* start to the signal of the stop; every other thread that still runs, left *)
(* behind by a join that timed out, has been told to.                        *)
OneListens ==
    \A w \in Sessions : Alive(w) /\ ~stopSet[w] <=> w = session /\ phase \in ListeningPhases

(* Nobody is told to stop before the end of a session of its own, and the    *)
(* reference names the worker of the session until the join.                 *)
SignalsInTurn ==
    /\ \A w \in Sessions :
          stopSet[w] => /\ w <= session
                        /\ w = session => phase \in {"join", "take", "idle"}
    /\ phase \in ListeningPhases \cup {"join"} => ref = session

LEMMA ListenersStep ==
  CaptureIInv /\ OneListens /\ SignalsInTurn /\ [CaptureNext]_captureVars
    => OneListens' /\ SignalsInTurn'
  <1> SUFFICES ASSUME CaptureIInv, OneListens, SignalsInTurn, [CaptureNext]_captureVars
               PROVE  OneListens' /\ SignalsInTurn'
    OBVIOUS
  <1>1. /\ at \in [Sessions -> {"off", "preroll", "drain", "busy", "over"}]
        /\ stopSet \in [Sessions -> BOOLEAN] /\ session \in 0..MaxSessions
        /\ phase # "idle" => session \in Sessions
        /\ \A w \in Sessions : w \in Nat /\ w # 0
        /\ \A w \in Sessions : w > session => at[w] = "off"
    BY Bounds DEF CaptureIInv, CaptureTypeOK, SessionsInTurn, Sessions
  <1> USE DEF OneListens, SignalsInTurn, ListeningPhases
  <1>2. CASE AudioCallback \/ SetRecording \/ TornDown \/ JoinWorker \/ TakeBuffer
    BY <1>1, <1>2 DEF AudioCallback, SetRecording, TornDown, JoinWorker, TakeBuffer, callerVars,
                      workVars, Alive
  <1>3. CASE StartSession
    BY <1>1, <1>3, Bounds DEF StartSession, workVars, Alive
  <1>4. CASE StartAudioWorker \/ StaleJoined
    <2>1. CASE phase' = "rejoin"
      BY <1>1, <1>4, <2>1 DEF StartAudioWorker, StaleJoined, StartWorker, workVars, Alive
    <2>2. CASE phase' # "rejoin"
      <3>1. /\ StartWorker(session) /\ phase \in {"recording", "rejoin"}
        BY <1>4, <2>2 DEF StartAudioWorker, StaleJoined
      <3> QED
        BY <1>1, <3>1 DEF StartWorker, Alive
    <2> QED
      BY <2>1, <2>2
  <1>5. CASE SignalWorker
    BY <1>1, <1>5 DEF SignalWorker, workVars, Alive
  <1>6. CASE \E discard \in BOOLEAN : EndSession(discard)
    BY <1>1, <1>6 DEF EndSession, workVars, Alive
  <1>7. ASSUME NEW w \in Sessions, WorkerSteps(w) PROVE OneListens' /\ SignalsInTurn'
    <2>1. /\ UNCHANGED <<phase, session, stopSet, ref>> /\ Alive(w)
          /\ \E to \in {"drain", "busy", "over"} :
                /\ at' = [at EXCEPT ![w] = to]
                /\ to = "over" => stopSet[w]
      BY <1>7 DEF WorkerSteps, PrependPreroll, TakeChunk, ProcessChunk, RingEmpty, WorkerAt,
                  Stopping, callerVars, Alive
    <2> QED
      BY <1>1, <2>1 DEF Alive
  <1>8. CASE UNCHANGED captureVars
    BY <1>8 DEF captureVars, callerVars, workVars, Alive
  <1> QED
    BY <1>2, <1>3, <1>4, <1>5, <1>6, <1>7, <1>8 DEF CaptureNext, CallerStep

(* One worker listens to a recording, from its start to the signal of its    *)
(* stop, and each one that a join left behind has been told to end: a new    *)
(* recording neither revives it nor finds its own worker stopped (the safety *)
(* half of StaleWorkerEnds; start_audio_worker_body gives each thread events *)
(* of its own).                                                              *)
THEOREM OneWorkerListens == CaptureSpec => []OneListens
  <1>1. CaptureInit => OneListens /\ SignalsInTurn
    BY DEF CaptureInit, OneListens, SignalsInTurn, ListeningPhases, Alive
  <1> QED
    BY <1>1, ListenersStep, CaptureInvariance, PTL DEF CaptureSpec

-----------------------------------------------------------------------------
(* The run of the services: a behaviour of it is one of the timers, of the   *)
(* device side and of the capture side of the recorder.                      *)

LEMMA ServicesInitially == ServicesInit => IInv /\ DeviceIInv /\ CaptureIInv
  BY InitInv, DeviceInitially, CaptureInitially DEF ServicesInit

LEMMA ServicesStep ==
  [ServicesNext]_allParts =>
    [Next]_vars /\ [DeviceNext]_deviceVars /\ [CaptureNext]_captureVars
  BY DEF ServicesNext, allParts, OnlyTimer, OnlyDevice, OnlyCapture

(* In the run that checks the timers and both sides of the recorder          *)
(* together, every variable of the three keeps its type.                     *)
THEOREM ServicesTypeCorrect == ServicesSpec => []ServicesTypeOK
  <1>1. IInv => TypeOK
    BY DEF IInv
  <1>2. DeviceIInv => DeviceTypeOK
    BY DEF DeviceIInv
  <1>3. CaptureIInv => CaptureTypeOK
    BY DEF CaptureIInv
  <1>4. IInv /\ DeviceIInv /\ CaptureIInv => ServicesTypeOK
    BY <1>1, <1>2, <1>3 DEF ServicesTypeOK
  <1> QED
    BY <1>4, ServicesInitially, ServicesStep, NextInv, DeviceInduction, CaptureInduction, PTL
    DEF ServicesSpec
=============================================================================
