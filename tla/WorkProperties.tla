---------------------------- MODULE WorkProperties ----------------------------
(***************************************************************************)
(* What the work in the background of the pipeline promises: video events, *)
(* replays, collections, AI jobs and the state of a device. The components *)
(* share no state.                                                         *)
(***************************************************************************)
EXTENDS VideoAlarm, RawReplay, ModbusCollect, AiJobs, DeviceState

\* What the work does on its way to an end is right: an event is counted once and a
\* replay misses nothing (IngestVideo, runReplay), a verdict is stored before its
\* message is forwarded (handleRaw), a collection reads one block at a time and takes
\* each answer for its own block (ReadModbusTCP), a job runs once per key and leaves its
\* result where it says so (startAIAnalysisJob), and the stripe locks of the device state are
\* held by whoever writes.
WorkIsSound ==
    /\ EventsCountedOnce
    /\ ReplayCovers /\ ForwardedHasVerdict
    /\ OneSequencePerEndpoint /\ AnswerOfItsBlock
    /\ OneRunPerKey /\ SucceededIsSaved
    /\ StateTypeOK

=============================================================================
