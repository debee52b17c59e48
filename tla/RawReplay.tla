----------------------------- MODULE RawReplay ------------------------------
(***************************************************************************)
(* The parse stage (handleRaw) and the replay of archived raw messages.    *)
(* A replay pages through the index of archived messages, newest first,    *)
(* while new messages are archived; REINGEST puts each one on the raw      *)
(* topic again, where handleRaw selects a protocol release, parses, stores *)
(* the verdict and forwards the standard message.                          *)
(***************************************************************************)
EXTENDS Naturals, Sequences, FiniteSets, SequencesExt

CONSTANTS
    Raws, Pinned,       \* archived messages; those that name a protocol release
    PageSize,           \* index rows per page, 500 in the code
    RNone

ASSUME ReplayAssumption ==
    Pinned \subseteq Raws /\ PageSize \in Nat \ {0} /\ RNone \notin {"ok", "error"}

VARIABLES
    index,              \* the raw_archive_index rows of the range, newest first
    replay,             \* the replay row, and the local variables of runReplay
    rawTopic,           \* messages on the raw topic, to be handled
    handler,            \* the message handleRaw works on, and how far it is
    binding, release,   \* the product's binding, the release's status
    verdict,            \* verdict[r]: the parse result in the index row
    parsed              \* standard messages forwarded

rvars == <<index, replay, rawTopic, handler, binding, release, verdict, parsed>>

\* DIFF differs from DRY_RUN only in the comparison it records.
Modes == {"DRY_RUN", "REINGEST"}
NoReplay == [status |-> "none", mode |-> "DRY_RUN", offset |-> 0, page |-> <<>>, last |-> FALSE,
             base |-> {}, visited |-> {}]
NoHandler == [pc |-> "idle", raw |-> RNone, ok |-> FALSE]

ReplayInit ==
    /\ index \in {s \in SeqOf(Raws, Cardinality(Raws)) : IsInjective(s)}
    /\ replay = NoReplay
    /\ rawTopic = {} /\ handler = NoHandler
    /\ binding \in BOOLEAN /\ release = "PUBLISHED"
    /\ verdict = [r \in Raws |-> RNone] /\ parsed = {}

\* A message is archived while the replay runs: it may carry any receive time.
ArchiveRaw(r) ==
    /\ r \notin Range(index)
    /\ \E i \in 1 .. Len(index) + 1 : index' = InsertAt(index, i, r)
    /\ UNCHANGED <<replay, rawTopic, handler, binding, release, verdict, parsed>>

StartReplay(mode) ==
    /\ replay.status = "none"
    /\ replay' = [NoReplay EXCEPT !.status = "PENDING", !.mode = mode, !.base = Range(index)]
    /\ UNCHANGED <<index, rawTopic, handler, binding, release, verdict, parsed>>

\* ListRawIndexes: LIMIT PageSize OFFSET offset.
ListRawIndexes(offset) ==
    SubSeq(index, offset + 1, IF offset + PageSize < Len(index) THEN offset + PageSize ELSE Len(index))

BadNextPage ==
    LET p == ListRawIndexes(replay.offset) IN
    [replay EXCEPT !.status = IF p = <<>> THEN "COMPLETED" ELSE "RUNNING",
                   !.page = p, !.offset = @ + Len(p) + 1, !.last = Len(p) < PageSize]

\* The next page, with the offset its end will leave; a short page is the last.
NextPage ==
    LET p == ListRawIndexes(replay.offset) IN
    [replay EXCEPT !.status = IF p = <<>> THEN "COMPLETED" ELSE "RUNNING",
                   !.page = p, !.offset = @ + Len(p), !.last = Len(p) < PageSize]

ReplayPage ==
    /\ replay.status \in {"PENDING", "RUNNING"} /\ replay.page = <<>> /\ ~replay.last
    /\ replay' \in {NextPage, [replay EXCEPT !.status = "FAILED"]}
    /\ UNCHANGED <<index, rawTopic, handler, binding, release, verdict, parsed>>

\* parseReplay: a revoked release is an error, and the archive or the parser may
\* fail.
ReplayFails(r) == (r \in Pinned \/ binding) /\ release = "REVOKED"

\* One row of the page.
ReplayRow(ok) ==
    LET r == Head(replay.page) IN
    /\ replay.status = "RUNNING" /\ replay.page # <<>>
    /\ replay.mode # "REINGEST" /\ ReplayFails(r) => ~ok
    /\ replay' = [replay EXCEPT !.page = Tail(@), !.visited = @ \cup {r}]
    /\ rawTopic' = IF ok /\ replay.mode = "REINGEST" THEN rawTopic \cup {r} ELSE rawTopic
    /\ UNCHANGED <<index, handler, binding, release, verdict, parsed>>

BadEndReplay ==
    /\ replay.status = "RUNNING" /\ replay.page = <<>> /\ replay.last /\ replay.visited = replay.base
    /\ replay' = [replay EXCEPT !.status = "COMPLETED"]
    /\ UNCHANGED <<index, rawTopic, handler, binding, release, verdict, parsed>>

EndReplay ==
    /\ replay.status = "RUNNING" /\ replay.page = <<>> /\ replay.last
    /\ replay' = [replay EXCEPT !.status = "COMPLETED"]
    /\ UNCHANGED <<index, rawTopic, handler, binding, release, verdict, parsed>>

runReplay == ReplayPage \/ (\E ok \in BOOLEAN : ReplayRow(ok)) \/ EndReplay

\* An operator revokes the release, or binds the product to it.
ChangeProtocol ==
    /\ \/ release' = "REVOKED" /\ release = "PUBLISHED" /\ UNCHANGED binding
       \/ binding' = TRUE /\ ~binding /\ UNCHANGED release
    /\ UNCHANGED <<index, replay, rawTopic, handler, verdict, parsed>>

-----------------------------------------------------------------------------
\* A delivery: the release is read and the message parsed.  Without a release
\* the product's package or the default parser is used.
handleRaw(r, ok) ==
    /\ handler.pc = "idle" /\ r \in rawTopic
    /\ ReplayFails(r) => ~ok
    /\ handler' = [pc |-> "mark", raw |-> r, ok |-> ok]
    /\ UNCHANGED <<index, replay, rawTopic, binding, release, verdict, parsed>>

BadMarkRawParseResult ==
    /\ handler.pc = "mark"
    /\ handler' = [handler EXCEPT !.pc = "publish"]
    /\ verdict' = verdict
    /\ UNCHANGED <<index, replay, rawTopic, binding, release, parsed>>

\* The verdict is stored; a failure is terminal for the delivery.
MarkRawParseResult ==
    /\ handler.pc = "mark"
    /\ verdict' = [verdict EXCEPT ![handler.raw] = IF handler.ok THEN "ok" ELSE "error"]
    /\ IF handler.ok
       THEN handler' = [handler EXCEPT !.pc = "publish"] /\ UNCHANGED rawTopic
       ELSE handler' = NoHandler /\ rawTopic' = rawTopic \ {handler.raw}
    /\ UNCHANGED <<index, replay, binding, release, parsed>>

\* The bus takes the standard message; the MQTT copy may fail, which makes the
\* bus deliver the raw message again.
ForwardParsed(mqtt) ==
    /\ handler.pc = "publish"
    /\ parsed' = parsed \cup {handler.raw}
    /\ handler' = NoHandler
    /\ rawTopic' = IF mqtt THEN rawTopic \ {handler.raw} ELSE rawTopic
    /\ UNCHANGED <<index, replay, binding, release, verdict>>

\* The handler returns an error or the process stops: the message stays.
AbandonRaw ==
    /\ handler.pc # "idle"
    /\ handler' = NoHandler
    /\ UNCHANGED <<index, replay, rawTopic, binding, release, verdict, parsed>>

ReplayNext ==
    \/ \E r \in Raws : ArchiveRaw(r) \/ \E ok \in BOOLEAN : handleRaw(r, ok)
    \/ \E mode \in Modes : StartReplay(mode)
    \/ runReplay
    \/ ChangeProtocol
    \/ MarkRawParseResult
    \/ \E mqtt \in BOOLEAN : ForwardParsed(mqtt)
    \/ AbandonRaw

ReplaySpec == ReplayInit /\ [][ReplayNext]_rvars

\* The replay's goroutine runs until it ends.
ReplayFairness == WF_rvars(runReplay)

-----------------------------------------------------------------------------
\* A replay that completes has visited every message that was archived in its
\* range when it began, also when messages are archived between two pages.
ReplayCovers == replay.status = "COMPLETED" => replay.base \subseteq replay.visited

\* A replay ends, although messages are archived while it runs.
ReplayEnds == replay.status = "PENDING" ~> replay.status \in {"COMPLETED", "FAILED"}

\* A standard message is forwarded only after the verdict of its raw message
\* was stored, whatever is delivered again and wherever the handler stops.
ForwardedHasVerdict == \A r \in parsed : verdict[r] # RNone

=============================================================================
