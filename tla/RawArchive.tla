----------------------------- MODULE RawArchive -----------------------------
(***************************************************************************)
(* What raw ingestion promises: each message identity is archived at most  *)
(* once, with one content for ever, and whatever is emitted to the parsers *)
(* under that identity is the archived content.                            *)
(***************************************************************************)
CONSTANTS
    Ids,       \* message identities (tenant, messageId)
    Messages,  \* full contents: payload, device, product and metadata
    Nil        \* nothing is archived

VARIABLES
    archive,   \* archive[i]: the archived content, or Nil
    emitted    \* emitted[i]: the contents sent to the parsers

avars == <<archive, emitted>>

AInit ==
    /\ archive = [i \in Ids |-> Nil]
    /\ emitted = [i \in Ids |-> {}]

Archive(i, m) ==
    /\ archive[i] = Nil
    /\ archive' = [archive EXCEPT ![i] = m]
    /\ UNCHANGED emitted

Emit(i) ==
    /\ archive[i] # Nil
    /\ emitted' = [emitted EXCEPT ![i] = @ \cup {archive[i]}]
    /\ UNCHANGED archive

ANext == \E i \in Ids : Emit(i) \/ \E m \in Messages : Archive(i, m)

ASpec == AInit /\ [][ANext]_avars

=============================================================================
