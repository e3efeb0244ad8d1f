---------------------------- MODULE LoadKillDrop ----------------------------
(* The load of a kill domain.  A kill does not reset it, since the memory   *)
(* controller cannot forget a request: it counts the words it owes (two     *)
(* bits) and throws away those that were owed at the kill.                  *)
EXTENDS Channel, Naturals

VARIABLES addrSlot, wordSlot,   \* what addr_ and data_one_slot_break_r hold
          owed, drop,
          addrIn, addrOut_ready, dataFromMem, dataOut_ready, kill

dropping == drop # 0
word_ready == dataOut_ready \/ dropping

Addr == INSTANCE OneSlotBreakR WITH fullReg <- Valid(addrSlot), dataReg <- addrSlot,
          ins <- addrIn, outs_ready <- addrOut_ready, rst <- FALSE
Word == INSTANCE OneSlotBreakR WITH fullReg <- Valid(wordSlot), dataReg <- wordSlot,
          ins <- dataFromMem, outs_ready <- word_ready, rst <- FALSE

addrIn_ready == Addr!ins_ready
addrOut == Addr!outs
dataFromMem_ready == Word!ins_ready
dataOut == IF dropping THEN NoToken ELSE Word!outs

accepted == Valid(addrIn) /\ addrIn_ready
passed == Valid(Word!outs) /\ word_ready

addrSlot_next == Addr!slot_next
wordSlot_next == Word!slot_next

One(b) == IF b THEN 1 ELSE 0

\* Mutant: dropped words stay owed.
owed_next_KeepsDropped == (owed + One(accepted) + 4 - One(passed /\ ~dropping)) % 4

owed_next == (owed + One(accepted) + 4 - One(passed)) % 4
\* Mutant: a passed word is counted off also when none is to be dropped.
drop_next_Unguarded == CASE kill -> owed_next
                         [] ~kill /\ passed -> drop - 1
                         [] OTHER -> drop

\* Mutant: what the kill's own cycle accepts and passes is left out.
drop_next_Stale == CASE kill -> owed
                     [] ~kill /\ dropping /\ passed -> drop - 1
                     [] OTHER -> drop

\* Mutant: a second kill adds to what is still being dropped.
drop_next_Adds == CASE kill -> (drop + owed_next) % 4
                    [] ~kill /\ dropping /\ passed -> drop - 1
                    [] OTHER -> drop

drop_next == CASE kill -> owed_next
               [] ~kill /\ dropping /\ passed -> drop - 1
               [] OTHER -> drop
=============================================================================
