--------------------------- MODULE MemController ---------------------------
(***************************************************************************)
(* The storing half of the memory controller and the circuit it serves.    *)
(* Every visit of a basic block announces on the block's control port how  *)
(* many stores the block makes (getMCControl); the stores come through     *)
(* their ports in their own time, even before their announcement; the      *)
(* control token of the return block arrives as ctrlEnd.  The controller   *)
(* reports memEnd, on which the function's end waits, from a counter of    *)
(* announced minus performed stores and the two-state machine mc_control.  *)
(* One Next step is one clock edge.                                        *)
(*                                                                         *)
(* Addresses and data are left out, and so are the loads: in the mixed     *)
(* controller the read arbiter stands beside this circuit and shares no    *)
(* signal with it.                                                         *)
(***************************************************************************)
EXTENDS Integers, FiniteSets, Functions

CONSTANTS Blocks,       \* control ports: the blocks with stores
          Ports,        \* store ports, 1 .. num_stores; an LSQ has one of them
          StoresOf,     \* stores a visit of block b makes through port p
          CounterBits,  \* width of remainingStores (32 in the code)
          MaxVisits,    \* bound on the visits of a block in one run
          MaxLag        \* cycles a control token may come after ctrlEnd

\* numStoresInBlock: direct stores and those that go through the LSQ
numStores == [b \in Blocks |-> SumFunction(StoresOf[b])]

ASSUME MemControllerAssumption ==
  /\ IsFiniteSet(Blocks) /\ Ports \subseteq Nat /\ IsFiniteSet(Ports)
  /\ StoresOf \in [Blocks -> [Ports -> Nat]]
  /\ CounterBits \in Nat /\ MaxVisits \in Nat /\ MaxLag \in Nat
  /\ SumFunction([b \in Blocks |-> MaxVisits * numStores[b]]) < 2^CounterBits

VARIABLES fsm_q, no_more_requests_q, remainingStores,    \* registers
          ctrl,          \* the control ports with a token in this cycle
          st,            \* the store ports with address and data in this cycle
          start, ended,  \* the tokens of memStart and of ctrlEnd
          memEnd_ready,
          running,       \* the function is between its start and its end
          toCtrl,        \* visits whose control token is still to come
          toStore,       \* stores still to come, by port
          age            \* cycles since ctrlEnd came

regs == <<fsm_q, no_more_requests_q, remainingStores>>
circuit == <<ctrl, st, start, ended, memEnd_ready, running, toCtrl, toStore, age>>
vars == <<regs, circuit>>

\* Where a token is that comes once in a run.
Once == {"later", "offered", "taken"}

TypeOK ==
  /\ fsm_q \in {"IDLE", "RUNNING"} /\ no_more_requests_q \in BOOLEAN
  /\ remainingStores \in 0 .. 2^CounterBits - 1
  /\ ctrl \subseteq Blocks /\ st \subseteq Ports
  /\ start \in Once /\ ended \in Once
  /\ memEnd_ready \in BOOLEAN /\ running \in BOOLEAN
  /\ toCtrl \in [Blocks -> 0 .. MaxVisits] /\ toStore \in [Ports -> Nat]
  /\ age \in 0 .. MaxLag
-----------------------------------------------------------------------------
(* The controller's wires.                                                 *)

\* write_priority: the lowest port with a complete request.
store_access_port_selected == {p \in st : \A o \in st : p <= o}
storeEn == store_access_port_selected # {}

\* Mutant: control tokens of this cycle are not looked at.
allRequestsDone_IgnoresCtrl == remainingStores = 0

allRequestsDone == remainingStores = 0 /\ ctrl = {}

memStart_ready == fsm_q = "IDLE"
ctrlEnd_ready == ~no_more_requests_q
memEnd_valid == no_more_requests_q /\ allRequestsDone /\ fsm_q = "RUNNING"

\* Mutant: the machine returns without waiting for memEnd's reader.
function_return_NotReady == memEnd_valid

function_return == memEnd_valid /\ memEnd_ready
-----------------------------------------------------------------------------
(* The clocked processes.                                                  *)

\* Mutant: of several control tokens in a cycle only one is counted.
count_stores_OneCtrl ==
  remainingStores' =
    (remainingStores
       + (IF ctrl = {} THEN 0 ELSE numStores[CHOOSE b \in ctrl : TRUE])
       - (IF storeEn THEN 1 ELSE 0)) % 2^CounterBits

count_stores ==
  remainingStores' =
    (remainingStores + SumFunctionOnSet(numStores, ctrl)
       - (IF storeEn THEN 1 ELSE 0)) % 2^CounterBits

fsm == fsm_q' = CASE fsm_q = "IDLE" /\ start = "offered" -> "RUNNING"
                  [] fsm_q # "IDLE" /\ function_return -> "IDLE"
                  [] OTHER -> fsm_q

\* Mutant: the token of ctrlEnd is only kept once the machine runs.
no_more_requests_WhileRunning ==
  no_more_requests_q' = /\ ~function_return
                        /\ \/ no_more_requests_q
                           \/ ended = "offered" /\ fsm_q = "RUNNING"

no_more_requests ==
  no_more_requests_q' = (~function_return /\ (no_more_requests_q \/ ended = "offered"))

Clock == count_stores /\ fsm /\ no_more_requests
-----------------------------------------------------------------------------
(* The circuit.  Its end waits for memEnd, so a run's tokens all belong to *)
(* one function call.  The control ports are always ready.                 *)

\* A token that comes once: it is offered at some time and held until taken.
Comes(token, ready, token_next) ==
  \/ token = "later" /\ token_next \in {"later", "offered"}
  \/ token = "offered" /\ token_next = (IF ready THEN "taken" ELSE "offered")
  \/ token = "taken" /\ token_next = "taken"

\* What the circuit puts on the wires in the next cycle, with the visits c
\* and the stores s still to come.  The return block is the last one visited:
\* every other control token has been sent, and may be late by MaxLag cycles.
Drive(c, s) ==
  LET waiting == st \ store_access_port_selected
  IN  /\ ctrl' \in SUBSET {b \in Blocks : c[b] > 0}
      /\ toCtrl' = [b \in Blocks |-> c[b] - (IF b \in ctrl' THEN 1 ELSE 0)]
      /\ \E new \in SUBSET {p \in Ports \ waiting : s[p] > 0} :
           /\ st' = waiting \cup new
           /\ toStore' = [p \in Ports |-> s[p] - (IF p \in new THEN 1 ELSE 0)]
      /\ ended' # "later" => \A b \in Blocks : toCtrl'[b] <= MaxLag - age'

\* A call of the function, with any number of visits of each block.
Call ==
  /\ ~running \/ function_return
  /\ running' = TRUE
  /\ start' \in {"later", "offered"} /\ ended' \in {"later", "offered"} /\ age' = 0
  /\ \E visits \in [Blocks -> 0 .. MaxVisits] :
       Drive(visits,
             [p \in Ports |-> SumFunction([b \in Blocks |-> visits[b] * StoresOf[b][p]])])

Run ==
  /\ running /\ ~function_return
  /\ running' = TRUE
  /\ Comes(start, memStart_ready, start') /\ Comes(ended, ctrlEnd_ready, ended')
  /\ age' = IF ended # "later" /\ age < MaxLag THEN age + 1 ELSE age
  /\ Drive(toCtrl, toStore)

Rest ==
  /\ ~running \/ function_return
  /\ running' = FALSE
  /\ start' = "later" /\ ended' = "later" /\ age' = 0
  /\ ctrl' = {} /\ st' = {}
  /\ UNCHANGED <<toCtrl, toStore>>

Init ==
  /\ fsm_q = "IDLE" /\ no_more_requests_q = FALSE /\ remainingStores = 0
  /\ running = FALSE /\ start = "later" /\ ended = "later" /\ age = 0
  /\ ctrl = {} /\ st = {} /\ memEnd_ready \in BOOLEAN
  /\ toCtrl = [b \in Blocks |-> 0] /\ toStore = [p \in Ports |-> 0]

\* rst = '1' clears the controller's registers, and the circuit's with them.
Reset ==
  /\ fsm_q' = "IDLE" /\ no_more_requests_q' = FALSE /\ remainingStores' = 0
  /\ running' = FALSE /\ start' = "later" /\ ended' = "later" /\ age' = 0
  /\ ctrl' = {} /\ st' = {} /\ memEnd_ready' \in BOOLEAN
  /\ toCtrl' = [b \in Blocks |-> 0] /\ toStore' = [p \in Ports |-> 0]

Next == \/ Clock /\ (Call \/ Run \/ Rest) /\ memEnd_ready' \in BOOLEAN
        \/ Reset

\* The clock never stops; a circuit that was called sends its tokens at some
\* time, and its end is read.
Fairness ==
  /\ WF_vars(Next)
  /\ []<>(running => start # "later") /\ []<>(running => ended # "later")
  /\ \A b \in Blocks : []<>(toCtrl[b] = 0)
  /\ \A p \in Ports : []<>(toStore[p] = 0)
  /\ []<>memEnd_ready

Spec == Init /\ [][Next]_vars /\ Fairness
-----------------------------------------------------------------------------
\* The end of the memory is reported only when the run has no store left:
\* none waits at a port, none is still to come, and no announcement is out.
\* Counting alone cannot tell that, because a store performed ahead of its
\* announcement hides another one that is still to come; the register behind
\* ctrlEnd and the look at the control ports cover one cycle of lateness.
EndIsLast ==
  memEnd_valid =>
    /\ st = {} /\ ctrl = {}
    /\ \A p \in Ports : toStore[p] = 0
    /\ \A b \in Blocks : toCtrl[b] = 0

\* The stores not performed yet, and those whose visit is not announced yet.
outstanding == Cardinality(st) + SumFunction(toStore)
unannounced ==
  SumFunction([b \in Blocks |-> numStores[b] * (toCtrl[b] + (IF b \in ctrl THEN 1 ELSE 0))])

\* The counter is exact in modular arithmetic whatever the order: stores that
\* overtake their announcement wrap it below zero and the announcement brings
\* it back, with several tokens and a store in one cycle.
RemainingExact ==
  remainingStores = (outstanding - unannounced) % 2^CounterBits

\* An end that is offered is offered until it is read, once in a run, and the
\* controller is then as new: no part of a run leaks into the next one.  Only
\* a reset takes an offered end back.
EndStays ==
  [][/\ memEnd_valid /\ ~memEnd_ready => memEnd_valid' \/ Reset
     /\ memEnd_valid /\ memEnd_ready =>
          /\ fsm_q' = "IDLE" /\ ~no_more_requests_q' /\ remainingStores' = 0]_vars

\* Every call ends, unless it is reset, in whatever order memStart, ctrlEnd,
\* the announcements and the stores arrive.
RunsEnd == running ~> (function_return \/ ~running)
=============================================================================
