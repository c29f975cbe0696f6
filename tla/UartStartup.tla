----------------------------- MODULE UartStartup -----------------------------
(***************************************************************************)
(* The UART ring while the CPU thread starts.  main() enters its loop, and *)
(* with it handle_uart_events, as soon as SDL_CreateThread returns, but it *)
(* is cpu_thread_worker that sets uart_head and uart_tail to 0: characters *)
(* may already be in the ring, or half way into it, when it does.  (The    *)
(* keyboard ring is cleared by main before the thread exists.)             *)
(*                                                                         *)
(* Characters are numbered in the order read() returns them, so that what  *)
(* the guest program receives can be compared with what was typed.         *)
(***************************************************************************)
EXTENDS InputRing

CONSTANT MaxArrivals   \* bound: characters typed in one behaviour

ASSUME StartupAssumption == MaxArrivals \in Nat /\ 1 .. MaxArrivals \subseteq Data

VARIABLES
  boot,        \* where cpu_thread_worker stands in its initialisation
  arrived,     \* number of the latest character read() returned
  received,    \* what the guest has popped, oldest first
  owed         \* characters published after the initialisation, unpopped

bootVars == <<boot, arrived, received, owed>>
startupVars == <<vars, bootVars>>

StartupInit ==
  /\ Init /\ ~reorder
  /\ boot = "reset_head"
  /\ arrived = 0
  /\ received = <<>>
  /\ owed = {}

\* viM->uart_head = 0; viM->uart_tail = 0; two plain stores.
ResetHead ==
  /\ boot = "reset_head"
  /\ boot' = "reset_tail"
  /\ head' = 0
  /\ UNCHANGED <<slot, tail, event, producerVars, consumerVars,
                 arrived, received, owed>>

ResetTail ==
  /\ boot = "reset_tail"
  /\ boot' = "running"
  /\ tail' = 0
  /\ UNCHANGED <<slot, head, event, producerVars, consumerVars,
                 arrived, received, owed>>

\* The producer never waits for the CPU thread.
Receive ==
  \/ /\ arrived < MaxArrivals
     /\ Arrive(arrived + 1)
     /\ arrived' = arrived + 1
     /\ UNCHANGED <<boot, received, owed>>
  \/ /\ CheckRoom \/ Fill
     /\ UNCHANGED bootVars
  \/ /\ Publish
     /\ owed' = IF boot = "running" THEN owed \cup {pdatum} ELSE owed
     /\ UNCHANGED <<boot, arrived, received>>

\* The guest program runs once the initialisation is over.
GuestLoad ==
  /\ boot = "running"
  /\ \/ /\ StartPop \/ Take
        /\ UNCHANGED bootVars
     \/ /\ Release
        /\ received' = Append(received, cdatum)
        /\ owed' = owed \ {cdatum}
        /\ UNCHANGED <<boot, arrived>>

StartupNext ==
  /\ ResetHead \/ ResetTail \/ Receive \/ GuestLoad
  /\ UNCHANGED reorder
StartupSpec == StartupInit /\ [][StartupNext]_startupVars

-----------------------------------------------------------------------------
(* Properties. *)

\* The ring keeps its types through the reset.
StartupTypeOK ==
  /\ TypeOK
  /\ boot \in {"reset_head", "reset_tail", "running"}
  /\ arrived \in 0 .. MaxArrivals
  /\ received \in Seq(Slots)
  /\ owed \subseteq Data

\* The reset may lose what was typed before it, and may be undone by a store of
\* tail that was already under way, but the guest never receives a character
\* twice, out of order, or one that was never typed.
ReceivedInOrder ==
  /\ \A k \in 1 .. Len(received) : received[k] \in 1 .. arrived
  /\ \A k \in 1 .. (Len(received) - 1) : received[k] < received[k + 1]

\* A character published once the CPU thread is running is never lost.
NothingOwedIsLost ==
  \A d \in owed : \E k \in 1 .. Count : Contents[k] = d
-----------------------------------------------------------------------------
(* The inductive invariant behind the safety properties. *)

\* A store of tail is under way that the reset has overtaken.
Stale == boot = "running" /\ ppc # "idle" /\ ptail # tail

\* What the guest has popped or can pop, and the latest number it may hold.
History == received \o Contents
Latest == IF ppc = "idle" THEN arrived ELSE arrived - 1

\* Until the ring is reset, and while a stale store is under way, the guest
\* has popped nothing and finds nothing.
NothingPopped == head = 0 /\ cpc = "idle" /\ received = <<>> /\ owed = {}

\* A stale store will publish the characters below its copy of tail again:
\* they are still there, in the order they arrived.
StaleInv ==
  Stale => /\ NothingPopped /\ tail = 0
           /\ \A i \in 0 .. (ptail - 1) : slot[i] \in 1 .. Latest
           /\ \A i, j \in 0 .. (ptail - 1) : i < j => slot[i] < slot[j]

\* ProducerInv without its certainty that the copy of tail is current.
LateProducerInv ==
  /\ ppc # "idle" => pdatum = arrived /\ arrived >= 1 /\ (ptail = tail \/ Stale)
  /\ ppc \in {"fill", "publish"} => Succ(ptail) # head
  /\ ppc = "publish" => slot[ptail] = pdatum

\* What has been popped, followed by what is queued, is in typing order.
HistoryInv ==
  /\ \A i \in 1 .. Len(History) : History[i] \in 1 .. Latest
  /\ \A i, j \in 1 .. Len(History) : i < j => History[i] < History[j]

StartupInv ==
  /\ StartupTypeOK /\ ~reorder /\ OrderInv
  /\ boot # "running" => NothingPopped
  /\ StaleInv /\ LateProducerInv
  /\ cpc \in {"take", "release"} => head # tail
  /\ cpc = "release" => cdatum = slot[head]
  /\ HistoryInv /\ NothingOwedIsLost
=============================================================================
