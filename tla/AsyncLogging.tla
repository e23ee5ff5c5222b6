---------------------------- MODULE AsyncLogging ----------------------------
(***************************************************************************)
(* The log of WebServer-master, base/AsyncLogging.cpp: threads append      *)
(* lines to the current buffer under the mutex, and the logging thread     *)
(* exchanges full buffers for empty ones and writes them to the file.      *)
(*                                                                         *)
(* Buffers have names, as the code passes them on by pointer.  A line is a *)
(* number in the order of the calls of append; how long it is, and so      *)
(* whether it fits where there are lines already, is left open.  What a    *)
(* thread does while it has the mutex is one step.                         *)
(***************************************************************************)
EXTENDS Naturals, Sequences, SequencesExt

CONSTANTS Buffer,    \* bound: the buffers there is memory for
          Limit,     \* threadFunc: 25
          MaxLine,   \* bound: the lines that are appended
          NULL

BufferAssumption ==
  /\ NULL \notin Buffer
  /\ \E s \in [1..4 -> Buffer] : IsInjective(s)
  /\ Limit \in Nat /\ Limit >= 2
  /\ MaxLine \in Nat

VARIABLES running_, currentBuffer_, nextBuffer_, buffers_,
          newBuffer1, newBuffer2, buffersToWrite,
          data,      \* what each buffer holds
          file,
          pc,        \* of the logging thread
          count      \* the calls of append so far

front == <<currentBuffer_, nextBuffer_, buffers_>>
back == <<newBuffer1, newBuffer2, buffersToWrite>>
vars == <<running_, front, back, data, file, pc, count>>

Line == 1..MaxLine

Known == {currentBuffer_, nextBuffer_, newBuffer1, newBuffer2}
           \cup Range(buffers_) \cup Range(buffersToWrite)

(* new Buffer: one that nobody refers to, any more or yet; which one makes *)
(* no difference.                                                          *)
Fresh == Buffer \ Known

New == CHOOSE b \in Fresh : TRUE

Lines(bs) == FlattenSeq([i \in 1..Len(bs) |-> data[bs[i]]])

(* The constructor, and start(): the latch holds the caller until the      *)
(* thread runs.                                                            *)
Init ==
  /\ running_ = TRUE
  /\ LET s == CHOOSE s \in [1..4 -> Buffer] : IsInjective(s)
     IN /\ currentBuffer_ = s[1] /\ nextBuffer_ = s[2]
        /\ newBuffer1 = s[3] /\ newBuffer2 = s[4]
  /\ buffers_ = <<>> /\ buffersToWrite = <<>>
  /\ data = [b \in Buffer |-> <<>>]
  /\ file = <<>>
  /\ pc = "top"
  /\ count = 0
-----------------------------------------------------------------------------
(* append, to a buffer with room for the line,                             *)
Append1 ==
  /\ count < MaxLine
  /\ count' = count + 1
  /\ data' = [data EXCEPT ![currentBuffer_] = Append(@, count')]
  /\ UNCHANGED <<running_, front, back, file, pc>>

(* or to the next one, which nextBuffer_ had ready or is new.              *)
AppendNext ==
  /\ count < MaxLine /\ data[currentBuffer_] # <<>>
  /\ nextBuffer_ = NULL => Fresh # {}
  /\ count' = count + 1
  /\ buffers_' = Append(buffers_, currentBuffer_)
  /\ currentBuffer_' = IF nextBuffer_ # NULL THEN nextBuffer_ ELSE New
  /\ nextBuffer_' = NULL
  /\ data' = [data EXCEPT ![currentBuffer_'] = Append(@, count')]
  /\ UNCHANGED <<running_, back, file, pc>>
-----------------------------------------------------------------------------
(* threadFunc: while (running_).                                           *)
Top ==
  /\ pc = "top"
  /\ pc' = IF running_ THEN "look" ELSE "done"
  /\ UNCHANGED <<running_, front, back, data, file, count>>

(* waitForSeconds gives the mutex up, and returns after flushInterval_ at  *)
(* the latest; a notification or nothing at all may end it earlier.        *)
Wait ==
  /\ pc = "look" /\ buffers_ = <<>>
  /\ pc' = "wait"
  /\ UNCHANGED <<running_, front, back, data, file, count>>

Awake == pc = "wait" \/ (pc = "look" /\ buffers_ # <<>>)

Exchange ==
  /\ Awake
  /\ buffersToWrite' = Append(buffers_, currentBuffer_)
  /\ buffers_' = <<>>
  /\ currentBuffer_' = newBuffer1
  /\ newBuffer1' = NULL
  /\ nextBuffer_' = IF nextBuffer_ = NULL THEN newBuffer2 ELSE nextBuffer_
  /\ newBuffer2' = IF nextBuffer_ = NULL THEN NULL ELSE newBuffer2
  /\ pc' = "write"
  /\ UNCHANGED <<running_, data, file, count>>

(* What is left of buffersToWrite after the erase(),                       *)
Kept == IF Len(buffersToWrite) > Limit THEN SubSeq(buffersToWrite, 1, 2)
                                       ELSE buffersToWrite

(* and after the resize(2): the last is the new newBuffer1.                *)
Spare == IF Len(Kept) > 2 THEN SubSeq(Kept, 1, 2) ELSE Kept

Second == Last(Front(Spare))

(* The two are reset, and the others given back.                           *)
Cleared == Range(buffersToWrite)

Write ==
  /\ pc = "write"
  /\ file' = file \o Lines(Kept)
  /\ newBuffer1' = Last(Spare)
  /\ newBuffer2' = IF newBuffer2 = NULL THEN Second ELSE newBuffer2
  /\ buffersToWrite' = <<>>
  /\ data' = [b \in Buffer |-> IF b \in Cleared THEN <<>> ELSE data[b]]
  /\ pc' = "top"
  /\ UNCHANGED <<running_, front, count>>

(* stop(): its notify only ends a wait, which may end at any time.         *)
Stop ==
  /\ running_
  /\ running_' = FALSE
  /\ UNCHANGED <<front, back, data, file, pc, count>>

Next ==
  \/ Append1 \/ AppendNext
  \/ Top \/ Wait \/ Exchange \/ Write \/ Stop

Spec == Init /\ [][Next]_vars
-----------------------------------------------------------------------------
Pointer == Buffer \cup {NULL}

TypeOK ==
  /\ running_ \in BOOLEAN
  /\ currentBuffer_ \in Buffer
  /\ nextBuffer_ \in Pointer /\ newBuffer1 \in Pointer /\ newBuffer2 \in Pointer
  /\ buffers_ \in Seq(Buffer) /\ buffersToWrite \in Seq(Buffer)
  /\ data \in [Buffer -> Seq(Line)]
  /\ pc \in {"top", "look", "wait", "write", "done"}
  /\ count \in 0..MaxLine

(* The assertions of threadFunc: the logging thread has two empty buffers  *)
(* whenever it looks for full ones, and something to write and enough      *)
(* buffers to take those two from after it has exchanged them, however     *)
(* many buffers the callers of append have filled or taken meanwhile.      *)
AssertsHold ==
  /\ TypeOK
  /\ pc \in {"top", "look", "wait"} =>
       /\ buffersToWrite = <<>>
       /\ \A b \in {newBuffer1, newBuffer2} : b # NULL /\ data[b] = <<>>
  /\ pc = "write" =>
       Len(Kept) >= (IF newBuffer2 = NULL THEN 2 ELSE 1)

(* A buffer is in one place only: nobody appends to one that is written or *)
(* is about to be reused.                                                  *)
Pointers == <<currentBuffer_, nextBuffer_, newBuffer1, newBuffer2>>

NoAlias ==
  /\ \A i, j \in 1..4 : Pointers[i] = Pointers[j] => i = j \/ Pointers[i] = NULL
  /\ \A i \in 1..4 : Pointers[i] \notin Range(buffers_) \cup Range(buffersToWrite)
  /\ Range(buffers_) \cap Range(buffersToWrite) = {}
  /\ IsInjective(buffers_) /\ IsInjective(buffersToWrite)
=============================================================================
