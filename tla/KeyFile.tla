-------------------------------- MODULE KeyFile --------------------------------
(***************************************************************************)
(* Keys from a file which a Clavis 3 writes                                 *)
(* (IDQDevices/Clavis3/ClavisKeyFile.cpp).  The reader thread watches the    *)
(* file and hands on the records which are new each time it was written to.  *)
(*                                                                         *)
(* The bytes of the file are numbered by their place in it.                  *)
(***************************************************************************)
EXTENDS Naturals, Sequences, SequencesExt

CONSTANTS
  RecordSize, \* sizeof(KeyEntry)
  MaxBytes    \* bound: how far the file grows

VARIABLES
  size,       \* how much was written to the file
  fileOffset, \* how much the reader takes for read
  handed,     \* Seq(record): what was emitted
  reader,     \* where WatchKeyFile is
  modified,   \* the watch on the file has an event
  keepGoing

vars == <<size, fileOffset, handed, reader, modified, keepGoing>>

\* The n-th record of the file.
Record(n) == [i \in 1..RecordSize |-> (n - 1) * RecordSize + i]

Init ==
  /\ size = 0 /\ fileOffset = 0 /\ handed = <<>>
  /\ reader = "creation" /\ modified = FALSE /\ keepGoing = TRUE

\* The device appends to the file, in pieces of any length.  A watch which is
\* just being removed may still get the event.
Write(n) ==
  /\ reader # "creation"
  /\ size + n <= MaxBytes /\ size' = size + n
  /\ \/ reader # "waiting" /\ UNCHANGED modified
     \/ reader \in {"looking", "waiting"} /\ modified' = TRUE
  /\ UNCHANGED <<fileOffset, handed, reader, keepGoing>>

\* The watch on the directory reports the file.
Created ==
  /\ reader = "creation" /\ reader' = "looking"
  /\ UNCHANGED <<size, fileOffset, handed, modified, keepGoing>>

\* The file is opened anew and read from its start, as many records as there are
\* after fileOffset.
ReadKeys ==
  LET keysToGet == (size - fileOffset) \div RecordSize IN
  /\ reader = "looking" /\ keepGoing /\ reader' = "unwatched"
  /\ handed' = handed \o [n \in 1..keysToGet |-> Record(n)]
  /\ fileOffset' = fileOffset + keysToGet * RecordSize
  /\ UNCHANGED <<size, modified, keepGoing>>

\* What is written before the watch is added is noticed with the next write.
AddWatch ==
  /\ reader = "unwatched" /\ reader' = "waiting"
  /\ UNCHANGED <<size, fileOffset, handed, modified, keepGoing>>

\* The blocking read of the watch ends with an event, which may be of a write
\* that was already read.
WakeUp ==
  /\ reader = "waiting" /\ modified
  /\ reader' = "looking" /\ modified' = FALSE
  /\ UNCHANGED <<size, fileOffset, handed, keepGoing>>

Destroy ==
  /\ keepGoing /\ keepGoing' = FALSE
  /\ UNCHANGED <<size, fileOffset, handed, reader, modified>>

Next ==
  \/ \E n \in 1..(2 * RecordSize) : Write(n)
  \/ Created \/ ReadKeys \/ AddWatch \/ WakeUp \/ Destroy

Spec == Init /\ [][Next]_vars

\* The records are handed on once each, in the order of the file
\* (ClavisKeyFile.cpp:217: "calculate how many fill key records are yet to be
\* read", 248: "update the counter for our current location").
EachRecordOnce == handed = [n \in 1..Len(handed) |-> Record(n)]
===============================================================================
