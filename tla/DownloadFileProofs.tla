--------------------------- MODULE DownloadFileProofs ---------------------------
(***************************************************************************)
(* Theorems about DownloadFile, for every number of threads, of blocks and *)
(* of lives.                                                               *)
(***************************************************************************)
EXTENDS DownloadFile, SequenceTheorems, TLAPS

-----------------------------------------------------------------------------
(* Types.                                                                  *)

\* What is left to receive is at most the file, and lies behind the offset.
LEMMA LeftType ==
  ASSUME TypeOK, NEW t \in Thread
  PROVE  /\ Left(t) \in 0..Size
         /\ Left(t) > 0 => offset[t] + Left(t) = Size
  BY FileAssumption DEF Left, TypeOK

\* A write to a file that has a name appends the buffer to it.
LEMMA WrittenFile ==
  ASSUME TypeOK, NEW t \in Thread, linked[t]
  PROVE  /\ file \in Seq(Block) /\ buffer[t] \in Seq(Block)
         /\ Written(t) \in Seq(Block)
         /\ Written(t) # NoFile
         /\ Len(Written(t)) = Len(file) + Len(buffer[t])
         /\ \A i \in 1..Len(file) : Written(t)[i] = file[i]
         /\ \A i \in 1..Len(buffer[t]) : Written(t)[Len(file) + i] = buffer[t][i]
<1>1. file \in Seq(Block) /\ buffer[t] \in Seq(Block)
  BY DEF TypeOK
<1>2. Written(t) = file \o buffer[t]
  BY DEF Written
<1>3. /\ file \o buffer[t] \in Seq(Block)
      /\ Len(file \o buffer[t]) = Len(file) + Len(buffer[t])
      /\ \A i \in 1..(Len(file) + Len(buffer[t])) :
           (file \o buffer[t])[i] = IF i <= Len(file) THEN file[i] ELSE buffer[t][i - Len(file)]
  BY <1>1, ConcatProperties
<1>4. Len(file) \in Nat /\ Len(buffer[t]) \in Nat
  BY <1>1
<1>5. \A i \in 1..Len(file) : Written(t)[i] = file[i]
  BY <1>2, <1>3, <1>4
<1>6. ASSUME NEW i \in 1..Len(buffer[t]) PROVE Written(t)[Len(file) + i] = buffer[t][i]
  <2>1. Len(file) + i \in 1..(Len(file) + Len(buffer[t])) /\ ~(Len(file) + i <= Len(file))
    BY <1>4
  <2>2. (Len(file) + i) - Len(file) = i
    BY <1>4
  <2> QED BY <1>2, <1>3, <2>1, <2>2
<1>7. Written(t) # NoFile
  BY <1>2, <1>3, FileAssumption DEF Block
<1> QED BY <1>1, <1>2, <1>3, <1>5, <1>6, <1>7

\* Every action keeps the types.
LEMMA TypeStep == TypeOK /\ ReceivesWhatIsLeft /\ [Next]_vars => TypeOK'
<1> SUFFICES ASSUME TypeOK, ReceivesWhatIsLeft, [Next]_vars PROVE TypeOK'
  OBVIOUS
<1> USE DEF threadVars, entryVars, fileVars
<1>1. CASE UNCHANGED vars
  BY <1>1 DEF vars, TypeOK
<1>2. ASSUME NEW t \in Thread, Create(t) PROVE TypeOK'
  BY <1>2 DEF Create, Goes, TypeOK, Phase
<1>3. ASSUME NEW t \in Thread, OpenFails(t) PROVE TypeOK'
  BY <1>3 DEF OpenFails, Goes, TypeOK, Phase
<1>4. ASSUME NEW t \in Thread, Open(t) PROVE TypeOK'
  <2>1. <<>> \in Seq(Block) /\ NoFile \notin Seq(Block)
    BY FileAssumption DEF Block
  <2>2. CASE file = NoFile
    BY <1>4, <2>1, <2>2 DEF Open, Goes, TypeOK, Phase
  <2>3. CASE file # NoFile
    BY <1>4, <2>3 DEF Open, Goes, TypeOK, Phase
  <2> QED BY <2>2, <2>3
<1>5. ASSUME NEW t \in Thread, Seek(t) PROVE TypeOK'
  <2>1. ResumeFrom(t) \subseteq Nat
    BY FileAssumption DEF ResumeFrom, TypeOK
  <2>2. overlapped' \in BOOLEAN
    BY <1>5, ZenonT(30) DEF Seek, TypeOK
  <2>3. offset' \in [Thread -> Nat]
    BY <1>5, <2>1 DEF Seek, TypeOK
  <2>4. phase' \in [Thread -> Phase] /\ \A u \in Thread : phase'[u] = phase[u] \/ phase[u] = "opened"
    BY <1>5 DEF Seek, Goes, TypeOK, Phase
  <2> QED BY <1>5, <2>2, <2>3, <2>4 DEF Seek, TypeOK
<1>6. ASSUME NEW t \in Thread, Receive(t) PROVE TypeOK'
  <2>1. received[t] < Left(t) /\ received[t] \in Nat /\ offset[t] \in Nat
    BY <1>6 DEF Receive, TypeOK
  <2>2. received'[t] = received[t] + 1 /\ received' \in [Thread -> 0..Size]
    <3>1. Left(t) \in 0..Size
      BY LeftType
    <3>2. received[t] + 1 \in 0..Size
      BY <2>1, <3>1, FileAssumption
    <3> QED BY <1>6, <3>2 DEF Receive, TypeOK
  <2>3. offset[t] + received'[t] \in Block
    BY <2>1, <2>2, LeftType, FileAssumption DEF Block
  <2>4. buffer' \in [Thread -> Seq(Block)]
    BY <1>6, <2>3 DEF Receive, TypeOK
  <2>5. \A u \in Thread : phase[u] \in {"none", "opening", "opened"} => buffer'[u] = <<>>
    BY <1>6 DEF Receive, TypeOK
  <2> QED BY <1>6, <2>2, <2>4, <2>5 DEF Receive, TypeOK
<1>7. ASSUME NEW t \in Thread, ReceivePage(t) PROVE TypeOK'
  <2>1. buffer' \in [Thread -> Seq(Block)]
    BY <1>7 DEF ReceivePage, TypeOK, Block
  <2>2. phase' \in [Thread -> Phase] /\ \A u \in Thread : phase'[u] \in {"none", "opening", "opened"} => buffer'[u] = <<>>
    BY <1>7 DEF ReceivePage, Goes, TypeOK, Phase
  <2>3. spoiled' \in BOOLEAN
    BY <1>7, ZenonT(30) DEF ReceivePage, TypeOK
  <2> QED BY <1>7, <2>1, <2>2, <2>3 DEF ReceivePage, Goes, TypeOK
<1>8. ASSUME NEW t \in Thread, Flush(t) \/ Close(t) PROVE TypeOK'
  <2>1. file' = Written(t) /\ buffer' = [buffer EXCEPT ![t] = <<>>]
    BY <1>8 DEF Flush, Close
  <2>2. file' = NoFile \/ file' \in Seq(Block)
    BY <2>1, WrittenFile DEF Written, TypeOK
  <2>3. ASSUME NEW u \in Thread, linked[u] PROVE file' # NoFile
    BY <2>1, <2>3, WrittenFile DEF Written, TypeOK
  <2>4. buffer' \in [Thread -> Seq(Block)]
    BY <2>1 DEF TypeOK
  <2>5. /\ phase' \in [Thread -> Phase]
        /\ \A u \in Thread : phase'[u] \in {"none", "opening", "opened"} => phase[u] = phase'[u]
    BY <1>8 DEF Flush, Close, Goes, TypeOK, Phase
  <2>6. \A u \in Thread : phase'[u] \in {"none", "opening", "opened"} => buffer'[u] = <<>>
    BY <2>1, <2>5 DEF TypeOK
  <2> QED BY <1>8, <2>2, <2>3, <2>4, <2>5, <2>6 DEF Flush, Close, TypeOK
<1>9. ASSUME NEW t \in Thread, Progress(t) PROVE TypeOK'
  <2>1. received[t] \in 0..Size /\ Left(t) \in 0..Size
    BY LeftType DEF TypeOK
  <2>2. figures' \in [size : 0..Size, complete : 0..Size]
    BY <1>9, <2>1 DEF Progress, CompleteNow, TypeOK
  <2> QED BY <1>9, <2>2 DEF Progress, TypeOK
<1>10. ASSUME NEW t \in Thread, Return(t) PROVE TypeOK'
  BY <1>10 DEF Return, Goes, TypeOK, Phase
<1>11. ASSUME NEW t \in Thread, Complete(t) PROVE TypeOK'
  BY <1>11 DEF Complete, Goes, TypeOK, Phase
<1>12. ASSUME NEW t \in Thread, Stop(t) PROVE TypeOK'
  BY <1>12 DEF Stop, TypeOK
<1>13. ASSUME NEW t \in Thread, ActOnCancel(t) PROVE TypeOK'
  BY <1>13 DEF ActOnCancel, TypeOK, Phase
<1>14. ASSUME NEW t \in Thread, Delete(t) PROVE TypeOK'
  <2>1. figures' \in [size : 0..Size, complete : 0..Size]
    BY <1>14, FileAssumption DEF Delete, NoFigures
  <2>2. lives' \in 1..MaxLives
    BY <1>14, FileAssumption DEF Delete, TypeOK
  <2> QED BY <1>14, <2>1, <2>2 DEF Delete, Unlink, TypeOK
<1>17. ASSUME NEW t \in Thread, DeleteOther(t) PROVE TypeOK'
  <2>1. lives' \in 1..MaxLives
    BY <1>17, FileAssumption DEF DeleteOther, TypeOK
  <2>2. outdated' \in BOOLEAN /\ stale' \in BOOLEAN
    BY <1>17, ZenonT(30) DEF DeleteOther, Untold, TypeOK
  <2> QED BY <1>17, <2>1, <2>2 DEF DeleteOther, Unlink, Untold, TypeOK
<1>18. CASE WriteForeign
  <2>1. file' \in Seq(Block)
    <3>1. <<>> \in Seq(Block) /\ Foreign \in Block
      BY DEF Block
    <3>2. \A f \in Seq(Block) : Append(f, Foreign) \in Seq(Block)
      BY <3>1
    <3>3. CASE file = NoFile
      BY <1>18, <3>1, <3>2, <3>3 DEF WriteForeign
    <3>4. CASE file # NoFile
      BY <1>18, <3>1, <3>2, <3>4 DEF WriteForeign, TypeOK
    <3> QED BY <3>3, <3>4
  <2>2. file' # NoFile
    BY <2>1, FileAssumption DEF Block
  <2>3. mixed' \in BOOLEAN /\ UNCHANGED <<threadVars, entryVars, overlapped, spoiled>>
    BY <1>18 DEF WriteForeign
  <2> QED BY <2>1, <2>2, <2>3 DEF TypeOK
<1>19. CASE DeleteForeign
  <2>1. lives' \in 1..MaxLives
    BY <1>19, FileAssumption DEF DeleteForeign, TypeOK
  <2>2. outdated' \in BOOLEAN /\ stale' \in BOOLEAN
    BY <1>19, ZenonT(30) DEF DeleteForeign, Untold, TypeOK
  <2> QED BY <1>19, <2>1, <2>2 DEF DeleteForeign, Untold, TypeOK
<1>15. CASE Save
  BY <1>15 DEF Save, TypeOK
<1>16. CASE Restart
  <2>1. figures' \in [size : 0..Size, complete : 0..Size]
    BY <1>16, FileAssumption DEF Restart, NoFigures, TypeOK
  <2>2. lives' \in 1..MaxLives
    BY <1>16, FileAssumption DEF Restart, TypeOK
  <2>3. outdated' \in BOOLEAN
    BY <1>16 DEF Restart, TypeOK
  <2> QED BY <1>16, <2>1, <2>2, <2>3, FileAssumption DEF Restart, TypeOK, Phase
<1> QED
  BY <1>1, <1>2, <1>3, <1>4, <1>5, <1>6, <1>7, <1>8, <1>9, <1>10, <1>11, <1>12, <1>13, <1>14, <1>15, <1>16,
     <1>17, <1>18, <1>19
     DEF Next, ThreadStep, OpenFile, Perform

-----------------------------------------------------------------------------
(* The steps by what they do to the file and to the FILEs of the threads.  *)

\* A step that writes nothing and opens nothing: threads go on, or end.
Quiet ==
  /\ UNCHANGED <<file, linked, offset, received, buffer, overlapped, spoiled, mixed>>
  /\ \A u \in Thread :
       \/ phase'[u] = phase[u] \/ phase'[u] = "ended"
       \/ phase[u] = "none" /\ phase'[u] = "opening"
       \/ phase[u] = "receiving" /\ phase'[u] = "returned"
       \/ phase[u] = "closed" /\ phase'[u] = "completed"

\* The buffer of a FILE goes to the file it belongs to, which fclose may do.
Writes(t) ==
  /\ file' = Written(t)
  /\ buffer' = [buffer EXCEPT ![t] = <<>>]
  /\ buffer[t] # <<>> \/ phase[t] = "returned"
  /\ \/ UNCHANGED phase
     \/ phase[t] = "returned" /\ phase' = [phase EXCEPT ![t] = "closed"]
  /\ UNCHANGED <<linked, offset, received, own, entryVars, overlapped, spoiled, mixed>>

\* Somebody's cancel: the file loses its name, with all FILEs that have it.
Removes ==
  /\ Unlink
  /\ UNCHANGED <<phase, offset, received, buffer, overlapped, spoiled, mixed>>

\* Every step is one of nine kinds.
LEMMA StepKinds ==
  ASSUME TypeOK, [Next]_vars
  PROVE  \/ Quiet \/ Restart \/ Removes \/ WriteForeign
         \/ \E t \in Thread : Open(t) \/ Seek(t) \/ Receive(t) \/ ReceivePage(t) \/ Writes(t)
<1> USE DEF threadVars, entryVars, fileVars
<1>1. CASE UNCHANGED vars
  BY <1>1 DEF vars, Quiet
<1>2. ASSUME NEW t \in Thread, Create(t) \/ OpenFails(t) \/ Return(t) \/ Complete(t) PROVE Quiet
  BY <1>2 DEF Create, OpenFails, Return, Complete, Goes, Quiet, TypeOK
<1>3. ASSUME NEW t \in Thread, Stop(t) \/ Progress(t) PROVE Quiet
  BY <1>3 DEF Stop, Progress, Quiet
<1>4. ASSUME NEW t \in Thread, ActOnCancel(t) PROVE Quiet
  BY <1>4 DEF ActOnCancel, Quiet, TypeOK
<1>5. ASSUME NEW t \in Thread, Flush(t) \/ Close(t) PROVE Writes(t)
  BY <1>5 DEF Flush, Close, Goes, Writes
<1>6. CASE Save
  BY <1>6 DEF Save, Quiet
<1>7. ASSUME NEW t \in Thread, Delete(t) \/ DeleteOther(t) PROVE Removes
  BY <1>7 DEF Delete, DeleteOther, Removes
<1>8. CASE DeleteForeign
  BY <1>8 DEF DeleteForeign, Unlink, Removes
<1> QED BY <1>1, <1>2, <1>3, <1>4, <1>5, <1>6, <1>7, <1>8 DEF Next, ThreadStep, OpenFile, Perform

\* A download of another URL adds to the file, if anything.
LEMMA ForeignGrows ==
  ASSUME TypeOK, WriteForeign
  PROVE  /\ file' # NoFile /\ Len(file') \in Nat
         /\ file # NoFile => Len(file) \in Nat /\ Len(file) <= Len(file')
<1>1. CASE file = NoFile
  <2>1. file' \in {<<>>, Append(<<>>, Foreign)}
    BY <1>1 DEF WriteForeign
  <2>2. <<>> \in Seq(Block) /\ Foreign \in Block
    BY DEF Block
  <2>3. Append(<<>>, Foreign) \in Seq(Block)
    BY <2>2, AppendProperties
  <2>4. file' \in Seq(Block)
    BY <2>1, <2>2, <2>3
  <2> QED BY <1>1, <2>4, FileAssumption DEF Block
<1>2. CASE file # NoFile
  <2>1. file \in Seq(Block) /\ Foreign \in Block
    BY <1>2 DEF TypeOK, Block
  <2>2. file' \in {file, Append(file, Foreign)}
    BY <1>2 DEF WriteForeign
  <2>3. file' \in Seq(Block) /\ Len(file') \in {Len(file), Len(file) + 1}
    BY <2>1, <2>2
  <2> QED BY <2>1, <2>3, FileAssumption DEF Block
<1> QED BY <1>1, <1>2

\* A write to a file without a name leaves the one that has it alone.
LEMMA WrittenElsewhere == ASSUME NEW t \in Thread, Writes(t), ~linked[t] PROVE UNCHANGED file
  BY DEF Writes, Written

-----------------------------------------------------------------------------
(* The parts of the invariant.                                             *)

\* Transfers receive no more than what is left, from nothing on.
LEMMA ReceivesStep == IInv /\ [Next]_vars => ReceivesWhatIsLeft'
<1> SUFFICES ASSUME IInv, [Next]_vars PROVE ReceivesWhatIsLeft'
  OBVIOUS
<1> USE DEF IInv, TypeOK, ReceivesWhatIsLeft, Left
<1>1. CASE Quiet
  BY <1>1 DEF Quiet
<1>2. CASE Restart
  BY <1>2 DEF Restart
<1>3. ASSUME NEW t \in Thread, Open(t) PROVE ReceivesWhatIsLeft'
  BY <1>3 DEF Open, Goes, threadVars, entryVars, fileVars
<1>4. ASSUME NEW t \in Thread, Seek(t) PROVE ReceivesWhatIsLeft'
  <2>1. ResumeFrom(t) \subseteq Nat
    BY FileAssumption DEF ResumeFrom
  <2>2. PICK n \in Nat : offset' = [offset EXCEPT ![t] = n]
    BY <1>4, <2>1 DEF Seek
  <2> QED BY <1>4, <2>2, FileAssumption DEF Seek, Goes
<1>5. ASSUME NEW t \in Thread, Receive(t) PROVE ReceivesWhatIsLeft'
  <2>1. /\ phase' = phase /\ offset' = offset /\ phase[t] = "receiving" /\ received[t] < Left(t)
        /\ received' = [received EXCEPT ![t] = @ + 1]
    BY <1>5 DEF Receive
  <2>2. Left(t) \in Nat /\ received[t] \in Nat
    BY FileAssumption
  <2>3. received[t] + 1 <= Left(t)
    BY <2>1, <2>2
  <2> QED BY <2>1, <2>3
<1>6. ASSUME NEW t \in Thread, ReceivePage(t) PROVE ReceivesWhatIsLeft'
  BY <1>6 DEF ReceivePage, Goes
<1>7. ASSUME NEW t \in Thread, Writes(t) PROVE ReceivesWhatIsLeft'
  BY <1>7 DEF Writes
<1>8. CASE Removes
  BY <1>8 DEF Removes
<1>9. CASE WriteForeign
  BY <1>9 DEF WriteForeign, threadVars
<1> QED BY <1>1, <1>2, <1>3, <1>4, <1>5, <1>6, <1>7, <1>8, <1>9, StepKinds

\* A thread of the entry writes to the file that has the name: who takes the name away
\* takes the entry, or it is recorded.
LEMMA OwnStep == IInv /\ [Next]_vars => OwnIsLinked'
<1> SUFFICES ASSUME IInv, [Next]_vars PROVE OwnIsLinked'
  OBVIOUS
<1> USE DEF IInv, TypeOK, OwnIsLinked, threadVars, entryVars, fileVars
<1>1. CASE UNCHANGED vars
  BY <1>1 DEF vars
<1>2. ASSUME NEW t \in Thread, Create(t) \/ OpenFails(t) \/ Open(t) \/ Seek(t) PROVE OwnIsLinked'
  BY <1>2 DEF Create, OpenFails, Open, Seek, Goes
<1>3. ASSUME NEW t \in Thread, Perform(t) PROVE OwnIsLinked'
  BY <1>3 DEF Perform, Receive, ReceivePage, Progress, Return, Goes
<1>4. ASSUME NEW t \in Thread, Close(t) \/ Complete(t) \/ Flush(t) PROVE OwnIsLinked'
  BY <1>4 DEF Close, Complete, Flush, Goes
<1>5. ASSUME NEW t \in Thread, ActOnCancel(t) \/ Stop(t) \/ Delete(t) PROVE OwnIsLinked'
  BY <1>5 DEF ActOnCancel, Stop, Delete
<1>6. CASE Save \/ Restart \/ WriteForeign
  BY <1>6 DEF Save, Restart, WriteForeign
<1>7. ASSUME UNCHANGED <<phase, own>>, Untold, ~outdated' PROVE OwnIsLinked'
  BY <1>7 DEF Untold
<1>8. ASSUME NEW t \in Thread, DeleteOther(t) PROVE OwnIsLinked'
  BY <1>7, <1>8 DEF DeleteOther
<1>9. CASE DeleteForeign
  BY <1>7, <1>9 DEF DeleteForeign
<1> QED BY <1>1, <1>2, <1>3, <1>4, <1>5, <1>6, <1>8, <1>9 DEF Next, ThreadStep, OpenFile

\* What a transfer has received is in the file or in the buffer: the file does not
\* shrink as long as it has its name.
LEMMA LostStep == IInv /\ [Next]_vars => NothingIsLost'
<1> SUFFICES ASSUME IInv, [Next]_vars PROVE NothingIsLost'
  OBVIOUS
<1> USE DEF IInv
<1>1. CASE Quiet
  BY <1>1 DEF Quiet, NothingIsLost, ReceivesWhatIsLeft, TypeOK
<1>2. CASE Restart
  BY <1>2 DEF Restart, NothingIsLost
<1>3. ASSUME NEW t \in Thread, Open(t) PROVE NothingIsLost'
  BY <1>3 DEF Open, Goes, NothingIsLost, TypeOK
<1>4. ASSUME NEW t \in Thread, Seek(t) PROVE NothingIsLost'
  <2>1. linked[t] => ResumeFrom(t) = {Len(file)} /\ Len(file) \in Nat
    BY DEF TypeOK, ResumeFrom
  <2>2. received[t] = 0 /\ buffer[t] = <<>>
    BY <1>4 DEF Seek, Goes, ReceivesWhatIsLeft, TypeOK
  <2> QED BY <1>4, <2>1, <2>2 DEF Seek, Goes, NothingIsLost, TypeOK
<1>5. ASSUME NEW t \in Thread, Receive(t) PROVE NothingIsLost'
  <2>1. /\ Len(buffer'[t]) = Len(buffer[t]) + 1 /\ received'[t] = received[t] + 1
        /\ Len(buffer[t]) \in Nat /\ offset[t] \in Nat /\ received[t] \in Nat
    BY <1>5 DEF Receive, TypeOK
  <2>2. phase[t] = "receiving" /\ file' = file /\ linked' = linked /\ offset' = offset /\ phase' = phase
    BY <1>5 DEF Receive, fileVars
  <2>3. SUFFICES ASSUME NEW u \in Thread, linked[u], phase[u] \in {"receiving", "returned", "closed", "completed"}
                 PROVE  /\ Len(file) >= offset[u]
                        /\ Len(file) + Len(buffer'[u]) >= offset[u] + received'[u]
                        /\ phase[u] \in {"closed", "completed"} => buffer'[u] = <<>>
    BY <2>2 DEF NothingIsLost
  <2>4. /\ Len(file) >= offset[u]
        /\ Len(file) + Len(buffer[u]) >= offset[u] + received[u]
        /\ phase[u] \in {"closed", "completed"} => buffer[u] = <<>>
    BY <2>3 DEF NothingIsLost
  <2>5. CASE u # t
    BY <1>5, <2>4, <2>5 DEF Receive, TypeOK
  <2>6. CASE u = t
    <3>1. Len(file) \in Nat
      BY <2>3 DEF TypeOK
    <3>2. Len(file) + Len(buffer'[u]) >= offset[u] + received'[u]
      <4>1. Len(buffer'[u]) = Len(buffer[u]) + 1 /\ received'[u] = received[u] + 1
        BY <2>1, <2>6
      <4>2. Len(buffer[u]) \in Nat /\ offset[u] \in Nat /\ received[u] \in Nat
        BY <2>1, <2>6
      <4> QED BY <2>4, <3>1, <4>1, <4>2
    <3>3. phase[u] = "receiving"
      BY <2>2, <2>6
    <3> QED BY <2>4, <3>2, <3>3
  <2> QED BY <2>5, <2>6
<1>6. ASSUME NEW t \in Thread, ReceivePage(t) PROVE NothingIsLost'
  <2>1. /\ Len(buffer'[t]) = 1 /\ offset[t] = 0 /\ received[t] = 0
        /\ phase[t] = "receiving" /\ phase'[t] = "returned"
    BY <1>6 DEF ReceivePage, Goes, TypeOK
  <2>2. file' = file /\ linked' = linked /\ offset' = offset /\ received' = received
    BY <1>6 DEF ReceivePage
  <2>3. SUFFICES ASSUME NEW u \in Thread, linked[u], phase'[u] \in {"receiving", "returned", "closed", "completed"}
                 PROVE  /\ Len(file) >= offset[u]
                        /\ Len(file) + Len(buffer'[u]) >= offset[u] + received[u]
                        /\ phase'[u] \in {"closed", "completed"} => buffer'[u] = <<>>
    BY <2>2 DEF NothingIsLost
  <2>4. CASE u # t
    BY <1>6, <2>3, <2>4 DEF ReceivePage, Goes, TypeOK, NothingIsLost
  <2>5. CASE u = t
    <3>1. Len(file) \in Nat
      BY <2>3 DEF TypeOK
    <3> QED BY <2>1, <2>5, <3>1
  <2> QED BY <2>4, <2>5
<1>7. ASSUME NEW t \in Thread, Writes(t) PROVE NothingIsLost'
  <2>1. SUFFICES ASSUME NEW u \in Thread, linked[u], phase'[u] \in {"receiving", "returned", "closed", "completed"}
                 PROVE  /\ Len(file') >= offset[u]
                        /\ Len(file') + Len(buffer'[u]) >= offset[u] + received[u]
                        /\ phase'[u] \in {"closed", "completed"} => buffer'[u] = <<>>
    BY <1>7 DEF Writes, NothingIsLost
  <2>2. /\ Len(file) \in Nat /\ offset[u] \in Nat /\ received[u] \in Nat
        /\ buffer \in [Thread -> Seq(Block)] /\ buffer' \in [Thread -> Seq(Block)]
    BY <1>7, <2>1 DEF TypeOK, Writes
  <2>3. /\ phase[u] \in {"receiving", "returned", "closed", "completed"}
        /\ u # t => phase'[u] = phase[u] /\ buffer'[u] = buffer[u]
        /\ buffer'[t] = <<>>
    BY <1>7, <2>1 DEF Writes, TypeOK
  <2>4. Len(file) >= offset[u] /\ Len(file) + Len(buffer[u]) >= offset[u] + received[u]
    BY <2>1, <2>3 DEF NothingIsLost
  <2>5. phase'[u] \in {"closed", "completed"} => buffer'[u] = <<>>
    BY <2>1, <2>3 DEF NothingIsLost
  <2>6. CASE linked[t]
    <3>1. Len(file') = Len(file) + Len(buffer[t])
      BY <1>7, <2>6, WrittenFile DEF Writes
    <3> QED BY <2>2, <2>3, <2>4, <2>5, <3>1
  <2>7. CASE ~linked[t]
    <3>1. file' = file /\ u # t
      BY <1>7, <2>1, <2>7, WrittenElsewhere
    <3> QED BY <2>2, <2>3, <2>4, <2>5, <3>1
  <2> QED BY <2>6, <2>7
<1>8. CASE Removes
  BY <1>8 DEF Removes, Unlink, NothingIsLost
<1>9. CASE WriteForeign
  <2>1. UNCHANGED <<linked, phase, offset, received, buffer>>
    BY <1>9 DEF WriteForeign, threadVars
  <2>2. SUFFICES ASSUME NEW u \in Thread, linked[u], phase[u] \in {"receiving", "returned", "closed", "completed"}
                 PROVE  /\ Len(file') >= offset[u]
                        /\ Len(file') + Len(buffer[u]) >= offset[u] + received[u]
                        /\ phase[u] \in {"closed", "completed"} => buffer[u] = <<>>
    BY <2>1 DEF NothingIsLost
  <2>3. /\ Len(file') \in Nat /\ Len(file) \in Nat /\ Len(file) <= Len(file')
        /\ offset[u] \in Nat /\ received[u] \in Nat /\ buffer \in [Thread -> Seq(Block)]
    BY <1>9, <2>2, ForeignGrows DEF TypeOK
  <2> QED BY <2>2, <2>3 DEF NothingIsLost
<1> QED BY <1>1, <1>2, <1>3, <1>4, <1>5, <1>6, <1>7, <1>8, <1>9, StepKinds

\* Another FILE may write only from a seek on, which the history records.
LEMMA WriterStep == IInv /\ [Next]_vars => OneWriter'
<1> SUFFICES ASSUME IInv, [Next]_vars PROVE OneWriter'
  OBVIOUS
<1> USE DEF IInv
<1>1. ASSUME Writing' \subseteq Writing, overlapped' = overlapped PROVE OneWriter'
  BY <1>1 DEF OneWriter
<1>2. CASE Quiet
  BY <1>1, <1>2 DEF Quiet, Writing, TypeOK
<1>3. CASE Restart
  BY <1>1, <1>3 DEF Restart, Writing, fileVars
<1>4. ASSUME NEW t \in Thread, Open(t) PROVE OneWriter'
  BY <1>1, <1>4 DEF Open, Goes, Writing, TypeOK
<1>5. ASSUME NEW t \in Thread, Seek(t) PROVE OneWriter'
  <2>1. CASE linked[t] /\ Writing = {}
    BY <1>5, <2>1 DEF Seek, Goes, Writing, OneWriter, TypeOK
  <2>2. CASE linked[t] /\ Writing # {}
    BY <1>5, <2>2 DEF Seek, OneWriter
  <2>3. CASE ~linked[t]
    <3>1. Writing' \subseteq Writing
      BY <1>5, <2>3 DEF Seek, Goes, Writing, TypeOK
    <3>2. overlapped' <=> overlapped
      BY <1>5, <2>3, Zenon DEF Seek
    <3> QED BY <3>1, <3>2 DEF OneWriter
  <2> QED BY <2>1, <2>2, <2>3
<1>6. ASSUME NEW t \in Thread, Receive(t) \/ ReceivePage(t) \/ Writes(t) PROVE OneWriter'
  BY <1>1, <1>6 DEF Receive, ReceivePage, Goes, Writes, Writing, TypeOK, fileVars
<1>7. CASE Removes
  BY <1>1, <1>7 DEF Removes, Unlink, Writing
<1>8. CASE WriteForeign
  BY <1>1, <1>8 DEF WriteForeign, threadVars, Writing
<1> QED BY <1>2, <1>3, <1>4, <1>5, <1>6, <1>7, <1>8, StepKinds

\* A file that grew by a buffer that continues it is still a beginning of the
\* server's.
LEMMA WrittenInOrder ==
  ASSUME IInv, Clean, NEW t \in Writing
  PROVE  /\ Len(Written(t)) = offset[t] + received[t]
         /\ \A i \in DOMAIN Written(t) : Written(t)[i] = i
<1>1. t \in Thread /\ linked[t] /\ file \in Seq(Block) /\ file # NoFile /\ buffer[t] \in Seq(Block)
  BY DEF Writing, IInv, TypeOK
<1>2. /\ Written(t) \in Seq(Block)
      /\ Len(Written(t)) = Len(file) + Len(buffer[t])
      /\ \A i \in 1..Len(file) : Written(t)[i] = file[i]
      /\ \A i \in 1..Len(buffer[t]) : Written(t)[Len(file) + i] = buffer[t][i]
  BY <1>1, WrittenFile DEF IInv
<1>3. /\ Len(file) + Len(buffer[t]) = offset[t] + received[t]
      /\ \A i \in 1..Len(buffer[t]) : buffer[t][i] = Len(file) + i
  BY <1>1 DEF IInv, BufferContinues
<1>4. \A i \in 1..Len(file) : file[i] = i
  BY <1>1 DEF IInv, ResumesWhereItEnds, Clean
<1>5. SUFFICES ASSUME NEW i \in 1..(Len(file) + Len(buffer[t])) PROVE Written(t)[i] = i
  BY <1>2, <1>3
<1>6. Len(file) \in Nat /\ buffer \in [Thread -> Seq(Block)] /\ i \in Nat
  BY <1>1 DEF IInv, TypeOK
<1>7. CASE i <= Len(file)
  BY <1>2, <1>4, <1>5, <1>6, <1>7
<1>8. CASE ~(i <= Len(file))
  <2>1. i - Len(file) \in 1..Len(buffer[t]) /\ Len(file) + (i - Len(file)) = i
    BY <1>1, <1>5, <1>6, <1>8
  <2> QED BY <1>2, <1>3, <2>1
<1> QED BY <1>7, <1>8

\* What is to be written goes on where the file ends, after every step.
LEMMA BufferStep == IInv /\ [Next]_vars => BufferContinues'
<1> SUFFICES ASSUME IInv, [Next]_vars, Clean' PROVE BufferContinues'
  BY DEF BufferContinues
<1> USE DEF IInv
<1>1. ASSUME Clean, Writing' \subseteq Writing, file' = file, offset' = offset,
             \A u \in Writing' : received'[u] = received[u] /\ buffer'[u] = buffer[u]
      PROVE  BufferContinues'
  BY <1>1 DEF BufferContinues
<1>2. CASE Quiet
  BY <1>1, <1>2 DEF Quiet, Writing, Clean, TypeOK
<1>3. CASE Restart
  BY <1>3 DEF Restart, Writing, BufferContinues
<1>4. ASSUME NEW t \in Thread, Open(t) PROVE BufferContinues'
  <2>1. CASE file = NoFile
    BY <1>4, <2>1 DEF Open, Goes, Writing, BufferContinues, TypeOK
  <2>2. CASE file # NoFile
    BY <1>1, <1>4, <2>2 DEF Open, Goes, Writing, Clean, TypeOK
  <2> QED BY <2>1, <2>2
<1>5. ASSUME NEW t \in Thread, Seek(t) PROVE BufferContinues'
  <2>1. /\ file' = file /\ buffer' = buffer /\ received' = received
        /\ Writing' \subseteq IF linked[t] THEN Writing \union {t} ELSE Writing
        /\ t \notin Writing
    BY <1>5 DEF Seek, Goes, Writing, TypeOK
  <2>2. Clean /\ (linked[t] => Writing = {})
    BY <1>5 DEF Seek, Clean
  <2>3. \A u \in Thread : u # t => offset'[u] = offset[u]
    BY <1>5 DEF Seek, TypeOK
  <2>4. CASE linked[t]
    <3>1. offset'[t] = Len(file) /\ Len(file) \in Nat
      BY <1>5, <2>4 DEF Seek, ResumeFrom, TypeOK
    <3>2. received[t] = 0 /\ buffer[t] = <<>>
      BY <1>5 DEF Seek, Goes, ReceivesWhatIsLeft, TypeOK
    <3> QED BY <2>1, <2>2, <2>4, <3>1, <3>2 DEF BufferContinues
  <2>5. CASE ~linked[t]
    BY <2>1, <2>2, <2>3, <2>5 DEF BufferContinues, Writing
  <2> QED BY <2>4, <2>5
<1>6. ASSUME NEW t \in Thread, Receive(t) PROVE BufferContinues'
  <2>1. /\ file' = file /\ offset' = offset /\ Writing' \subseteq Writing /\ Clean
        /\ buffer'[t] = Append(buffer[t], offset[t] + received[t] + 1)
        /\ received'[t] = received[t] + 1
    BY <1>6 DEF Receive, fileVars, Writing, Clean, TypeOK
  <2>2. \A u \in Thread : u # t => received'[u] = received[u] /\ buffer'[u] = buffer[u]
    BY <1>6 DEF Receive, TypeOK
  <2>3. CASE t \notin Writing
    BY <1>1, <2>1, <2>2, <2>3 DEF Writing
  <2>4. CASE t \in Writing
    <3>1. \A u \in Writing' : u = t
      BY <2>1, <2>4 DEF OneWriter, Clean
    <3>2. /\ Len(file) + Len(buffer[t]) = offset[t] + received[t]
          /\ \A i \in 1..Len(buffer[t]) : buffer[t][i] = Len(file) + i
          /\ buffer[t] \in Seq(Block) /\ Len(file) \in Nat
      <4>1. buffer[t] \in Seq(Block) /\ Len(file) \in Nat
        BY <2>4 DEF Writing, TypeOK
      <4>2. /\ Len(file) + Len(buffer[t]) = offset[t] + received[t]
            /\ \A i \in DOMAIN buffer[t] : buffer[t][i] = Len(file) + i
        BY <2>1, <2>4 DEF BufferContinues
      <4> QED BY <4>1, <4>2
    <3>3. /\ offset \in [Thread -> Nat] /\ received \in [Thread -> 0..Size]
          /\ buffer \in [Thread -> Seq(Block)]
      BY DEF TypeOK
    <3>4. Len(buffer'[t]) = Len(buffer[t]) + 1 /\ DOMAIN buffer'[t] = 1..(Len(buffer[t]) + 1)
      BY <2>1, <3>2
    <3>5. Len(file) + Len(buffer'[t]) = offset[t] + received'[t]
      BY <2>1, <3>2, <3>3, <3>4
    <3>6. ASSUME NEW i \in 1..(Len(buffer[t]) + 1) PROVE buffer'[t][i] = Len(file) + i
      <4>1. CASE i = Len(buffer[t]) + 1
        <5>1. buffer'[t][i] = offset[t] + received[t] + 1
          BY <2>1, <3>2, <4>1
        <5> QED BY <3>2, <3>3, <4>1, <5>1
      <4>2. CASE i # Len(buffer[t]) + 1
        <5>1. i \in 1..Len(buffer[t])
          BY <3>2, <3>3, <4>2
        <5> QED BY <2>1, <3>2, <5>1
      <4> QED BY <4>1, <4>2
    <3> QED BY <2>1, <3>1, <3>4, <3>5, <3>6 DEF BufferContinues
  <2> QED BY <2>3, <2>4
<1>7. ASSUME NEW t \in Thread, ReceivePage(t) PROVE BufferContinues'
  <2>1. ~linked[t] /\ Clean
    BY <1>7 DEF ReceivePage, Clean
  <2> QED BY <1>1, <1>7, <2>1 DEF ReceivePage, Goes, Writing, TypeOK
<1>8. ASSUME NEW t \in Thread, Writes(t) PROVE BufferContinues'
  <2>1. /\ Writing' \subseteq Writing /\ Clean /\ offset' = offset /\ received' = received
        /\ buffer'[t] = <<>> /\ \A u \in Thread : u # t => buffer'[u] = buffer[u]
    BY <1>8 DEF Writes, Writing, Clean, TypeOK
  <2>2. CASE linked[t]
    <3>1. t \in Writing
      BY <1>8, <2>2 DEF Writes, Writing
    <3>2. \A u \in Writing' : u = t
      BY <2>1, <3>1 DEF OneWriter, Clean
    <3>3. Len(file') = offset[t] + received[t] /\ Len(file') \in Nat
      BY <1>8, <2>1, <2>2, <3>1, WrittenInOrder, WrittenFile DEF Writes
    <3> QED BY <2>1, <3>2, <3>3 DEF BufferContinues
  <2>3. CASE ~linked[t]
    <3>1. file' = file /\ t \notin Writing
      BY <1>8, <2>3, WrittenElsewhere DEF Writing
    <3> QED BY <1>1, <2>1, <3>1 DEF Writing
  <2> QED BY <2>2, <2>3
<1>9. CASE Removes
  BY <1>1, <1>9 DEF Removes, Unlink, Writing, Clean, BufferContinues
<1>10. CASE WriteForeign
  BY <1>10 DEF WriteForeign, Clean
<1> QED BY <1>2, <1>3, <1>4, <1>5, <1>6, <1>7, <1>8, <1>9, <1>10, StepKinds

\* The file stays a beginning of the server's.
LEMMA ResumeStep == IInv /\ [Next]_vars => ResumesWhereItEnds'
<1> SUFFICES ASSUME IInv, [Next]_vars PROVE ResumesWhereItEnds'
  OBVIOUS
<1> USE DEF IInv
<1>1. CASE Quiet
  BY <1>1 DEF Quiet, ResumesWhereItEnds
<1>2. CASE Restart
  BY <1>2 DEF Restart, ResumesWhereItEnds, fileVars
<1>3. ASSUME NEW t \in Thread, Open(t) PROVE ResumesWhereItEnds'
  <2>1. CASE file = NoFile
    BY <1>3, <2>1 DEF Open, ResumesWhereItEnds
  <2>2. CASE file # NoFile
    BY <1>3, <2>2 DEF Open, ResumesWhereItEnds
  <2> QED BY <2>1, <2>2
<1>4. ASSUME NEW t \in Thread, Seek(t) \/ Receive(t) \/ ReceivePage(t) PROVE ResumesWhereItEnds'
  BY <1>4 DEF Seek, Receive, ReceivePage, fileVars, ResumesWhereItEnds
<1>5. ASSUME NEW t \in Thread, Writes(t) PROVE ResumesWhereItEnds'
  <2>1. file' = Written(t) /\ UNCHANGED <<overlapped, spoiled, mixed>>
    BY <1>5 DEF Writes
  <2>2. CASE linked[t] /\ Clean
    <3>1. t \in Writing
      BY <1>5, <2>2 DEF Writes, Writing
    <3> QED BY <2>1, <2>2, <3>1, WrittenInOrder DEF ResumesWhereItEnds
  <2>3. CASE ~linked[t]
    BY <1>5, <2>1, <2>3, WrittenElsewhere DEF ResumesWhereItEnds
  <2>4. CASE ~Clean
    BY <2>1, <2>4 DEF ResumesWhereItEnds, Clean
  <2> QED BY <2>2, <2>3, <2>4
<1>6. CASE Removes
  BY <1>6 DEF Removes, Unlink, ResumesWhereItEnds
<1>7. CASE WriteForeign
  BY <1>7 DEF WriteForeign, ResumesWhereItEnds
<1> QED BY <1>1, <1>2, <1>3, <1>4, <1>5, <1>6, <1>7, StepKinds

\* The figures follow the file when the file only gets longer.
LEMMA FollowsLonger ==
  ASSUME NEW f \in [size : 0..Size, complete : 0..Size], Follows(f), TypeOK,
         file # NoFile => file' # NoFile /\ Len(file') \in Nat /\ Len(file) <= Len(file')
  PROVE  Follows(f)'
<1>1. Size \in Nat /\ (file # NoFile => Len(file) \in Nat)
  BY FileAssumption DEF TypeOK
<1> QED BY <1>1 DEF Follows

\* The size an entry keeps covers what is left of the file, from its first transfer on.
LEMMA FiguresStep == IInv /\ [Next]_vars => FiguresFollow'
<1> SUFFICES ASSUME IInv, [Next]_vars, ~overlapped' PROVE FiguresFollow'
  BY DEF FiguresFollow
<1> USE DEF IInv
<1>0. ~overlapped =>
        /\ ~outdated => /\ Follows(figures)
                        /\ \A t \in Thread : own[t] /\ phase[t] = "receiving" /\ figures.size # 0 => Left(t) <= figures.size
        /\ ~stale => Follows(indexed)
  BY DEF FiguresFollow
<1>1. ASSUME ~overlapped, UNCHANGED <<figures, indexed, outdated, stale>>,
             file # NoFile => file' # NoFile /\ Len(file') \in Nat /\ Len(file) <= Len(file'),
             \A u \in Thread : own'[u] /\ phase'[u] = "receiving" =>
               own[u] /\ phase[u] = "receiving" /\ offset'[u] = offset[u]
      PROVE  FiguresFollow'
  <2>1. figures \in [size : 0..Size, complete : 0..Size] /\ indexed \in [size : 0..Size, complete : 0..Size]
    BY DEF TypeOK
  <2>2. (~outdated => Follows(figures)') /\ (~stale => Follows(indexed)')
    BY <1>0, <1>1, <2>1, FollowsLonger
  <2>3. ~outdated => \A u \in Thread :
          own'[u] /\ phase'[u] = "receiving" /\ figures'.size # 0 => Left(u)' <= figures'.size
    BY <1>0, <1>1 DEF Left
  <2> QED BY <1>0, <1>1, <2>2, <2>3 DEF FiguresFollow, Follows
<1>2. file # NoFile => Len(file) \in Nat
  BY DEF TypeOK
<1> USE DEF threadVars, entryVars, fileVars
<1>3. CASE UNCHANGED vars
  BY <1>1, <1>2, <1>3 DEF vars
<1>4. ASSUME NEW t \in Thread, Create(t) \/ OpenFails(t) \/ Return(t) \/ Complete(t) \/ Stop(t) \/ ActOnCancel(t)
      PROVE  FiguresFollow'
  BY <1>1, <1>2, <1>4 DEF Create, OpenFails, Return, Complete, Stop, ActOnCancel, Goes, TypeOK
<1>5. ASSUME NEW t \in Thread, Open(t) PROVE FiguresFollow'
  BY <1>1, <1>2, <1>5 DEF Open, Goes, TypeOK
<1>6. ASSUME NEW t \in Thread, Receive(t) \/ ReceivePage(t) PROVE FiguresFollow'
  BY <1>1, <1>2, <1>6 DEF Receive, ReceivePage, Goes, TypeOK
<1>7. ASSUME NEW t \in Thread, Writes(t) PROVE FiguresFollow'
  <2>1. file # NoFile => file' # NoFile /\ Len(file') \in Nat /\ Len(file) <= Len(file')
    <3>1. CASE linked[t]
      <4>1. Len(file') = Len(file) + Len(buffer[t]) /\ file' # NoFile /\ buffer \in [Thread -> Seq(Block)]
        BY <1>7, <3>1, WrittenFile DEF Writes, TypeOK
      <4> QED BY <1>2, <4>1
    <3>2. CASE ~linked[t]
      BY <1>2, <1>7, <3>2, WrittenElsewhere
    <3> QED BY <3>1, <3>2
  <2> QED BY <1>1, <1>7, <2>1 DEF Writes, TypeOK
<1>8. ASSUME NEW t \in Thread, Seek(t) PROVE FiguresFollow'
  <2>1. ~overlapped /\ UNCHANGED <<figures, indexed, outdated, stale, file, own>>
    BY <1>8 DEF Seek
  <2>2. (~outdated => Follows(figures)') /\ (~stale => Follows(indexed)')
    BY <1>0, <2>1 DEF Follows
  <2>3. ASSUME ~outdated, NEW u \in Thread, own[u], phase'[u] = "receiving", figures.size # 0
        PROVE  Left(u)' <= figures.size
    <3>1. CASE u = t
      <4>1. linked[t]
        BY <1>8, <2>3, <3>1 DEF OwnIsLinked, Seek, Goes
      <4>2. offset'[t] = Len(file) /\ Len(file) \in Nat /\ Size <= Len(file) + figures.size
        BY <1>0, <1>8, <2>1, <2>3, <4>1 DEF Seek, ResumeFrom, Follows, TypeOK
      <4>3. Size \in Nat /\ figures.size \in Nat
        BY FileAssumption DEF TypeOK
      <4> QED BY <3>1, <4>2, <4>3 DEF Left
    <3>2. CASE u # t
      BY <1>0, <1>8, <2>1, <2>3, <3>2 DEF Seek, Goes, TypeOK, Left
    <3> QED BY <3>1, <3>2
  <2> QED BY <1>0, <2>1, <2>2, <2>3 DEF FiguresFollow
<1>9. ASSUME NEW t \in Thread, Progress(t) PROVE FiguresFollow'
  <2>0. /\ ~overlapped /\ UNCHANGED <<indexed, outdated, stale, file, phase, own, offset>>
        /\ ~stale => Follows(indexed)'
    BY <1>0, <1>9 DEF Progress, Follows
  <2>10. CASE outdated
    BY <2>0, <2>10 DEF FiguresFollow
  <2> SUFFICES ASSUME ~outdated PROVE FiguresFollow'
    BY <2>10
  <2>1. /\ ~overlapped /\ UNCHANGED <<indexed, outdated, stale, file, phase, own, offset>>
        /\ own[t] /\ phase[t] = "receiving" /\ linked[t]
    BY <1>9 DEF Progress, fileVars, OwnIsLinked
  <2>2. PICK complete \in {figures.complete, CompleteNow(t)} :
          figures' = [size     |-> IF figures.size = 0 THEN Left(t) ELSE figures.size,
                      complete |-> IF Left(t) = 0 THEN figures.complete ELSE complete]
    BY <1>9 DEF Progress
  <2>3. /\ received[t] \in Nat /\ received[t] <= Left(t) /\ Left(t) \in Nat /\ Size \in Nat
        /\ figures.size \in Nat /\ figures.complete \in Nat
    BY <2>1, LeftType, FileAssumption DEF ReceivesWhatIsLeft, TypeOK
  <2>4. figures.complete <= figures.size /\ (figures.size # 0 => Left(t) <= figures.size)
    BY <1>0, <2>1 DEF Follows
  <2>5. figures'.complete <= figures'.size
    BY <2>2, <2>3, <2>4 DEF CompleteNow
  <2>6. figures'.size # 0 => file # NoFile /\ Size <= Len(file) + figures'.size
    <3>1. CASE figures.size # 0
      BY <1>0, <2>1, <2>2, <3>1 DEF Follows
    <3>2. CASE figures.size = 0 /\ Left(t) # 0
      <4>1. file # NoFile /\ Len(file) >= offset[t] /\ Len(file) \in Nat
        BY <1>2, <2>1 DEF TypeOK, NothingIsLost
      <4>2. offset[t] + Left(t) = Size /\ offset[t] \in Nat
        BY <2>3, <3>2, LeftType DEF TypeOK
      <4> QED BY <2>2, <2>3, <3>2, <4>1, <4>2
    <3>3. CASE figures.size = 0 /\ Left(t) = 0
      BY <2>2, <3>3
    <3> QED BY <3>1, <3>2, <3>3
  <2>7. ASSUME NEW u \in Thread, own[u], phase[u] = "receiving", figures'.size # 0
        PROVE  Left(u) <= figures'.size
    <3>1. CASE figures.size # 0
      BY <1>0, <2>1, <2>2, <2>7, <3>1
    <3>2. CASE figures.size = 0
      <4>1. t \in Writing /\ u \in Writing
        BY <2>1, <2>7 DEF OwnIsLinked, Writing
      <4>2. u = t
        BY <2>1, <4>1 DEF OneWriter
      <4> QED BY <2>2, <2>3, <3>2, <4>2
    <3> QED BY <3>1, <3>2
  <2>8. Follows(figures)'
    BY <2>1, <2>5, <2>6 DEF Follows
  <2>9. \A u \in Thread : Left(u)' = Left(u)
    BY <2>1 DEF Left
  <2> QED BY <2>0, <2>1, <2>7, <2>8, <2>9 DEF FiguresFollow
<1>10. ASSUME NEW t \in Thread, Delete(t) PROVE FiguresFollow'
  <2>1. /\ figures' = NoFigures /\ indexed' = indexed /\ own' = [u \in Thread |-> FALSE]
        /\ stale' = (indexed # NoFigures)
    BY <1>10 DEF Delete
  <2>2. Follows(figures)' /\ (indexed = NoFigures => Follows(indexed)')
    BY <2>1 DEF Follows, NoFigures
  <2> QED BY <2>1, <2>2 DEF FiguresFollow
<1>11. CASE Save
  <2>1. ~overlapped /\ indexed' = figures /\ stale' = outdated /\ UNCHANGED <<figures, outdated, file, phase, own, offset>>
    BY <1>11 DEF Save
  <2>2. ~outdated => Follows(figures)' /\ Follows(indexed)'
    BY <1>0, <2>1 DEF Follows
  <2>3. \A u \in Thread : Left(u)' = Left(u)
    BY <2>1 DEF Left
  <2> QED BY <1>0, <2>1, <2>2, <2>3 DEF FiguresFollow
<1>12. CASE Restart
  <2>1. /\ ~overlapped /\ UNCHANGED <<indexed, stale, file>> /\ own' = [u \in Thread |-> FALSE]
        /\ \/ figures' = indexed /\ outdated' = stale
           \/ figures' = NoFigures
    BY <1>12 DEF Restart
  <2>2. ~stale => Follows(indexed)'
    BY <1>0, <2>1 DEF Follows
  <2>3. figures' = NoFigures => Follows(figures)'
    BY DEF Follows, NoFigures
  <2>4. ~outdated' => Follows(figures)'
    BY <2>1, <2>2, <2>3 DEF Follows
  <2> QED BY <2>1, <2>2, <2>4 DEF FiguresFollow
<1>14. CASE WriteForeign
  BY <1>1, <1>14, ForeignGrows DEF WriteForeign
<1>15. ASSUME Untold, UNCHANGED <<overlapped, phase, own, offset>> PROVE FiguresFollow'
  <2>1. ~outdated' => figures = NoFigures /\ figures' = figures /\ ~outdated
    BY <1>15 DEF Untold
  <2>2. ~stale' => indexed' = NoFigures
    BY <1>15 DEF Untold
  <2>3. NoFigures.size = 0 /\ NoFigures.complete = 0
    BY DEF NoFigures
  <2>4. (~outdated' => Follows(figures)') /\ (~stale' => Follows(indexed)')
    BY <2>1, <2>2, <2>3 DEF Follows
  <2> QED BY <2>1, <2>3, <2>4 DEF FiguresFollow
<1>16. ASSUME NEW t \in Thread, DeleteOther(t) PROVE FiguresFollow'
  BY <1>15, <1>16 DEF DeleteOther
<1>17. CASE DeleteForeign
  BY <1>15, <1>17 DEF DeleteForeign
<1>13. ASSUME NEW t \in Thread, Flush(t) \/ Close(t) PROVE Writes(t)
  BY <1>13 DEF Flush, Close, Goes, Writes
<1> QED
  BY <1>3, <1>4, <1>5, <1>6, <1>7, <1>8, <1>9, <1>10, <1>11, <1>12, <1>13, <1>14, <1>16, <1>17
     DEF Next, ThreadStep, OpenFile, Perform

-----------------------------------------------------------------------------
(* The theorems.                                                           *)

\* In the beginning there is no file, and no thread.
LEMMA InitInvariant == Init => IInv
<1> SUFFICES ASSUME Init PROVE IInv
  OBVIOUS
<1>1. TypeOK
  <2>1. NoFigures \in [size : 0..Size, complete : 0..Size]
    BY FileAssumption DEF NoFigures
  <2>2. {overlapped, spoiled, mixed, outdated, stale} \subseteq BOOLEAN
    BY DEF Init
  <2>3. buffer \in [Thread -> Seq(Block)]
    BY DEF Init
  <2>4. lives \in 1..MaxLives /\ received \in [Thread -> 0..Size]
    BY FileAssumption DEF Init
  <2> QED BY <2>1, <2>2, <2>3, <2>4 DEF Init, TypeOK, Phase
<1>2. ReceivesWhatIsLeft /\ OwnIsLinked /\ NothingIsLost /\ ResumesWhereItEnds
  BY DEF Init, ReceivesWhatIsLeft, OwnIsLinked, NothingIsLost, ResumesWhereItEnds
<1>3. OneWriter /\ BufferContinues
  BY DEF Init, OneWriter, BufferContinues, Writing
<1>4. FiguresFollow
  BY DEF Init, FiguresFollow, Follows, NoFigures
<1> QED BY <1>1, <1>2, <1>3, <1>4 DEF IInv

\* Types, one writer at a time, and what file, buffers and figures say of each other,
\* hold in every state.
THEOREM Invariance == Spec => []IInv
<1>1. IInv /\ [Next]_vars => IInv'
  BY TypeStep, ReceivesStep, OwnStep, LostStep, WriterStep, BufferStep, ResumeStep, FiguresStep DEF IInv
<1> QED BY InitInvariant, <1>1, PTL DEF Spec

\* The figures, the offsets, the buffers and the file have their types in every
\* state, and a thread that has its FILE under the file's name has a file.
THEOREM TypeCorrect == Spec => []TypeOK
<1>1. IInv => TypeOK
  BY DEF IInv
<1> QED BY <1>1, Invariance, PTL

\* However often downloads of a URL are paused, resumed, interrupted or cancelled, its
\* file is a beginning of the server's, unless a transfer began while another could
\* write, a page that says "error" was taken for the file, or a URL that ends alike was
\* downloaded to it.
THEOREM NeverGapped == Spec => []ResumesWhereItEnds
<1>1. IInv => ResumesWhereItEnds
  BY DEF IInv
<1> QED BY <1>1, Invariance, PTL

\* COMPLETED is said after fclose has written the buffer.
THEOREM CompletedOnDisk == Spec => []CompletedIsOnDisk
<1>1. IInv => CompletedIsOnDisk
  <2> SUFFICES ASSUME IInv, NEW t \in Thread, phase[t] = "completed", linked[t]
               PROVE  Len(file) >= offset[t] + received[t]
    BY DEF CompletedIsOnDisk
  <2>1. /\ Len(file) + Len(buffer[t]) >= offset[t] + received[t]
        /\ buffer[t] = <<>>
    BY DEF IInv, NothingIsLost
  <2>2. /\ Len(file) \in Nat /\ buffer \in [Thread -> Seq(Block)]
        /\ offset \in [Thread -> Nat] /\ received \in [Thread -> 0..Size]
    BY DEF IInv, TypeOK
  <2> QED BY <2>1, <2>2
<1> QED BY <1>1, Invariance, PTL

\* Status reports never show more received than there is: each transfer counts from
\* where it resumed, and the first one finds the largest size, unless transfers
\* overlapped or another entry's cancel removed the file and left the size.
THEOREM FiguresFit == Spec => []ProgressFits
<1>1. IInv => ProgressFits
  BY DEF IInv, FiguresFollow, Follows, ProgressFits
<1> QED BY <1>1, Invariance, PTL

=============================================================================
