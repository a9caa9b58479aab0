-------------------------- MODULE PayloadPathProofs --------------------------
(***************************************************************************)
(* The payload path is correct for any set of files and any number of      *)
(* changes.                                                                *)
(*                                                                         *)
(* That nothing is uploaded twice is an account: an appearance of a file   *)
(* stands in an ADDED event, or in the tree, or in the copy that is being  *)
(* sent, or has been uploaded; between get_all and clear the tree and the  *)
(* copy are two sights of one entry.  That nothing is forgotten follows    *)
(* the last event of a file through the same places; how far it is from    *)
(* its collection is a number that the thread which has it lowers.         *)
(***************************************************************************)
EXTENDS PayloadPath, FunctionTheorems, FiniteSetTheorems, SequenceTheorems, TLAPS

(* Every step keeps the types. *)
LEMMA TypeStep == TypeOK /\ [Next]_vars => TypeOK'
<1> SUFFICES ASSUME TypeOK, [Next]_vars PROVE TypeOK'
  OBVIOUS
<1> USE BoundsAssumption DEF TypeOK, directory, loop, sleep, payload
<1>1. ASSUME NEW f \in Files, CreateFile(f) PROVE TypeOK'
  <2>1. TypeDirectory'
    BY <1>1 DEF CreateFile, TypeDirectory, Events
  <2>2. TypeLoop' /\ TypeSleep' /\ TypePayload'
    BY <1>1 DEF CreateFile, TypeLoop, TypeSleep, TypePayload
  <2> QED
    BY <2>1, <2>2
<1>2. ASSUME NEW f \in Files, WriteFile(f) PROVE TypeOK'
  <2>1. TypeDirectory'
    BY <1>2 DEF WriteFile, TypeDirectory
  <2>2. TypeLoop' /\ TypeSleep' /\ TypePayload'
    BY <1>2 DEF WriteFile, TypeLoop, TypeSleep, TypePayload
  <2> QED
    BY <2>1, <2>2
<1>3. ASSUME NEW f \in Files, DeleteFile(f) PROVE TypeOK'
  <2>1. TypeDirectory'
    BY <1>3 DEF DeleteFile, TypeDirectory, Events
  <2>2. TypeLoop' /\ TypeSleep' /\ TypePayload'
    BY <1>3 DEF DeleteFile, TypeLoop, TypeSleep, TypePayload
  <2> QED
    BY <2>1, <2>2
<1>4. CASE PostOther
  <2>1. TypeDirectory'
    BY <1>4 DEF PostOther, TypeDirectory
  <2>2. TypeSleep'
    BY <1>4 DEF PostOther, TypeSleep, Reasons
  <2>3. TypeLoop' /\ TypePayload'
    BY <1>4 DEF PostOther, TypeLoop, TypePayload
  <2> QED
    BY <2>1, <2>2, <2>3
<1>5. CASE TakeOverflow
  <2>1. TypeDirectory'
    BY <1>5 DEF TakeOverflow, TypeDirectory
  <2>2. TypePayload'
    BY <1>5 DEF TakeOverflow, TypePayload
  <2>3. TypeLoop' /\ TypeSleep'
    BY <1>5 DEF TakeOverflow, TypeLoop, TypeSleep
  <2> QED
    BY <2>1, <2>2, <2>3
<1>6. CASE TakeBatch
  <2>1. TypeDirectory'
    BY <1>6 DEF TakeBatch, TypeDirectory
  <2>2. TypeLoop'
    BY <1>6 DEF TakeBatch, TypeLoop, TypeDirectory
  <2>3. TypeSleep' /\ TypePayload'
    BY <1>6 DEF TakeBatch, TypeSleep, TypePayload
  <2> QED
    BY <2>1, <2>2, <2>3
<1>7. CASE ParseNotifyInformation
  <2>1. TypeLoop'
    <3>1. Head(batch) \in Events /\ Tail(batch) \in Seq(Events)
      BY <1>7, HeadTailProperties DEF ParseNotifyInformation, TypeLoop
    <3>2. Head(batch)[2] \in Files
      BY <3>1 DEF Events
    <3>3. tree' \in SUBSET Files /\ need' \in BOOLEAN
      BY <1>7, <3>2 DEF ParseNotifyInformation, TypeLoop
    <3>4. batch' = Tail(batch) /\ lpc = "parse" /\ UNCHANGED <<lpc, locked>>
      BY <1>7 DEF ParseNotifyInformation
    <3> QED
      BY <3>1, <3>3, <3>4 DEF TypeLoop
  <2>2. TypeDirectory' /\ TypeSleep' /\ TypePayload'
    BY <1>7 DEF ParseNotifyInformation, TypeDirectory, TypeSleep, TypePayload
  <2> QED
    BY <2>1, <2>2
<1>8. CASE CurrentCount
  <2>1. TypeLoop'
    BY <1>8 DEF CurrentCount, TypeLoop
  <2>2. TypeDirectory' /\ TypeSleep' /\ TypePayload'
    BY <1>8 DEF CurrentCount, TypeDirectory, TypeSleep, TypePayload
  <2> QED
    BY <2>1, <2>2
<1>9. CASE NotifyLock
  <2>1. TypeLoop'
    BY <1>9 DEF NotifyLock, TypeLoop
  <2>2. TypeDirectory' /\ TypeSleep' /\ TypePayload'
    BY <1>9 DEF NotifyLock, TypeDirectory, TypeSleep, TypePayload
  <2> QED
    BY <2>1, <2>2
<1>10. CASE NotifyPost
  <2>1. TypeLoop'
    BY <1>10 DEF NotifyPost, TypeLoop
  <2>2. TypeSleep'
    BY <1>10 DEF NotifyPost, TypeSleep, Reasons
  <2>3. TypeDirectory' /\ TypePayload'
    BY <1>10 DEF NotifyPost, TypeDirectory, TypePayload
  <2> QED
    BY <2>1, <2>2, <2>3
<1>11. CASE SleepWait
  <2>1. TypeSleep'
    BY <1>11 DEF SleepWait, TypeSleep, Reasons
  <2>2. TypeDirectory' /\ TypeLoop' /\ TypePayload'
    BY <1>11 DEF SleepWait, TypeDirectory, TypeLoop, TypePayload
  <2> QED
    BY <2>1, <2>2
<1>12. ASSUME NEW running \in BOOLEAN, SleepDispatch(running) PROVE TypeOK'
  <2>1. TypeSleep'
    BY <1>12 DEF SleepDispatch, TypeSleep, Reasons
  <2>2. TypePayload'
    BY <1>12 DEF SleepDispatch, TypePayload
  <2>3. TypeDirectory' /\ TypeLoop'
    BY <1>12 DEF SleepDispatch, TypeDirectory, TypeLoop
  <2> QED
    BY <2>1, <2>2, <2>3
<1>13. CASE PayloadWait
  <2>1. TypeSleep'
    BY <1>13 DEF PayloadWait, TypeSleep
  <2>2. TypePayload'
    BY <1>13 DEF PayloadWait, TypePayload
  <2>3. TypeDirectory' /\ TypeLoop'
    BY <1>13 DEF PayloadWait, TypeDirectory, TypeLoop
  <2> QED
    BY <2>1, <2>2, <2>3
<1>14. CASE GetAll
  <2>1. TypePayload'
    BY <1>14 DEF GetAll, TypePayload, TypeLoop
  <2>2. TypeDirectory' /\ TypeLoop' /\ TypeSleep'
    BY <1>14 DEF GetAll, TypeDirectory, TypeLoop, TypeSleep
  <2> QED
    BY <2>1, <2>2
<1>15. CASE Clear
  <2>1. TypeLoop'
    BY <1>15 DEF Clear, TypeLoop
  <2>2. TypePayload'
    BY <1>15 DEF Clear, TypePayload
  <2>3. TypeDirectory' /\ TypeSleep'
    BY <1>15 DEF Clear, TypeDirectory, TypeSleep
  <2> QED
    BY <2>1, <2>2, <2>3
<1>16. CASE SendDone
  <2>1. TypePayload'
    BY <1>16 DEF SendDone, TypePayload
  <2>2. TypeDirectory' /\ TypeLoop' /\ TypeSleep'
    BY <1>16 DEF SendDone, TypeDirectory, TypeLoop, TypeSleep
  <2> QED
    BY <2>1, <2>2
<1>17. ASSUME NEW f \in Files, PublishPayload(f) PROVE TypeOK'
  <2>1. TypePayload'
    <3>1. uploaded' \in [Files -> Nat]
      <4>1. uploaded' = uploaded \/ uploaded' = [uploaded EXCEPT ![f] = @ + 1]
        BY <1>17 DEF PublishPayload
      <4> QED
        BY <4>1 DEF TypePayload
    <3>2. lost' = lost \/ lost' = lost \cup {"request"} \/ lost' = lost \cup {"empty"}
      BY <1>17 DEF PublishPayload
    <3>3. ppc = "send" /\ ppc' = ppc /\ files' = files \ {f}
      BY <1>17 DEF PublishPayload
    <3> QED
      BY <3>1, <3>2, <3>3 DEF TypePayload
  <2>2. TypeDirectory' /\ TypeLoop' /\ TypeSleep'
    BY <1>17 DEF PublishPayload, TypeDirectory, TypeLoop, TypeSleep
  <2> QED
    BY <2>1, <2>2
<1>18. ASSUME NEW f \in Files, PublishThrows(f) PROVE TypeOK'
  <2>1. TypePayload'
    BY <1>18 DEF PublishThrows, TypePayload
  <2>2. TypeDirectory' /\ TypeLoop' /\ TypeSleep'
    BY <1>18 DEF PublishThrows, TypeDirectory, TypeLoop, TypeSleep
  <2> QED
    BY <2>1, <2>2
<1>19. CASE UNCHANGED vars
  BY <1>19 DEF vars, TypeDirectory, TypeLoop, TypeSleep, TypePayload
<1> QED
  BY <1>1, <1>2, <1>3, <1>4, <1>5, <1>6, <1>7, <1>8, <1>9, <1>10, <1>11, <1>12, <1>13, <1>14, <1>15, <1>16, <1>17, <1>18, <1>19
     DEF Next, Directory, Loop, Sleep, Payload
LEMMA InitTypes == Init => TypeOK
<1> SUFFICES ASSUME Init PROVE TypeOK
  OBVIOUS
<1> USE DEF Init
<1>1. TypeDirectory
  BY BoundsAssumption, EmptySeq DEF TypeDirectory
<1>2. TypeLoop
  BY EmptySeq DEF TypeLoop
<1>3. TypeSleep /\ TypePayload
  BY DEF TypeSleep, TypePayload, Reasons
<1> QED
  BY <1>1, <1>2, <1>3 DEF TypeOK

(* The state of the payload path has its types. *)
THEOREM TypeCorrect == Spec => []TypeOK
  BY InitTypes, TypeStep, PTL DEF Spec

-----------------------------------------------------------------------------
(* A file in the tree has someone on the way to collect it: this invariant  *)
(* is inductive as it stands.                                               *)
LEMMA StrandedStep == TypeOK /\ NoStrandedFile /\ [Next]_vars => NoStrandedFile'
<1> SUFFICES ASSUME TypeOK, NoStrandedFile, [Next]_vars PROVE NoStrandedFile'
  OBVIOUS
<1> USE DEF NoStrandedFile, directory, loop, sleep, payload
<1>1. CASE Directory
  BY <1>1 DEF Directory, CreateFile, WriteFile, DeleteFile
<1>2. CASE PostOther \/ TakeOverflow
  BY <1>2 DEF PostOther, TakeOverflow
<1>3. CASE TakeBatch
  BY <1>3 DEF TakeBatch
<1>4. CASE ParseNotifyInformation
  BY <1>4 DEF ParseNotifyInformation, TypeOK, TypeLoop
<1>5. CASE CurrentCount \/ NotifyLock \/ NotifyPost
  BY <1>5 DEF CurrentCount, NotifyLock, NotifyPost, TypeOK, TypeLoop
<1>6. CASE Sleep
  BY <1>6 DEF Sleep, SleepWait, SleepDispatch, TypeOK, TypeSleep
<1>7. CASE PayloadWait \/ GetAll \/ Clear
  BY <1>7 DEF PayloadWait, GetAll, Clear
<1>8. CASE SendDone \/ \E f \in Files : PublishPayload(f) \/ PublishThrows(f)
  BY <1>8 DEF SendDone, PublishPayload, PublishThrows
<1>9. CASE UNCHANGED vars
  BY <1>9 DEF vars
<1> QED
  BY <1>1, <1>2, <1>3, <1>4, <1>5, <1>6, <1>7, <1>8, <1>9 DEF Next, Loop, Payload

(* For any files and any order of the threads' steps, the notification of   *)
(* an entered file is never cut off.                                        *)
THEOREM NothingStranded == Spec => []NoStrandedFile
<1>1. Init => NoStrandedFile
  BY DEF Init, NoStrandedFile
<1> QED
  BY <1>1, StrandedStep, TypeCorrect, PTL DEF Spec

-----------------------------------------------------------------------------
(* The ADDED events of a file in a buffer. *)
Adds(s, f) == {i \in 1..Len(s) : s[i] = <<"added", f>>}

LEMMA AddsFinite ==
  ASSUME NEW s \in Seq(Events), NEW f
  PROVE  IsFiniteSet(Adds(s, f)) /\ Cardinality(Adds(s, f)) \in Nat
<1>1. Len(s) \in Nat
  BY LenProperties
<1>2. IsFiniteSet(1..Len(s))
  BY <1>1, FS_Interval
<1>3. IsFiniteSet(Adds(s, f))
  BY <1>2, FS_Subset DEF Adds
<1> QED
  BY <1>3, FS_CardinalityType

LEMMA AddsAppend ==
  ASSUME NEW s \in Seq(Events), NEW e \in Events, NEW f
  PROVE  Cardinality(Adds(Append(s, e), f)) =
           IF e = <<"added", f>> THEN Cardinality(Adds(s, f)) + 1 ELSE Cardinality(Adds(s, f))
<1> DEFINE t == Append(s, e)
           n == Len(s) + 1
<1>1. Len(s) \in Nat /\ Len(t) = n /\ t[n] = e /\ \A i \in 1..Len(s) : t[i] = s[i]
  BY AppendProperties, LenProperties
<1>2. n \notin Adds(s, f)
  BY <1>1 DEF Adds
<1>3. CASE e = <<"added", f>>
  <2>1. Adds(t, f) = Adds(s, f) \cup {n}
    BY <1>1, <1>3 DEF Adds
  <2> QED
    BY <2>1, <1>2, <1>3, AddsFinite, FS_AddElement
<1>4. CASE e # <<"added", f>>
  <2>1. \A i : i \in 1..Len(t) /\ t[i] = <<"added", f>> <=> i \in 1..Len(s) /\ s[i] = <<"added", f>>
    <3>1. \A i : i \in 1..Len(t) <=> i \in 1..Len(s) \/ i = n
      BY <1>1
    <3> QED
      BY <1>1, <1>4, <3>1
  <2>2. Adds(t, f) = Adds(s, f)
    BY <2>1 DEF Adds
  <2> QED
    BY <2>2, <1>4
<1> QED
  BY <1>3, <1>4

LEMMA AddsTail ==
  ASSUME NEW s \in Seq(Events), s # << >>, NEW f
  PROVE  Cardinality(Adds(Tail(s), f)) =
           IF Head(s) = <<"added", f>> THEN Cardinality(Adds(s, f)) - 1 ELSE Cardinality(Adds(s, f))
<1> DEFINE t == Tail(s)
           A == Adds(s, f)
           B == Adds(t, f)
<1>1. /\ Len(s) \in Nat \ {0} /\ t \in Seq(Events) /\ Len(t) = Len(s) - 1
      /\ \A i \in 1..Len(t) : t[i] = s[i + 1]
      /\ Head(s) = s[1]
  BY HeadTailProperties, LenProperties, EmptySeq
<1>2. IsFiniteSet(A) /\ Cardinality(A) \in Nat /\ IsFiniteSet(B)
  BY <1>1, AddsFinite
<1>3. IsFiniteSet(A \ {1}) /\ Cardinality(A \ {1}) = IF 1 \in A THEN Cardinality(A) - 1 ELSE Cardinality(A)
  BY <1>2, FS_RemoveElement
<1>4. ExistsBijection(B, A \ {1})
  <2> DEFINE F == [i \in B |-> i + 1]
  <2>1. \A i \in B : F[i] \in A \ {1}
    BY <1>1 DEF Adds
  <2>2. \A i, j \in B : F[i] = F[j] => i = j
    BY DEF Adds
  <2>3. \A k \in A \ {1} : \E i \in B : F[i] = k
    <3> TAKE k \in A \ {1}
    <3>1. k \in 2..Len(s) /\ s[k] = <<"added", f>>
      BY <1>1 DEF Adds
    <3>2. k - 1 \in 1..Len(t) /\ t[k - 1] = s[k]
      BY <1>1, <3>1
    <3>3. k - 1 \in B /\ (k - 1) + 1 = k
      BY <3>1, <3>2 DEF Adds
    <3>4. F[k - 1] = k
      BY <3>3
    <3> QED
      BY <3>3, <3>4
  <2>4. F \in Bijection(B, A \ {1})
    <3> HIDE DEF A, B
    <3> QED
      BY <2>1, <2>2, <2>3, Fun_IsBij
  <2> QED
    BY <2>4 DEF ExistsBijection
<1>5. Cardinality(A \ {1}) = Cardinality(B)
  BY <1>2, <1>4, FS_Bijection
<1>6. 1 \in A <=> Head(s) = <<"added", f>>
  BY <1>1 DEF Adds
<1> QED
  BY <1>3, <1>5, <1>6

One(b) == IF b THEN 1 ELSE 0

LEMMA OneIs == ASSUME NEW b \in BOOLEAN
               PROVE  One(b) \in {0, 1} /\ (b => One(b) = 1) /\ (~b => One(b) = 0)
  BY DEF One

(* Between get_all and clear the tree and the copy hold the same entries. *)
Sights(f) == IF ppc = "clear" THEN One(f \in tree \cup files)
                              ELSE One(f \in tree) + One(f \in files)

Account(f) ==
  uploaded[f] + Sights(f) + Cardinality(Adds(batch, f)) + Cardinality(Adds(events, f)) <= created[f]

IInv == TypeOK /\ \A f \in Files : Account(f)

LEMMA AccountTypes ==
  ASSUME TypeOK, NEW f \in Files
  PROVE  /\ uploaded[f] \in Nat /\ created[f] \in Nat
         /\ Sights(f) \in 0..2
         /\ Cardinality(Adds(batch, f)) \in Nat /\ Cardinality(Adds(events, f)) \in Nat
<1>1. Sights(f) \in 0..2
  BY DEF Sights, One
<1> QED
  BY <1>1, AddsFinite DEF TypeOK, TypeDirectory, TypeLoop, TypePayload

LEMMA AddsEmpty == \A f : Cardinality(Adds(<< >>, f)) = 0
<1>1. \A f : Adds(<< >>, f) = {}
  BY DEF Adds
<1> QED
  BY <1>1, FS_EmptySet

(* A step that touches neither events nor uploads keeps the account if it   *)
(* adds no sight of the file.                                               *)
LEMMA FewerSights ==
  ASSUME IInv, TypeOK', NEW f \in Files, UNCHANGED <<events, batch, created, uploaded>>,
         Sights(f)' <= Sights(f)
  PROVE  Account(f)'
<1>1. /\ uploaded[f] \in Nat /\ created[f] \in Nat /\ Sights(f) \in 0..2 /\ Sights(f)' \in 0..2
      /\ Cardinality(Adds(batch, f)) \in Nat /\ Cardinality(Adds(events, f)) \in Nat
  <2>1. Sights(f)' \in 0..2
    BY DEF Sights, One
  <2> QED
    BY <2>1, AccountTypes DEF IInv
<1>2. Account(f)
  BY DEF IInv
<1> HIDE DEF Sights
<1> QED
  BY <1>1, <1>2 DEF Account

(* Every step keeps the account of every file. *)
LEMMA AccountStep == IInv /\ [Next]_vars => IInv'
<1> SUFFICES ASSUME IInv, [Next]_vars, NEW f \in Files PROVE Account(f)'
  BY TypeStep DEF IInv
<1>0. /\ TypeOK /\ TypeOK' /\ Account(f)
      /\ uploaded[f] \in Nat /\ created[f] \in Nat
      /\ Sights(f) \in 0..2 /\ Sights(f)' \in 0..2
      /\ Cardinality(Adds(batch, f)) \in Nat /\ Cardinality(Adds(events, f)) \in Nat
  <2>1. TypeOK /\ TypeOK' /\ Account(f)
    BY TypeStep DEF IInv
  <2>2. Sights(f)' \in 0..2
    BY DEF Sights, One
  <2> QED
    BY <2>1, <2>2, AccountTypes
<1> USE DEF directory, loop, sleep, payload
<1>1. ASSUME NEW g \in Files, CreateFile(g) PROVE Account(f)'
  <2>1. /\ events' = Append(events, <<"added", g>>) /\ <<"added", g>> \in Events
        /\ events \in Seq(Events)
    BY <1>0, <1>1 DEF CreateFile, TypeOK, TypeDirectory, Events
  <2>2. Cardinality(Adds(events', f)) =
          IF g = f THEN Cardinality(Adds(events, f)) + 1 ELSE Cardinality(Adds(events, f))
    BY <2>1, AddsAppend
  <2>3. created'[f] = IF g = f THEN created[f] + 1 ELSE created[f]
    BY <1>0, <1>1 DEF CreateFile, TypeOK, TypeDirectory
  <2>4. Sights(f)' = Sights(f) /\ UNCHANGED <<batch, uploaded>>
    BY <1>1 DEF CreateFile, Sights
  <2>5. uploaded'[f] = uploaded[f] /\ Cardinality(Adds(batch', f)) = Cardinality(Adds(batch, f))
    BY <2>4
  <2> HIDE DEF Sights
  <2> QED
    BY <1>0, <2>2, <2>3, <2>4, <2>5 DEF Account
<1>2. ASSUME NEW g \in Files, WriteFile(g) PROVE Account(f)'
  <2>1. Sights(f)' = Sights(f) /\ UNCHANGED <<events, batch, created, uploaded>>
    BY <1>2 DEF WriteFile, Sights
  <2> QED
    BY <1>0, <2>1, FewerSights
<1>3. ASSUME NEW g \in Files, DeleteFile(g) PROVE Account(f)'
  <2>1. /\ events' = Append(events, <<"removed", g>>) /\ <<"removed", g>> \in Events
        /\ events \in Seq(Events)
    BY <1>0, <1>3 DEF DeleteFile, TypeOK, TypeDirectory, Events
  <2>2. Cardinality(Adds(events', f)) = Cardinality(Adds(events, f))
    BY <2>1, AddsAppend
  <2>3. Sights(f)' = Sights(f) /\ UNCHANGED <<batch, uploaded, created>>
    BY <1>3 DEF DeleteFile, Sights
  <2> QED
    BY <1>0, <2>2, <2>3 DEF Account
<1>4. CASE PostOther \/ Sleep \/ PayloadWait \/ CurrentCount \/ NotifyLock \/ NotifyPost
  <2>1. UNCHANGED <<events, batch, created, uploaded, tree, files>>
    BY <1>4 DEF PostOther, Sleep, SleepWait, SleepDispatch, PayloadWait, CurrentCount,
                NotifyLock, NotifyPost
  <2>2. (ppc = "clear") = (ppc' = "clear")
    BY <1>4 DEF PostOther, Sleep, SleepWait, SleepDispatch, PayloadWait, CurrentCount,
                NotifyLock, NotifyPost
  <2>3. Sights(f)' = Sights(f)
    BY <2>1, <2>2 DEF Sights
  <2> QED
    BY <1>0, <2>1, <2>3, FewerSights
<1>5. CASE TakeOverflow
  <2>1. Sights(f)' = Sights(f) /\ events' = << >> /\ UNCHANGED <<batch, uploaded, created>>
    BY <1>5 DEF TakeOverflow, Sights
  <2> QED
    BY <1>0, <2>1, AddsEmpty DEF Account
<1>6. CASE TakeBatch
  <2>1. /\ Sights(f)' = Sights(f) /\ UNCHANGED <<uploaded, created>>
        /\ batch = << >> /\ batch' = events /\ events' = << >>
    BY <1>0, <1>6 DEF TakeBatch, Sights, TypeOK, TypeLoop
  <2> QED
    BY <1>0, <2>1, AddsEmpty DEF Account
<1>7. CASE ParseNotifyInformation
  <2>1. /\ batch # << >> /\ batch' = Tail(batch) /\ batch \in Seq(Events)
        /\ UNCHANGED <<events, uploaded, created, files, ppc>>
    BY <1>0, <1>7 DEF ParseNotifyInformation, TypeOK, TypeLoop
  <2>2. Cardinality(Adds(batch', f)) =
          IF Head(batch) = <<"added", f>> THEN Cardinality(Adds(batch, f)) - 1
                                          ELSE Cardinality(Adds(batch, f))
    BY <2>1, AddsTail
  <2>3. CASE Head(batch) = <<"added", f>>
    <3>1. tree' = tree \/ tree' = tree \cup {f}
      BY <1>7, <2>3 DEF ParseNotifyInformation
    <3>2. Sights(f)' <= Sights(f) + 1
      BY <2>1, <3>1 DEF Sights, One
    <3>3. Cardinality(Adds(batch', f)) = Cardinality(Adds(batch, f)) - 1
      BY <2>2, <2>3
    <3>4. /\ uploaded'[f] = uploaded[f] /\ created'[f] = created[f]
          /\ Cardinality(Adds(events', f)) = Cardinality(Adds(events, f))
      BY <2>1
    <3> HIDE DEF Sights
    <3> QED
      BY <1>0, <3>2, <3>3, <3>4 DEF Account
  <2>4. CASE Head(batch) # <<"added", f>>
    <3>1. Head(batch) \in Events
      BY <2>1, HeadTailProperties
    <3>2. f \in tree' => f \in tree
      <4>1. Head(batch) = <<Head(batch)[1], Head(batch)[2]>>
        BY <3>1 DEF Events
      <4> QED
        BY <1>7, <2>4, <4>1 DEF ParseNotifyInformation
    <3>3. Sights(f)' <= Sights(f)
      BY <2>1, <3>2 DEF Sights, One
    <3>4. Cardinality(Adds(batch', f)) = Cardinality(Adds(batch, f))
      BY <2>2, <2>4
    <3>5. /\ uploaded'[f] = uploaded[f] /\ created'[f] = created[f]
          /\ Cardinality(Adds(events', f)) = Cardinality(Adds(events, f))
      BY <2>1
    <3> HIDE DEF Sights
    <3> QED
      BY <1>0, <3>3, <3>4, <3>5 DEF Account
  <2> QED
    BY <2>3, <2>4
<1>8. CASE GetAll
  <2>1. /\ ppc = "get_all" /\ ppc' = "clear" /\ tree' = tree /\ files' \subseteq tree
        /\ UNCHANGED <<events, batch, created, uploaded>>
    BY <1>8 DEF GetAll
  <2>2. Sights(f)' <= Sights(f)
    BY <2>1 DEF Sights, One
  <2> QED
    BY <1>0, <2>1, <2>2, FewerSights
<1>9. CASE Clear
  <2>1. /\ ppc = "clear" /\ ppc' = "send" /\ tree' = {} /\ files' = files
        /\ UNCHANGED <<events, batch, created, uploaded>>
    BY <1>9 DEF Clear
  <2>2. Sights(f)' <= Sights(f)
    BY <2>1 DEF Sights, One
  <2> QED
    BY <1>0, <2>1, <2>2, FewerSights
<1>10. CASE SendDone \/ \E g \in Files : PublishThrows(g)
  <2>1. /\ ppc = "send" /\ ppc' # "clear" /\ tree' = tree /\ files' = {}
        /\ UNCHANGED <<events, batch, created, uploaded>>
    BY <1>10 DEF SendDone, PublishThrows
  <2>2. Sights(f)' <= Sights(f)
    BY <2>1 DEF Sights, One
  <2> QED
    BY <1>0, <2>1, <2>2, FewerSights
<1>11. ASSUME NEW g \in Files, PublishPayload(g) PROVE Account(f)'
  <2>1. /\ ppc = "send" /\ ppc' = ppc /\ tree' = tree /\ g \in files /\ files' = files \ {g}
        /\ UNCHANGED <<events, batch, created>>
    BY <1>11 DEF PublishPayload
  <2>2. uploaded'[f] <= IF g = f THEN uploaded[f] + 1 ELSE uploaded[f]
    <3>1. uploaded' = uploaded \/ uploaded' = [uploaded EXCEPT ![g] = @ + 1]
      BY <1>11 DEF PublishPayload
    <3> QED
      BY <1>0, <3>1 DEF TypeOK, TypePayload
  <2>3. Sights(f)' = IF g = f THEN Sights(f) - 1 ELSE Sights(f)
    BY <2>1 DEF Sights, One
  <2>4. uploaded'[f] \in Nat
    BY <1>0 DEF TypeOK, TypePayload
  <2> HIDE DEF Sights
  <2> QED
    BY <1>0, <2>1, <2>2, <2>3, <2>4 DEF Account
<1>12. CASE UNCHANGED vars
  <2>1. Sights(f)' = Sights(f) /\ UNCHANGED <<events, batch, created, uploaded>>
    BY <1>12 DEF vars, Sights
  <2> QED
    BY <1>0, <2>1, FewerSights
<1> QED
  BY <1>1, <1>2, <1>3, <1>4, <1>5, <1>6, <1>7, <1>8, <1>9, <1>10, <1>11, <1>12
     DEF Next, Directory, Loop, Payload, IInv

(* For any files and any number of changes, a file is never uploaded more   *)
(* often than it appeared in the folder.                                    *)
THEOREM NoDoubleUpload == Spec => []UploadedAtMostOnce
<1>1. Init => IInv
  <2> SUFFICES ASSUME Init, NEW f \in Files PROVE Account(f)
    BY InitTypes DEF IInv
  <2>1. uploaded[f] = 0 /\ created[f] = 0 /\ Sights(f) = 0 /\ batch = << >> /\ events = << >>
    BY DEF Init, Sights, One
  <2> QED
    BY <2>1, AddsEmpty DEF Account
<1>2. IInv => UploadedAtMostOnce
  <2> SUFFICES ASSUME IInv, NEW f \in Files PROVE uploaded[f] <= created[f]
    BY DEF UploadedAtMostOnce
  <2> HIDE DEF Sights
  <2> QED
    BY AccountTypes DEF IInv, Account
<1> QED
  BY <1>1, <1>2, AccountStep, PTL DEF Spec

-----------------------------------------------------------------------------
(* What becomes of a file that stands in the folder: its upload, its place  *)
(* in the copy being sent, or an ADDED event that no REMOVED event follows, *)
(* or, when no REMOVED event is under way, its entry in the tree.           *)
NoRemoval(s, f) == \A i \in 1..Len(s) : s[i] # <<"removed", f>>

Survives(s, f) ==
  \E i \in 1..Len(s) :
    /\ s[i] = <<"added", f>>
    /\ \A j \in 1..Len(s) : j > i => s[j] # <<"removed", f>>

InTree(f) == f \in tree /\ NoRemoval(batch, f) /\ NoRemoval(events, f)

InBatch(f) == Survives(batch, f) /\ NoRemoval(events, f)

Followed(f) ==
  disk[f] # "absent" /\ lost = {} =>
    \/ uploaded[f] > 0
    \/ f \in files
    \/ InTree(f)
    \/ InBatch(f)
    \/ Survives(events, f)

FInv == TypeOK /\ NoStrandedFile /\ \A f \in Files : Followed(f)

LEMMA AppendOther ==
  ASSUME NEW s \in Seq(Events), NEW e \in Events, NEW f, e # <<"removed", f>>
  PROVE  /\ NoRemoval(s, f) => NoRemoval(Append(s, e), f)
         /\ Survives(s, f) => Survives(Append(s, e), f)
<1> DEFINE t == Append(s, e)
           n == Len(s) + 1
<1>1. /\ Len(s) \in Nat /\ Len(t) = n /\ t[n] = e /\ n \notin 1..Len(s)
      /\ \A i \in 1..Len(s) : t[i] = s[i]
  BY AppendProperties, LenProperties
<1>2. \A i : i \in 1..Len(t) <=> i \in 1..Len(s) \/ i = n
  BY <1>1
<1> HIDE DEF t, n
<1>3. NoRemoval(s, f) => NoRemoval(t, f)
  BY <1>1, <1>2 DEF NoRemoval
<1>4. Survives(s, f) => Survives(t, f)
  <2> SUFFICES ASSUME NEW i \in 1..Len(s), s[i] = <<"added", f>>,
                      \A j \in 1..Len(s) : j > i => s[j] # <<"removed", f>>
               PROVE  Survives(t, f)
    BY DEF Survives
  <2>1. t[i] = <<"added", f>> /\ i \in 1..Len(t)
    BY <1>1, <1>2
  <2>2. \A j \in 1..Len(t) : j > i => t[j] # <<"removed", f>>
    BY <1>1, <1>2
  <2> QED
    BY <2>1, <2>2 DEF Survives
<1> QED
  BY <1>3, <1>4 DEF t

LEMMA AppendAdded ==
  ASSUME NEW s \in Seq(Events), NEW f \in Files
  PROVE  Survives(Append(s, <<"added", f>>), f)
<1> DEFINE e == <<"added", f>>
           t == Append(s, e)
           n == Len(s) + 1
<1>1. e \in Events
  BY DEF Events
<1>2. Len(s) \in Nat /\ Len(t) = n /\ t[n] = e
  BY <1>1, AppendProperties, LenProperties
<1>3. n \in 1..Len(t) /\ \A j \in 1..Len(t) : ~(j > n)
  BY <1>2
<1> HIDE DEF t, n
<1> QED
  BY <1>2, <1>3 DEF Survives, t

LEMMA EmptyBuffer == \A f : NoRemoval(<< >>, f) /\ ~Survives(<< >>, f)
  BY DEF NoRemoval, Survives

LEMMA TailFollows ==
  ASSUME NEW s \in Seq(Events), s # << >>, NEW f
  PROVE  /\ NoRemoval(s, f) => NoRemoval(Tail(s), f) /\ Head(s) # <<"removed", f>>
         /\ Survives(s, f) => \/ Survives(Tail(s), f)
                              \/ Head(s) = <<"added", f>> /\ NoRemoval(Tail(s), f)
<1> DEFINE t == Tail(s)
<1>1. /\ Len(s) \in Nat \ {0} /\ Len(t) = Len(s) - 1 /\ Head(s) = s[1]
      /\ \A i \in 1..Len(t) : t[i] = s[i + 1]
  BY HeadTailProperties, LenProperties, EmptySeq
<1>2. \A i \in 1..Len(t) : i + 1 \in 1..Len(s) /\ i + 1 > 1
  BY <1>1
<1>3. 1 \in 1..Len(s)
  BY <1>1
<1>4. \A i \in 1..Len(s) : i = 1 \/ (i - 1 \in 1..Len(t) /\ t[i - 1] = s[i])
  BY <1>1
<1> HIDE DEF t
<1>5. NoRemoval(s, f) => NoRemoval(t, f) /\ Head(s) # <<"removed", f>>
  BY <1>1, <1>2, <1>3 DEF NoRemoval
<1>6. ASSUME NEW i \in 1..Len(s), s[i] = <<"added", f>>,
             \A j \in 1..Len(s) : j > i => s[j] # <<"removed", f>>
      PROVE  \/ Survives(t, f)
             \/ Head(s) = <<"added", f>> /\ NoRemoval(t, f)
  <2>1. CASE i = 1
    BY <1>1, <1>2, <1>6, <2>1 DEF NoRemoval
  <2>2. CASE i # 1
    <3>1. i - 1 \in 1..Len(t) /\ t[i - 1] = <<"added", f>>
      BY <1>4, <1>6, <2>2
    <3>2. \A j \in 1..Len(t) : j > i - 1 => t[j] # <<"removed", f>>
      <4> SUFFICES ASSUME NEW j \in 1..Len(t), j > i - 1 PROVE t[j] # <<"removed", f>>
        OBVIOUS
      <4>1. j + 1 \in 1..Len(s) /\ j + 1 > i /\ t[j] = s[j + 1]
        BY <1>1
      <4> QED
        BY <4>1, <1>6
    <3> QED
      BY <3>1, <3>2 DEF Survives
  <2> QED
    BY <2>1, <2>2
<1> QED
  BY <1>5, <1>6 DEF Survives, t

(* Every step keeps track of every file. *)
LEMMA FollowedStep ==
  ASSUME FInv, [Next]_vars
  PROVE  FInv'
<1>0. TypeOK /\ TypeOK' /\ NoStrandedFile'
  BY TypeStep, StrandedStep DEF FInv
<1> USE DEF directory, loop, sleep, payload
<1>1. ASSUME NEW f \in Files PROVE Followed(f)'
  <2>0. Followed(f)
    BY DEF FInv
  <2> SUFFICES ASSUME disk'[f] # "absent", lost' = {}
               PROVE  \/ uploaded'[f] > 0 \/ f \in files' \/ InTree(f)'
                      \/ InBatch(f)' \/ Survives(events', f)
    BY DEF Followed
  <2>1. ASSUME NEW g \in Files, CreateFile(g) PROVE Followed(f)'
    <3>1. /\ events' = Append(events, <<"added", g>>) /\ <<"added", g>> \in Events
          /\ events \in Seq(Events)
      BY <1>0, <2>1 DEF CreateFile, TypeOK, TypeDirectory, Events
    <3>2. CASE g = f
      BY <3>1, <3>2, AppendAdded DEF Followed
    <3>3. CASE g # f
      <4>1. disk'[f] = disk[f] /\ UNCHANGED <<batch, tree, files, uploaded, lost>>
        BY <1>0, <2>1, <3>3 DEF CreateFile, TypeOK, TypeDirectory
      <4>2. /\ NoRemoval(events, f) => NoRemoval(events', f)
            /\ Survives(events, f) => Survives(events', f)
        BY <3>1, AppendOther
      <4> QED
        BY <2>0, <4>1, <4>2 DEF Followed, InTree, InBatch
    <3> QED
      BY <3>2, <3>3
  <2>2. ASSUME NEW g \in Files, DeleteFile(g) PROVE Followed(f)'
    <3>1. /\ events' = Append(events, <<"removed", g>>) /\ <<"removed", g>> \in Events
          /\ events \in Seq(Events)
      BY <1>0, <2>2 DEF DeleteFile, TypeOK, TypeDirectory, Events
    <3>2. g # f
      BY <1>0, <2>2 DEF DeleteFile, TypeOK, TypeDirectory
    <3>3. disk'[f] = disk[f] /\ UNCHANGED <<batch, tree, files, uploaded, lost>>
      BY <1>0, <2>2, <3>2 DEF DeleteFile, TypeOK, TypeDirectory
    <3>4. /\ NoRemoval(events, f) => NoRemoval(events', f)
          /\ Survives(events, f) => Survives(events', f)
      BY <3>1, <3>2, AppendOther
    <3> QED
      BY <2>0, <3>3, <3>4 DEF Followed, InTree, InBatch
  <2>3. ASSUME NEW g \in Files, WriteFile(g) PROVE Followed(f)'
    <3>1. disk[g] = "empty" /\ UNCHANGED <<events, batch, tree, files, uploaded, lost>>
      BY <2>3 DEF WriteFile
    <3>2. disk'[f] # "absent" => disk[f] # "absent"
      BY <1>0, <2>3, <3>1 DEF WriteFile, TypeOK, TypeDirectory
    <3> QED
      BY <2>0, <3>1, <3>2 DEF Followed, InTree, InBatch
  <2>4. CASE PostOther \/ SleepWait \/ PayloadWait \/ CurrentCount \/ NotifyLock \/ NotifyPost
    BY <2>0, <2>4 DEF PostOther, SleepWait, PayloadWait, CurrentCount, NotifyLock, NotifyPost,
                      Followed, InTree, InBatch
  <2>5. ASSUME NEW running \in BOOLEAN, SleepDispatch(running) PROVE Followed(f)'
    <3>1. lost = {} /\ UNCHANGED <<disk, events, batch, tree, files, uploaded>>
      BY <2>5 DEF SleepDispatch
    <3> QED
      BY <2>0, <3>1 DEF Followed, InTree, InBatch
  <2>6. CASE TakeOverflow
    BY <2>6 DEF TakeOverflow
  <2>7. CASE TakeBatch
    <3>1. batch = << >> /\ batch' = events /\ events' = << >>
          /\ UNCHANGED <<disk, tree, files, uploaded, lost>>
      BY <1>0, <2>7 DEF TakeBatch, TypeOK, TypeLoop
    <3> QED
      BY <2>0, <3>1, EmptyBuffer DEF Followed, InTree, InBatch
  <2>8. CASE ParseNotifyInformation
    <3>1. /\ batch # << >> /\ batch' = Tail(batch) /\ batch \in Seq(Events)
          /\ UNCHANGED <<disk, events, files, uploaded, lost>>
      BY <1>0, <2>8 DEF ParseNotifyInformation, TypeOK, TypeLoop
    <3>2. /\ NoRemoval(batch, f) => NoRemoval(batch', f) /\ Head(batch) # <<"removed", f>>
          /\ Survives(batch, f) => \/ Survives(batch', f)
                                   \/ Head(batch) = <<"added", f>> /\ NoRemoval(batch', f)
      BY <3>1, TailFollows
    <3>3. Head(batch) = <<"added", f>> => f \in tree'
      BY <2>8, <3>1 DEF ParseNotifyInformation
    <3>4. Head(batch) # <<"removed", f>> /\ f \in tree => f \in tree'
      <4>1. Head(batch) \in Events
        BY <3>1, HeadTailProperties
      <4>2. Head(batch) = <<Head(batch)[1], Head(batch)[2]>>
        BY <4>1 DEF Events
      <4> QED
        BY <2>8, <4>2 DEF ParseNotifyInformation
    <3> QED
      BY <2>0, <3>1, <3>2, <3>3, <3>4 DEF Followed, InTree, InBatch
  <2>9. CASE GetAll
    <3>1. /\ files = {} /\ files' = {g \in tree : disk[g] # "absent"}
          /\ UNCHANGED <<disk, events, batch, tree, uploaded, lost>>
      BY <1>0, <2>9 DEF GetAll, TypeOK, TypePayload
    <3> QED
      BY <2>0, <3>1 DEF Followed, InTree, InBatch
  <2>10. CASE Clear
    <3>1. /\ UNCHANGED <<disk, events, batch, files, uploaded>>
          /\ lost = {} /\ ~ \E g \in tree \ files : disk[g] # "absent"
      BY <2>10 DEF Clear
    <3> QED
      BY <2>0, <3>1 DEF Followed, InTree, InBatch
  <2>11. ASSUME NEW g \in Files, PublishPayload(g) PROVE Followed(f)'
    <3>1. /\ UNCHANGED <<disk, events, batch, tree>> /\ files' = files \ {g}
          /\ disk[g] \in {"full", "empty"} /\ g \in Files
      BY <1>0, <2>11 DEF PublishPayload, TypeOK, TypeDirectory
    <3>2. lost = {} /\ disk[g] = "full" /\ uploaded' = [uploaded EXCEPT ![g] = @ + 1]
      BY <2>11 DEF PublishPayload
    <3>3. uploaded'[f] = IF g = f THEN uploaded[f] + 1 ELSE uploaded[f]
      BY <1>0, <3>2 DEF TypeOK, TypePayload
    <3>4. uploaded[f] \in Nat
      BY <1>0 DEF TypeOK, TypePayload
    <3> QED
      BY <2>0, <3>1, <3>2, <3>3, <3>4 DEF Followed, InTree, InBatch
  <2>12. ASSUME NEW g \in Files, PublishThrows(g) PROVE Followed(f)'
    <3>1. /\ UNCHANGED <<disk, events, batch, tree, uploaded>> /\ disk[g] = "absent"
          /\ files = {g} /\ lost = {}
      BY <2>12 DEF PublishThrows
    <3> QED
      BY <2>0, <3>1 DEF Followed, InTree, InBatch
  <2>13. CASE SendDone \/ UNCHANGED vars
    BY <2>0, <2>13 DEF SendDone, vars, Followed, InTree, InBatch
  <2> QED
    BY <2>1, <2>2, <2>3, <2>4, <2>5, <2>6, <2>7, <2>8, <2>9, <2>10, <2>11, <2>12, <2>13
       DEF Next, Directory, Loop, Sleep, Payload, Followed
<1> QED
  BY <1>0, <1>1 DEF FInv

(* For any files and any number of changes: every file that stands complete *)
(* in the folder when all is quiet has been uploaded, unless one of the     *)
(* losses named in lost occurred.                                           *)
THEOREM AllNewFilesUploaded == Spec => []NewFilesUploaded
<1>1. Init => FInv
  <2> SUFFICES ASSUME Init PROVE FInv
    OBVIOUS
  <2>1. TypeOK
    BY InitTypes
  <2>2. NoStrandedFile /\ \A f \in Files : Followed(f)
    BY DEF Init, NoStrandedFile, Followed
  <2> QED
    BY <2>1, <2>2 DEF FInv
<1>2. FInv /\ [Next]_vars => FInv'
  BY FollowedStep
<1>3. FInv => NewFilesUploaded
  <2> SUFFICES ASSUME FInv, Quiet, lost = {}, NEW f \in Files, disk[f] = "full"
               PROVE  uploaded[f] > 0
    BY DEF NewFilesUploaded, AllUploaded
  <2>1. batch = << >> /\ events = << >> /\ files = {} /\ sreason = "none"
    BY DEF FInv, TypeOK, TypeLoop, TypeSleep, TypePayload, Quiet
  <2>2. tree = {}
    BY <2>1 DEF FInv, NoStrandedFile, Quiet
  <2> QED
    BY <2>1, <2>2, EmptyBuffer DEF FInv, Followed, InTree, InBatch
<1> QED
  BY <1>1, <1>2, <1>3, PTL DEF Spec

-----------------------------------------------------------------------------
(* How far a file in the tree is from being collected.  The notification    *)
(* is with the payload thread, or on its way through the reason signal and  *)
(* the SleepThread, or still with the loop thread: the foremost one counts. *)
PayloadHolds == flag \/ ppc \in {"get_all", "clear"}
SleepHolds == "send_payload" \in {slot, sreason}

(* The steps of that thread, and of the ones after it, until the tree is    *)
(* emptied: a payload thread that is busy has the files in hand to send     *)
(* first, a SleepThread another reason, a loop thread the rest of a batch.  *)
PayloadDistance ==
  IF ppc = "clear" THEN 1 ELSE IF ppc = "get_all" THEN 2 ELSE IF ppc = "wait" THEN 3
  ELSE 4 + Cardinality(files)
SleepDistance ==
  (IF sreason = "send_payload" THEN 6 ELSE IF spc = "wait" THEN 7 ELSE 8) + Cardinality(files)
LoopDistance ==
  (IF lpc = "post" THEN 9 ELSE IF lpc = "notify" THEN 10 ELSE 11 + Len(batch)) + Cardinality(files)
Distance ==
  IF PayloadHolds THEN PayloadDistance ELSE IF SleepHolds THEN SleepDistance ELSE LoopDistance

(* While files stay in the tree, in a service that is not paused, no step   *)
(* of any thread and no change of the directory takes them further from     *)
(* their collection, and every step of the thread that has the notification *)
(* brings it closer.                                                        *)
TreeComesCloser ==
  [][tree # {} /\ tree' # {} /\ "reason" \notin lost' =>
       /\ Distance' <= Distance
       /\ PayloadHolds /\ Payload => Distance' < Distance
       /\ ~PayloadHolds /\ SleepHolds /\ Sleep => Distance' < Distance
       /\ ~PayloadHolds /\ ~SleepHolds /\ Loop => Distance' < Distance]_vars

(* Files may be infinite, the tree and the files in hand never are.         *)
FewFiles == IsFiniteSet(tree) /\ IsFiniteSet(files)

LEMMA FewFilesStep == TypeOK /\ FewFiles /\ [Next]_vars => FewFiles'
<1> SUFFICES ASSUME TypeOK, FewFiles, [Next]_vars PROVE FewFiles'
  OBVIOUS
<1> USE DEF FewFiles, directory, loop, sleep, payload
<1>1. CASE ParseNotifyInformation
  <2>1. files' = files /\ \E f : tree' \subseteq tree \cup {f}
    BY <1>1 DEF ParseNotifyInformation
  <2> QED
    BY <2>1, FS_AddElement, FS_Subset
<1>2. CASE GetAll \/ Clear \/ (\E f \in Files : PublishPayload(f) \/ PublishThrows(f)) \/ SendDone
  <2>1. tree' \subseteq tree /\ files' \subseteq tree \cup files
    BY <1>2 DEF GetAll, Clear, PublishPayload, PublishThrows, SendDone
  <2> QED
    BY <2>1, FS_Union, FS_Subset
<1>3. CASE UNCHANGED <<tree, files>>
  BY <1>3
<1> QED
  BY <1>1, <1>2, <1>3 DEF Next, Directory, Loop, Sleep, Payload, CreateFile, WriteFile, DeleteFile, PostOther,
    TakeBatch, TakeOverflow, CurrentCount, NotifyLock, NotifyPost, SleepWait, SleepDispatch, PayloadWait, vars

(* Where the threads may be, and that one of them has the notification.     *)
LEMMA DistanceFacts ==
  ASSUME TypeOK, NoStrandedFile, FewFiles
  PROVE  /\ ppc \in {"wait", "get_all", "clear", "send"} /\ lpc \in {"wait", "parse", "notify", "post"}
         /\ spc \in {"wait", "dispatch"} /\ (spc = "wait" => sreason # "send_payload")
         /\ Cardinality(files) \in Nat /\ Len(batch) \in Nat
         /\ tree # {} /\ "reason" \notin lost /\ ~PayloadHolds /\ ~SleepHolds
              => lpc = "post" \/ (lpc \in {"parse", "notify"} /\ need)
<1>1. ppc \in {"wait", "get_all", "clear", "send"}
  BY DEF TypeOK, TypePayload
<1>2. lpc \in {"wait", "parse", "notify", "post"} /\ Len(batch) \in Nat
  BY DEF TypeOK, TypeLoop
<1>3. spc \in {"wait", "dispatch"} /\ (spc = "wait" => sreason # "send_payload")
  BY DEF TypeOK, TypeSleep
<1>4. Cardinality(files) \in Nat
  BY FS_CardinalityType DEF FewFiles
<1>5. tree # {} /\ "reason" \notin lost /\ ~PayloadHolds /\ ~SleepHolds
        => lpc = "post" \/ (lpc \in {"parse", "notify"} /\ need)
  <2> SUFFICES ASSUME tree # {}, "reason" \notin lost, ~PayloadHolds, ~SleepHolds, lpc # "post"
               PROVE  lpc \in {"parse", "notify"} /\ need
    OBVIOUS
  <2>1. ~flag /\ ppc \notin {"get_all", "clear"}
    BY DEF PayloadHolds
  <2>2. slot # "send_payload" /\ sreason # "send_payload"
    BY DEF SleepHolds
  <2> QED
    BY <2>1, <2>2 DEF NoStrandedFile
<1> QED
  BY <1>1, <1>2, <1>3, <1>4, <1>5

(* One thread at a time. *)
LEMMA PayloadCloser ==
  ASSUME TypeOK, NoStrandedFile, FewFiles, FewFiles', Payload, tree' # {}
  PROVE  Distance' <= Distance /\ (PayloadHolds => Distance' < Distance)
<1> USE DEF directory, loop, sleep, payload
<1>t. /\ ppc \in {"wait", "get_all", "clear", "send"} /\ Cardinality(files) \in Nat /\ Len(batch) \in Nat
  BY DistanceFacts
<1>1. CASE PayloadWait
  <2>1. PayloadHolds /\ PayloadHolds' /\ ppc = "wait" /\ ppc' = "get_all"
    BY <1>1 DEF PayloadWait, PayloadHolds
  <2> QED
    BY <2>1 DEF Distance, PayloadDistance
<1>2. CASE GetAll
  <2>1. PayloadHolds /\ PayloadHolds' /\ ppc = "get_all" /\ ppc' = "clear"
    BY <1>2 DEF GetAll, PayloadHolds
  <2> QED
    BY <2>1 DEF Distance, PayloadDistance
<1>3. ~Clear
  BY DEF Clear
<1>4. CASE SendDone
  <2>1. UNCHANGED <<SleepDistance, LoopDistance, PayloadHolds, SleepHolds>>
    BY <1>4 DEF SendDone, SleepDistance, LoopDistance, PayloadHolds, SleepHolds
  <2>2. PayloadDistance' < PayloadDistance
    BY <1>4, <1>t DEF SendDone, PayloadDistance
  <2>3. SleepDistance \in Nat /\ LoopDistance \in Nat /\ PayloadDistance \in Nat /\ PayloadDistance' \in Nat
    BY <1>4, <1>t DEF SendDone, SleepDistance, LoopDistance, PayloadDistance
  <2> QED
    BY <2>1, <2>2, <2>3 DEF Distance
<1>5. ASSUME NEW f \in Files, PublishPayload(f) \/ PublishThrows(f)
      PROVE  Distance' <= Distance /\ (PayloadHolds => Distance' < Distance)
  <2>1. /\ files' \subseteq files /\ files' # files
        /\ ppc = "send" /\ ppc' = ppc /\ UNCHANGED <<flag, slot, spc, sreason, lpc, batch>>
    BY <1>5 DEF PublishPayload, PublishThrows
  <2>2. Cardinality(files') < Cardinality(files) /\ Cardinality(files') \in Nat
    BY <2>1, FS_Subset, FS_CardinalityType DEF FewFiles
  <2>3. UNCHANGED <<PayloadHolds, SleepHolds>>
    BY <2>1 DEF PayloadHolds, SleepHolds
  <2>4. PayloadDistance' < PayloadDistance
    BY <2>1, <2>2, <1>t DEF PayloadDistance
  <2>5. SleepDistance' < SleepDistance
    BY <2>1, <2>2, <1>t DEF SleepDistance
  <2>6. LoopDistance' < LoopDistance
    BY <2>1, <2>2, <1>t DEF LoopDistance
  <2>7. /\ SleepDistance \in Nat /\ LoopDistance \in Nat /\ PayloadDistance \in Nat
    BY <1>t DEF SleepDistance, LoopDistance, PayloadDistance
  <2>8. Len(batch') \in Nat
    BY <2>1, <1>t
  <2>9. SleepDistance' \in Nat /\ LoopDistance' \in Nat /\ PayloadDistance' \in Nat
    BY <2>2, <2>8 DEF SleepDistance, LoopDistance, PayloadDistance
  <2> QED
    BY <2>3, <2>4, <2>5, <2>6, <2>7, <2>9 DEF Distance
<1> QED
  BY <1>1, <1>2, <1>3, <1>4, <1>5 DEF Payload

LEMMA SleepCloser ==
  ASSUME TypeOK, NoStrandedFile, FewFiles, Sleep, "reason" \notin lost'
  PROVE  Distance' <= Distance /\ (~PayloadHolds /\ SleepHolds => Distance' < Distance)
<1> USE DEF directory, loop, sleep, payload
<1>t. /\ ppc \in {"wait", "get_all", "clear", "send"} /\ Cardinality(files) \in Nat /\ Len(batch) \in Nat
      /\ spc \in {"wait", "dispatch"} /\ (spc = "wait" => sreason # "send_payload")
  BY DistanceFacts
<1>u. UNCHANGED <<ppc, files, lpc, batch>>
  BY DEF Sleep, SleepWait, SleepDispatch
<1>v. UNCHANGED <<PayloadDistance, LoopDistance>>
  BY <1>u DEF PayloadDistance, LoopDistance
<1>n. /\ SleepDistance \in Nat /\ LoopDistance \in Nat /\ PayloadDistance \in Nat
      /\ PayloadDistance <= 4 + Cardinality(files) /\ SleepDistance >= 6 + Cardinality(files)
  <2>1. SleepDistance \in Nat /\ SleepDistance >= 6 + Cardinality(files)
    BY <1>t DEF SleepDistance
  <2>2. LoopDistance \in Nat
    BY <1>t DEF LoopDistance
  <2>3. PayloadDistance \in Nat /\ PayloadDistance <= 4 + Cardinality(files)
    BY <1>t DEF PayloadDistance
  <2> QED
    BY <2>1, <2>2, <2>3
<1>1. CASE SleepWait
  <2>1. /\ UNCHANGED <<PayloadHolds, SleepHolds>>
    BY <1>1, <1>t DEF SleepWait, PayloadHolds, SleepHolds
  <2>2. SleepHolds => SleepDistance' < SleepDistance
    BY <1>1, <1>t DEF SleepWait, SleepHolds, SleepDistance
  <2>3. SleepDistance' \in Nat
    BY <1>1, <1>t DEF SleepWait, SleepDistance
  <2> QED
    BY <1>n, <1>v, <2>1, <2>2, <2>3 DEF Distance
<1>2. ASSUME NEW running \in BOOLEAN, SleepDispatch(running)
      PROVE  Distance' <= Distance /\ (~PayloadHolds /\ SleepHolds => Distance' < Distance)
  <2>1. CASE sreason = "send_payload"
    <3>1. running
      BY <1>2, <2>1 DEF SleepDispatch
    <3>2. PayloadHolds'
      BY <1>2, <2>1, <3>1 DEF SleepDispatch, PayloadHolds
    <3>3. PayloadDistance <= 4 + Cardinality(files)
      BY <1>t DEF PayloadDistance
    <3>4. CASE PayloadHolds
      BY <1>n, <1>v, <3>2, <3>4 DEF Distance
    <3>5. CASE ~PayloadHolds
      <4>1. SleepHolds /\ Distance = SleepDistance /\ Distance' = PayloadDistance'
        BY <2>1, <3>2, <3>5 DEF SleepHolds, Distance
      <4> QED
        BY <1>n, <1>v, <1>t, <4>1
    <3> QED
      BY <3>4, <3>5
  <2>2. CASE sreason # "send_payload"
    <3>1. flag' = flag /\ slot' = slot /\ spc = "dispatch" /\ spc' = "wait" /\ sreason' = "none"
      <4>1. sreason' = "none" /\ slot' = slot /\ spc = "dispatch" /\ spc' = "wait"
        BY <1>2 DEF SleepDispatch
      <4>2. flag' = flag
        BY <1>2, <2>2 DEF SleepDispatch, TypeOK, TypeSleep
      <4> QED
        BY <4>1, <4>2
    <3>2. UNCHANGED <<PayloadHolds, SleepHolds>>
      BY <3>1, <1>u, <2>2 DEF PayloadHolds, SleepHolds
    <3>3. SleepDistance' < SleepDistance /\ SleepDistance' \in Nat
      BY <3>1, <1>u, <1>t, <2>2 DEF SleepDistance
    <3> QED
      BY <1>n, <1>v, <3>2, <3>3 DEF Distance
  <2> QED
    BY <2>1, <2>2
<1> QED
  BY <1>1, <1>2 DEF Sleep

LEMMA LoopCloser ==
  ASSUME TypeOK, NoStrandedFile, FewFiles, Loop, tree # {}, tree' # {}, "reason" \notin lost'
  PROVE  Distance' <= Distance /\ (~PayloadHolds /\ ~SleepHolds => Distance' < Distance)
<1> USE DEF directory, loop, sleep, payload
<1>t. /\ lpc \in {"wait", "parse", "notify", "post"} /\ Cardinality(files) \in Nat /\ Len(batch) \in Nat
      /\ spc \in {"wait", "dispatch"}
      /\ "reason" \notin lost /\ ~PayloadHolds /\ ~SleepHolds
           => lpc = "post" \/ (lpc \in {"parse", "notify"} /\ need)
  BY DistanceFacts
<1>u. UNCHANGED <<ppc, files, spc, sreason, flag, lost>>
  BY DEF Loop, TakeBatch, ParseNotifyInformation, CurrentCount, NotifyLock, NotifyPost
<1>v. UNCHANGED <<PayloadDistance, PayloadHolds, SleepDistance>>
  BY <1>u DEF PayloadDistance, PayloadHolds, SleepDistance
<1>n. /\ SleepDistance \in Nat /\ LoopDistance \in Nat /\ PayloadDistance \in Nat
      /\ SleepDistance <= 8 + Cardinality(files) /\ LoopDistance >= 9 + Cardinality(files)
  <2>1. ppc \in {"wait", "get_all", "clear", "send"}
    BY DistanceFacts
  <2>2. SleepDistance \in Nat /\ SleepDistance <= 8 + Cardinality(files)
    BY <1>t DEF SleepDistance
  <2>3. LoopDistance \in Nat /\ LoopDistance >= 9 + Cardinality(files)
    BY <1>t DEF LoopDistance
  <2>4. PayloadDistance \in Nat
    BY <1>t, <2>1 DEF PayloadDistance
  <2> QED
    BY <2>2, <2>3, <2>4
<1>1. CASE PayloadHolds
  BY <1>1, <1>v, <1>n DEF Distance
<1>2. CASE ~PayloadHolds /\ SleepHolds
  <2>1. SleepHolds'
    BY <1>2, <1>u DEF SleepHolds, Loop, TakeBatch, ParseNotifyInformation, CurrentCount, NotifyLock, NotifyPost
  <2> QED
    BY <1>2, <1>v, <1>n, <2>1 DEF Distance
<1>3. CASE ~PayloadHolds /\ ~SleepHolds
  <2>1. ~PayloadHolds' /\ Distance = LoopDistance
    BY <1>3, <1>v DEF Distance
  <2>2. lpc = "post" \/ (lpc \in {"parse", "notify"} /\ need)
    BY <1>3, <1>t, <1>u
  <2>3. CASE NotifyPost
    <3>1. SleepHolds' /\ lpc = "post"
      BY <2>3 DEF NotifyPost, SleepHolds
    <3>2. Distance' = SleepDistance
      BY <1>v, <2>1, <3>1 DEF Distance
    <3> QED
      BY <1>n, <1>t, <2>1, <3>2
  <2>4. CASE ~NotifyPost
    <3>1. ~SleepHolds' /\ Distance' = LoopDistance'
      <4>1. slot' = slot
        BY <2>4 DEF Loop, TakeBatch, ParseNotifyInformation, CurrentCount, NotifyLock
      <4>2. ~SleepHolds'
        BY <1>3, <1>u, <4>1 DEF SleepHolds
      <4> QED
        BY <2>1, <4>2 DEF Distance
    <3>2. LoopDistance' < LoopDistance
      <4>1. ~TakeBatch
        BY <2>2 DEF TakeBatch
      <4>2. CASE ParseNotifyInformation
        <5>1. lpc = "parse" /\ lpc' = "parse" /\ Len(batch') = Len(batch) - 1
          BY <4>2 DEF ParseNotifyInformation, TypeOK, TypeLoop
        <5> QED
          BY <1>t, <1>u, <5>1 DEF LoopDistance
      <4>3. CASE CurrentCount
        <5>1. lpc = "parse" /\ lpc' = "notify"
          BY <2>2, <4>3 DEF CurrentCount
        <5> QED
          BY <1>t, <1>u, <5>1 DEF LoopDistance
      <4>4. CASE NotifyLock
        <5>1. lpc = "notify" /\ lpc' = "post"
          BY <4>4 DEF NotifyLock
        <5> QED
          BY <1>t, <1>u, <5>1 DEF LoopDistance
      <4> QED
        BY <2>4, <4>1, <4>2, <4>3, <4>4 DEF Loop
    <3>3. LoopDistance' \in Nat
      <4>1. Len(batch') \in Nat
        BY <2>4, <1>t DEF Loop, TakeBatch, ParseNotifyInformation, CurrentCount, NotifyLock, TypeOK, TypeLoop, TypeDirectory
      <4> QED
        BY <4>1, <1>u, <1>t DEF LoopDistance
    <3> QED
      BY <2>1, <3>1, <3>2, <3>3, <1>n
  <2> QED
    BY <2>3, <2>4
<1> QED
  BY <1>1, <1>2, <1>3

(* The directory, the other reasons and a lost buffer. *)
LEMMA OthersCloser ==
  ASSUME TypeOK, NoStrandedFile, FewFiles, Directory \/ PostOther \/ TakeOverflow \/ UNCHANGED vars
  PROVE  Distance' <= Distance
<1> USE DEF directory, loop, sleep, payload
<1>t. /\ Cardinality(files) \in Nat /\ Len(batch) \in Nat
  BY DistanceFacts
<1>u. /\ UNCHANGED <<ppc, files, spc, sreason, flag, lpc, batch>>
      /\ slot' = "send_payload" <=> slot = "send_payload"
  BY DEF Directory, CreateFile, WriteFile, DeleteFile, PostOther, TakeOverflow, vars
<1>v. UNCHANGED <<PayloadHolds, SleepHolds, PayloadDistance, SleepDistance, LoopDistance>>
  BY <1>u DEF PayloadHolds, SleepHolds, PayloadDistance, SleepDistance, LoopDistance
<1>n. SleepDistance \in Nat /\ LoopDistance \in Nat /\ PayloadDistance \in Nat
  BY <1>t DEF SleepDistance, LoopDistance, PayloadDistance
<1> QED
  BY <1>v, <1>n DEF Distance

LEMMA CloserStep ==
  ASSUME TypeOK, NoStrandedFile, FewFiles, FewFiles', [Next]_vars,
         tree # {}, tree' # {}, "reason" \notin lost'
  PROVE  /\ Distance' <= Distance
         /\ PayloadHolds /\ Payload => Distance' < Distance
         /\ ~PayloadHolds /\ SleepHolds /\ Sleep => Distance' < Distance
         /\ ~PayloadHolds /\ ~SleepHolds /\ Loop => Distance' < Distance
  BY PayloadCloser, SleepCloser, LoopCloser, OthersCloser DEF Next

(* A file in the tree comes closer to its collection, for any files, any    *)
(* changes of the directory, any other reasons and any order of the steps.  *)
THEOREM TreesComeCloser == Spec => [](tree # {} => Distance \in Nat) /\ TreeComesCloser
<1>1. Init => FewFiles
  BY FS_EmptySet DEF Init, FewFiles
<1>2. Spec => []FewFiles
  BY <1>1, FewFilesStep, TypeCorrect, PTL DEF Spec
<1>3. TypeOK /\ NoStrandedFile /\ FewFiles => (tree # {} => Distance \in Nat)
  <2> SUFFICES ASSUME TypeOK, NoStrandedFile, FewFiles PROVE Distance \in Nat
    OBVIOUS
  <2>1. Cardinality(files) \in Nat /\ Len(batch) \in Nat
    BY DistanceFacts
  <2> QED
    BY <2>1 DEF Distance, PayloadDistance, SleepDistance, LoopDistance
<1>4. TypeOK /\ NoStrandedFile /\ FewFiles /\ FewFiles' /\ [Next]_vars =>
        [tree # {} /\ tree' # {} /\ "reason" \notin lost' =>
           /\ Distance' <= Distance
           /\ PayloadHolds /\ Payload => Distance' < Distance
           /\ ~PayloadHolds /\ SleepHolds /\ Sleep => Distance' < Distance
           /\ ~PayloadHolds /\ ~SleepHolds /\ Loop => Distance' < Distance]_vars
  BY CloserStep
<1> QED
  BY <1>2, <1>3, <1>4, TypeCorrect, NothingStranded, PTL DEF Spec, TreeComesCloser

==============================================================================
