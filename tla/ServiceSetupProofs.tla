-------------------------- MODULE ServiceSetupProofs --------------------------
(***************************************************************************)
(* The theorems of ServiceSetup, for any number of controllers, clicks and *)
(* faults: its types, and that the buttons, the status line and what is    *)
(* installed agree with the service unless the model says what happened.   *)
(*                                                                         *)
(* None of the three is inductive: they speak of a dialog at rest, and     *)
(* what a handler leaves behind rests on what it has found out in its      *)
(* earlier calls.  SInv says what a controller in the middle of a handler  *)
(* knows.  Its step has two halves.  A handler's own controller is         *)
(* followed call by call (the Own lemmas).  The others need no such thing: *)
(* a controller that nobody has disturbed is the only one at work (Alone), *)
(* so that a handler's step finds every other controller closed or         *)
(* disturbed, of which SInv says nothing, and leaves it so (StepFrame).    *)
(*                                                                         *)
(* And of ArchiveReader, which extracts what is installed, for archives of *)
(* any number of members and blocks: its types, that the files it leaves   *)
(* are whole, that none is missed, and that the reader comes to an end.    *)
(***************************************************************************)
EXTENDS ServiceSetup, ArchiveReader, TLAPS

(* The types, in the parts that an action changes together. *)
Places == {"expand", "create", "open", "launch", "starting", "query", "wait pending", "control",
           "told", "wait stopped", "exists", "delete", "remove"}
Names == {"fault", "timeout", "other", "start failed", "stop failed", "create failed"}

TypeManager ==
  /\ state \in {"stopped", "start_pending", "stop_pending", "running", "continue_pending",
                "pause_pending", "paused"}
  /\ told \in BOOLEAN /\ files \in BOOLEAN
  /\ entry \in {"absent", "present", "marked"} /\ (entry = "absent" => state = "stopped")

TypePlace ==
  /\ pc \in [Controllers -> Places \cup {"closed", "idle"}]
  /\ job \in [Controllers -> Jobs \cup {"none"}]
  /\ \A c \in Controllers : job[c] = "none" <=> pc[c] \in {"closed", "idle"}

TypeHandles == inner \in [Controllers -> BOOLEAN] /\ leaked \in [Controllers -> BOOLEAN]

TypeShown ==
  /\ button \in [Controllers -> {"install", "uninstall"}] /\ links \in [Controllers -> BOOLEAN]
  /\ text \in [Controllers -> {"none", "running", "stopped", "uninstalled", "failed"}]

TypeCounts == clicks \in 0..MaxClicks /\ faults \in 0..MaxFaults
TypeTrouble == trouble \in [Controllers -> SUBSET Names]
TypeTorn == torn \subseteq {"unwritten", "not deleted", "under install"}

TInv == /\ TypeManager /\ TypePlace /\ TypeHandles /\ TypeShown /\ TypeCounts
        /\ TypeTrouble /\ TypeTorn

LEMMA TypesAreTInv == TypeOK <=> TInv
<1>1. Places \cup {"closed", "idle"} =
      {"closed", "idle", "expand", "create", "open", "launch", "starting", "query", "wait pending",
       "control", "told", "wait stopped", "exists", "delete", "remove"}
  BY DEF Places
<1>2. pc \in [Controllers -> Places \cup {"closed", "idle"}] =>
        \A c \in Controllers : c \notin Working <=> pc[c] \in {"closed", "idle"}
  BY DEF Working
<1> QED
  BY <1>1, <1>2
     DEF TypeOK, TInv, TypeManager, TypePlace, TypeHandles, TypeShown, TypeCounts, TypeTrouble,
                    TypeTorn, Names

(* What the common parts of the handlers do to them. *)
LEMMA GotoTypes ==
  ASSUME TypePlace, NEW c \in Controllers, NEW place \in Places, pc[c] \in Places,
         Goto(c, place), UNCHANGED job
  PROVE  TypePlace'
  BY DEF TypePlace, Goto, Places

LEMMA NamedTypes ==
  ASSUME TypeTrouble, NEW c \in Controllers, NEW names \in SUBSET Names, Named(c, names)
  PROVE  TypeTrouble'
  BY DEF TypeTrouble, Named

LEMMA ShowsTypes ==
  ASSUME TypeShown, NEW c \in Controllers, NEW b \in {"install", "uninstall"}, NEW l \in BOOLEAN,
         NEW t \in {"none", "running", "stopped", "uninstalled", "failed"}, Shows(c, b, l, t)
  PROVE  TypeShown'
  BY DEF TypeShown, Shows

LEMMA ShownNow ==
  ASSUME TypeShown, NEW c \in Controllers
  PROVE  /\ button[c] \in {"install", "uninstall"} /\ links[c] \in BOOLEAN
         /\ text[c] \in {"none", "running", "stopped", "uninstalled", "failed"}
  BY DEF TypeShown

LEMMA EndsTypes ==
  ASSUME TypePlace, TypeTrouble, NEW c \in Controllers, NEW names \in SUBSET Names, Ends(c, names)
  PROVE  TypePlace' /\ TypeTrouble'
<1>1. TypePlace'
  BY DEF TypePlace, Ends, Goto
<1> QED
  BY <1>1, NamedTypes DEF Ends

LEMMA NotStartedTypes ==
  ASSUME TypePlace, TypeShown, TypeTrouble, NEW c \in Controllers, NEW names \in SUBSET Names,
         NotStarted(c, names)
  PROVE  TypePlace' /\ TypeShown' /\ TypeTrouble'
<1>1. names \cup {"start failed"} \in SUBSET Names
  BY DEF Names
<1>2. TypeShown'
  BY ShowsTypes DEF NotStarted, TypeShown, shown
<1> QED
  BY <1>1, <1>2, EndsTypes DEF NotStarted

LEMMA StoppedTypes ==
  ASSUME TypePlace, TypeHandles, TypeShown, TypeTrouble, NEW c \in Controllers,
         NEW names \in SUBSET Names, pc[c] \in Places, Stopped(c, names), UNCHANGED leaked
  PROVE  TypePlace' /\ TypeHandles' /\ TypeShown' /\ TypeTrouble'
<1>1. TypeHandles'
  BY DEF TypeHandles, Stopped
<1>2. CASE inner[c]
  BY <1>1, <1>2, NotStartedTypes DEF Stopped
<1>3. CASE ~inner[c]
  <2>1. TypeShown'
    BY <1>3, ShownNow, ShowsTypes DEF Stopped
  <2>2. TypePlace' /\ TypeTrouble'
    BY <1>3, EndsTypes, GotoTypes, NamedTypes DEF Stopped, Places
  <2> QED
    BY <1>1, <2>1, <2>2
<1> QED
  BY <1>2, <1>3

LEMMA NotStoppedTypes ==
  ASSUME TypePlace, TypeHandles, TypeShown, TypeTrouble, NEW c \in Controllers,
         NEW names \in SUBSET Names, pc[c] \in Places, NotStopped(c, names), UNCHANGED leaked
  PROVE  TypePlace' /\ TypeHandles' /\ TypeShown' /\ TypeTrouble'
<1>1. TypeHandles'
  BY DEF TypeHandles, NotStopped
<1>2. names \cup {"stop failed"} \in SUBSET Names
  BY DEF Names
<1>3. CASE inner[c]
  BY <1>1, <1>3, NotStartedTypes DEF NotStopped
<1>4. CASE ~inner[c]
  <2>1. TypeShown'
    BY <1>4, ShownNow, ShowsTypes DEF NotStopped, shown, TypeShown
  <2>2. TypePlace' /\ TypeTrouble'
    BY <1>2, <1>4, EndsTypes, GotoTypes, NamedTypes DEF NotStopped, Places
  <2> QED
    BY <1>1, <2>1, <2>2
<1> QED
  BY <1>3, <1>4

LEMMA FaultTypes ==
  ASSUME TypeCounts, NEW happens \in BOOLEAN, Fault(happens), UNCHANGED clicks
  PROVE  TypeCounts'
  BY SetupAssumption DEF TypeCounts, Fault

LEMMA WhenNames == \A cond \in BOOLEAN, name \in Names : When(cond, name) \in SUBSET Names
  BY DEF When, Names

(* Every step keeps the types. *)
LEMMA TypeStep == TInv /\ [Next]_vars => TInv'
<1> SUFFICES ASSUME TInv, [Next]_vars PROVE TInv'
  OBVIOUS
<1> USE SetupAssumption DEF TInv, service, manager, shown
<1>1. ASSUME NEW c \in Controllers, Open(c) PROVE TInv'
  <2>1. TypePlace'
    BY <1>1 DEF Open, Goto, TypePlace
  <2>2. TypeShown'
    <3>1. Installed \in BOOLEAN
      BY DEF Installed, TypeManager
    <3>2. (IF Installed THEN "uninstall" ELSE "install") \in {"install", "uninstall"}
      BY <3>1
    <3>3. (IF Installed /\ state \in {"running", "stopped"} THEN state ELSE "none")
            \in {"none", "running", "stopped", "uninstalled", "failed"}
      BY <3>1
    <3> QED
      BY <1>1, <3>1, <3>2, <3>3, ShowsTypes DEF Open
  <2>3. TypeTrouble'
    BY <1>1, WhenNames DEF Open, TypeTrouble, Names, When
  <2>4. TypeManager' /\ TypeHandles' /\ TypeCounts' /\ TypeTorn'
    BY <1>1 DEF Open, TypeManager, TypeHandles, TypeCounts, TypeTorn
  <2> QED
    BY <2>1, <2>2, <2>3, <2>4
<1>2. ASSUME NEW c \in Controllers, Close(c) PROVE TInv'
  <2>1. TypePlace'
    BY <1>2 DEF Close, Goto, TypePlace
  <2>2. TypeShown'
    BY <1>2, ShowsTypes DEF Close
  <2>3. TypeTrouble'
    BY <1>2 DEF Close, TypeTrouble
  <2>4. TypeHandles'
    BY <1>2 DEF Close, TypeHandles
  <2>5. TypeManager' /\ TypeCounts' /\ TypeTorn'
    BY <1>2 DEF Close, TypeManager, TypeCounts, TypeTorn
  <2> QED
    BY <2>1, <2>2, <2>3, <2>4, <2>5
<1>3. ASSUME NEW c \in Controllers, NEW j \in Jobs, Click(c, j) PROVE TInv'
  <2>1. TypePlace'
    BY <1>3 DEF Click, Goto, Entrance, TypePlace, Places, Jobs
  <2>2. TypeTrouble'
    BY <1>3 DEF Click, TypeTrouble, Names, When
  <2>3. TypeCounts'
    BY <1>3 DEF Click, TypeCounts
  <2>4. TypeManager' /\ TypeHandles' /\ TypeShown' /\ TypeTorn'
    BY <1>3 DEF Click, TypeManager, TypeHandles, TypeShown, TypeTorn
  <2> QED
    BY <2>1, <2>2, <2>3, <2>4
<1>4. ASSUME NEW c \in Controllers, NEW ok \in BOOLEAN, OpenService(c, ok) PROVE TInv'
  <2>1. TypeManager'
    BY <1>4 DEF OpenService, TypeManager
  <2>2. TypeCounts'
    BY <1>4, FaultTypes DEF OpenService
  <2>3. TypeTorn'
    BY <1>4 DEF OpenService, TypeTorn
  <2>4. TypePlace' /\ TypeHandles' /\ TypeShown' /\ TypeTrouble'
    BY <1>4, NotStartedTypes, GotoTypes, WhenNames
       DEF OpenService, TypeHandles, TypeShown, TypeTrouble, Places, Names
  <2> QED
    BY <2>1, <2>2, <2>3, <2>4
<1>5. ASSUME NEW c \in Controllers, NEW ok \in BOOLEAN, StartService(c, ok) PROVE TInv'
  <2>1. TypeManager'
    BY <1>5 DEF StartService, TypeManager
  <2>2. TypeCounts'
    BY <1>5, FaultTypes DEF StartService
  <2>3. TypeTorn'
    BY <1>5 DEF StartService, TypeTorn
  <2>4. TypePlace' /\ TypeHandles' /\ TypeShown' /\ TypeTrouble'
    BY <1>5, NotStartedTypes, GotoTypes, WhenNames
       DEF StartService, TypeHandles, TypeShown, TypeTrouble, Places, Names
  <2> QED
    BY <2>1, <2>2, <2>3, <2>4
<1>6. ASSUME NEW c \in Controllers, NEW ok \in BOOLEAN, QueryService(c, ok) PROVE TInv'
  <2>1. TypeManager'
    BY <1>6 DEF QueryService, TypeManager
  <2>2. TypeCounts'
    BY <1>6, FaultTypes DEF QueryService
  <2>3. TypeTorn'
    BY <1>6 DEF QueryService, TypeTorn
  <2>4. TypePlace' /\ TypeHandles' /\ TypeShown' /\ TypeTrouble'
    BY <1>6, StoppedTypes, NotStoppedTypes, GotoTypes, WhenNames
       DEF QueryService, TypeHandles, TypeShown, TypeTrouble, Places, Names
  <2> QED
    BY <2>1, <2>2, <2>3, <2>4
<1>7. ASSUME NEW c \in Controllers, NEW ok \in BOOLEAN, ControlService(c, ok) PROVE TInv'
  <2>1. TypeManager'
    BY <1>7 DEF ControlService, Service!Tell, TypeManager
  <2>2. TypeCounts'
    BY <1>7, FaultTypes DEF ControlService
  <2>3. TypeTorn'
    BY <1>7 DEF ControlService, TypeTorn
  <2>4. TypePlace' /\ TypeHandles' /\ TypeShown' /\ TypeTrouble'
    BY <1>7, NotStoppedTypes, GotoTypes, WhenNames
       DEF ControlService, TypeHandles, TypeShown, TypeTrouble, Places, Names
  <2> QED
    BY <2>1, <2>2, <2>3, <2>4
<1>8. ASSUME NEW c \in Controllers, NEW ok \in BOOLEAN, ControlReturns(c, ok) PROVE TInv'
  <2>1. TypeManager'
    BY <1>8 DEF ControlReturns, TypeManager
  <2>2. TypeCounts'
    BY <1>8, FaultTypes DEF ControlReturns
  <2>3. TypeTorn'
    BY <1>8 DEF ControlReturns, TypeTorn
  <2>4. TypePlace' /\ TypeHandles' /\ TypeShown' /\ TypeTrouble'
    BY <1>8, StoppedTypes, NotStoppedTypes, GotoTypes, WhenNames
       DEF ControlReturns, TypeHandles, TypeShown, TypeTrouble, Places, Names
  <2> QED
    BY <2>1, <2>2, <2>3, <2>4
<1>9. ASSUME NEW c \in Controllers, NEW ok \in BOOLEAN, WaitStopped(c, ok) PROVE TInv'
  <2>1. TypeManager'
    BY <1>9 DEF WaitStopped, TypeManager
  <2>2. TypeCounts'
    BY <1>9, FaultTypes DEF WaitStopped
  <2>3. TypeTorn'
    BY <1>9 DEF WaitStopped, TypeTorn
  <2>4. TypePlace' /\ TypeHandles' /\ TypeShown' /\ TypeTrouble'
    BY <1>9, StoppedTypes, WhenNames DEF WaitStopped, Places, Names
  <2> QED
    BY <2>1, <2>2, <2>3, <2>4
<1>10. ASSUME NEW c \in Controllers, NEW ok \in BOOLEAN, ServiceExists(c, ok) PROVE TInv'
  <2>1. TypeManager'
    BY <1>10 DEF ServiceExists, TypeManager
  <2>2. TypeCounts'
    BY <1>10, FaultTypes DEF ServiceExists
  <2>3. TypeTorn'
    BY <1>10 DEF ServiceExists, TypeTorn
  <2>4. TypePlace' /\ TypeHandles' /\ TypeShown' /\ TypeTrouble'
    BY <1>10, EndsTypes, ShowsTypes, GotoTypes
       DEF ServiceExists, Uninstalled, TypeHandles, TypeShown, TypeTrouble, Places, Names
  <2> QED
    BY <2>1, <2>2, <2>3, <2>4
<1>11. ASSUME NEW c \in Controllers, NEW ok \in BOOLEAN, DeleteService(c, ok) PROVE TInv'
  <2>1. TypeManager'
    BY <1>11 DEF DeleteService, TypeManager
  <2>2. TypeCounts'
    BY <1>11, FaultTypes DEF DeleteService
  <2>3. TypeTorn'
    BY <1>11 DEF DeleteService, TypeTorn
  <2>4. TypePlace' /\ TypeHandles' /\ TypeShown' /\ TypeTrouble'
    BY <1>11, GotoTypes, NamedTypes
       DEF DeleteService, TypeHandles, TypeShown, TypeTrouble, Places, Names
  <2> QED
    BY <2>1, <2>2, <2>3, <2>4
<1>12. ASSUME NEW c \in Controllers, NEW ok \in BOOLEAN, NEW more \in BOOLEAN, Expand(c, ok,
    more) PROVE TInv'
  <2>1. TypeManager'
    BY <1>12 DEF Expand, TypeManager
  <2>2. TypeCounts'
    BY <1>12, FaultTypes DEF Expand
  <2>3. TypeTorn'
    BY <1>12 DEF Expand, TypeTorn, When
  <2>4. TypeHandles' /\ TypeShown'
    BY <1>12, ShowsTypes, ShownNow DEF Expand, TypeHandles, TypeShown
  <2>5. CASE ok
    <3>1. When(~files', "fault") \in SUBSET Names
      BY <2>1, WhenNames DEF Names, TypeManager
    <3> QED
      BY <1>12, <2>1, <2>2, <2>3, <2>4, <2>5, <3>1, GotoTypes, NamedTypes DEF Expand, Places
  <2>6. CASE ~ok
    BY <1>12, <2>1, <2>2, <2>3, <2>4, <2>6, EndsTypes DEF Expand, Names
  <2> QED
    BY <2>5, <2>6
<1>13. ASSUME NEW c \in Controllers, NEW more \in BOOLEAN, ExpandExits(c, more) PROVE TInv'
  <2>1. TypeManager'
    BY <1>13 DEF ExpandExits, TypeManager
  <2>2. TypeCounts'
    BY <1>13, FaultTypes DEF ExpandExits
  <2>3. TypeTorn'
    BY <1>13 DEF ExpandExits, TypeTorn
  <2>4. TypePlace' /\ TypeHandles' /\ TypeShown' /\ TypeTrouble'
    BY <1>13, ShowsTypes DEF ExpandExits, Goto, TypePlace, TypeHandles, TypeTrouble
  <2> QED
    BY <2>1, <2>2, <2>3, <2>4
<1>14. ASSUME NEW c \in Controllers, NEW ok \in BOOLEAN, NEW more \in BOOLEAN, CreateService(c, ok,
    more) PROVE TInv'
  <2>1. TypeManager'
    BY <1>14 DEF CreateService, TypeManager
  <2>2. TypeCounts'
    BY <1>14, FaultTypes DEF CreateService
  <2>3. TypeTorn'
    BY <1>14 DEF CreateService, TypeTorn
  <2>4. TypePlace' /\ TypeHandles' /\ TypeShown' /\ TypeTrouble'
    BY <1>14, EndsTypes, ShowsTypes, ShownNow, GotoTypes
       DEF CreateService, TypeHandles, TypeShown, TypeTrouble, Places, Names
  <2> QED
    BY <2>1, <2>2, <2>3, <2>4
<1>15. ASSUME NEW c \in Controllers, NEW ok \in BOOLEAN, NEW more \in BOOLEAN, WaitPending(c, ok,
    more) PROVE TInv'
  <2>1. TypeManager'
    BY <1>15 DEF WaitPending, TypeManager
  <2>2. TypeCounts'
    BY <1>15, FaultTypes DEF WaitPending
  <2>3. TypeTorn'
    BY <1>15 DEF WaitPending, TypeTorn
  <2>4. TypePlace' /\ TypeHandles' /\ TypeShown' /\ TypeTrouble'
    BY <1>15, StoppedTypes, NotStoppedTypes, GotoTypes, NamedTypes, WhenNames
       DEF WaitPending, TypeHandles, TypeShown, TypeTrouble, Places, Names
  <2> QED
    BY <2>1, <2>2, <2>3, <2>4
<1>16. ASSUME NEW c \in Controllers, NEW more \in BOOLEAN, NEW ok \in BOOLEAN, RemoveFiles(c, more,
    ok) PROVE TInv'
  <2>1. TypeManager'
    BY <1>16 DEF RemoveFiles, TypeManager, Fault
  <2>2. TypeCounts'
    BY <1>16, FaultTypes DEF RemoveFiles
  <2>3. TypeTorn'
    BY <1>16 DEF RemoveFiles, TypeTorn, When
  <2>4. TypePlace' /\ TypeHandles' /\ TypeShown' /\ TypeTrouble'
    BY <1>16, EndsTypes, ShowsTypes, WhenNames DEF RemoveFiles, Uninstalled, TypeHandles, Places, Names
  <2> QED
    BY <2>1, <2>2, <2>3, <2>4
<1>17. ASSUME NEW c \in Controllers, NEW ok \in BOOLEAN, NEW saved \in BOOLEAN,
    NEW timeout \in BOOLEAN, WaitStarted(c, ok, saved, timeout) PROVE TInv'
  <2>1. TypeManager'
    BY <1>17 DEF WaitStarted, TypeManager
  <2>2. TypeCounts'
    BY <1>17, FaultTypes DEF WaitStarted
  <2>3. TypeTorn'
    BY <1>17 DEF WaitStarted, TypeTorn
  <2>4. TypeHandles'
    BY <1>17 DEF WaitStarted, TypeHandles
  <2>5. TypePlace' /\ TypeShown' /\ TypeTrouble'
    <3>1. CASE Started(c, saved)
      <4>1. TypeShown'
        BY <3>1, ShowsTypes, ShownNow DEF Started
      <4>2. When(~saved, "fault") \in SUBSET Names
        BY WhenNames DEF Names
      <4> QED
        BY <3>1, <4>1, <4>2, EndsTypes DEF Started
    <3>2. ASSUME NEW names \in SUBSET Names, NotStarted(c, names)
          PROVE  TypePlace' /\ TypeShown' /\ TypeTrouble'
      BY <3>2, NotStartedTypes
    <3>3. When(timeout, "timeout") \in SUBSET Names /\ {"fault"} \in SUBSET Names
      BY WhenNames DEF Names
    <3> QED
      BY <1>17, <3>1, <3>2, <3>3 DEF WaitStarted
  <2> QED
    BY <2>1, <2>2, <2>3, <2>4, <2>5
<1>18. CASE Lives
  <2>1. TypeManager'
    BY <1>18 DEF Lives, Service!Start, Service!Pause, Service!Pauses, Service!Stop, TypeManager
  <2>2. TypePlace' /\ TypeHandles' /\ TypeShown' /\ TypeCounts' /\ TypeTrouble' /\ TypeTorn'
    BY <1>18 DEF Lives, TypePlace, TypeHandles, TypeShown, TypeCounts, TypeTrouble, TypeTorn
  <2> QED
    BY <2>1, <2>2
<1>19. CASE Dies
  <2>1. TypeManager'
    BY <1>19 DEF Dies, TypeManager
  <2>2. TypeCounts'
    BY <1>19, FaultTypes DEF Dies
  <2>3. TypeTrouble'
    BY <1>19 DEF Dies, Everybody, TypeTrouble, Names
  <2>4. TypePlace' /\ TypeHandles' /\ TypeShown' /\ TypeTorn'
    BY <1>19 DEF Dies, TypePlace, TypeHandles, TypeShown, TypeTorn
  <2> QED
    BY <2>1, <2>2, <2>3, <2>4
<1>20. CASE Vanish
  <2>1. TypeManager'
    BY <1>20 DEF Vanish, TypeManager
  <2>2. TypeTrouble'
    BY <1>20 DEF Vanish, Everybody, TypeTrouble, Names
  <2>3. TypePlace' /\ TypeHandles' /\ TypeShown' /\ TypeCounts' /\ TypeTorn'
    BY <1>20 DEF Vanish, TypePlace, TypeHandles, TypeShown, TypeCounts, TypeTorn
  <2> QED
    BY <2>1, <2>2, <2>3
<1>21. CASE UNCHANGED vars
  BY <1>21 DEF vars, TypeManager, TypePlace, TypeHandles, TypeShown, TypeCounts, TypeTrouble, TypeTorn
<1> QED
  BY <1>1, <1>2, <1>3, <1>4, <1>5, <1>6, <1>7, <1>8, <1>9, <1>10, <1>11, <1>12, <1>13, <1>14, <1>15, <1>16, <1>17, <1>18, <1>19, <1>20, <1>21
     DEF Next, Step

(***************************************************************************)
(* A controller's handler changes nothing of another controller's.         *)
(***************************************************************************)
PlaceFrame(c) == \A d \in Controllers \ {c} : pc'[d] = pc[d] /\ job'[d] = job[d]
HandlesFrame(c) == \A d \in Controllers \ {c} : inner'[d] = inner[d] /\ leaked'[d] = leaked[d]
ShownFrame(c) ==
  \A d \in Controllers \ {c} : button'[d] = button[d] /\ links'[d] = links[d] /\ text'[d] = text[d]
TroubleFrame(c) == \A d \in Controllers \ {c} : trouble'[d] = trouble[d]

Frame(c) == /\ pc[c] \in Places
            /\ PlaceFrame(c) /\ HandlesFrame(c) /\ ShownFrame(c) /\ TroubleFrame(c)

LEMMA SameFrames ==
  ASSUME NEW c \in Controllers
  PROVE  /\ UNCHANGED <<pc, job>> => PlaceFrame(c)
         /\ UNCHANGED <<inner, leaked>> => HandlesFrame(c)
         /\ UNCHANGED shown => ShownFrame(c)
         /\ UNCHANGED trouble => TroubleFrame(c)
  BY DEF PlaceFrame, HandlesFrame, ShownFrame, TroubleFrame, shown

LEMMA GotoFrame ==
  ASSUME TypePlace, NEW c \in Controllers, NEW place, Goto(c, place)
  PROVE  UNCHANGED job => PlaceFrame(c)
  BY DEF TypePlace, Goto, PlaceFrame

LEMMA NamedFrame ==
  ASSUME TypeTrouble, NEW c \in Controllers, NEW names, Named(c, names)
  PROVE  TroubleFrame(c)
  BY DEF TypeTrouble, Named, TroubleFrame

LEMMA ShowsFrame ==
  ASSUME TypeShown, NEW c \in Controllers, NEW b, NEW l, NEW t, Shows(c, b, l, t)
  PROVE  ShownFrame(c)
  BY DEF TypeShown, Shows, ShownFrame

LEMMA EndsFrame ==
  ASSUME TypePlace, TypeTrouble, NEW c \in Controllers, NEW names, Ends(c, names)
  PROVE  PlaceFrame(c) /\ TroubleFrame(c)
  BY NamedFrame DEF TypePlace, Ends, Goto, PlaceFrame

LEMMA NotStartedFrame ==
  ASSUME TypePlace, TypeShown, TypeTrouble, NEW c \in Controllers, NEW names, NotStarted(c, names)
  PROVE  PlaceFrame(c) /\ ShownFrame(c) /\ TroubleFrame(c)
  BY EndsFrame, ShowsFrame, SameFrames DEF NotStarted

LEMMA StoppedFrame ==
  ASSUME TypePlace, TypeHandles, TypeShown, TypeTrouble, NEW c \in Controllers, NEW names,
         Stopped(c, names), UNCHANGED leaked
  PROVE  PlaceFrame(c) /\ HandlesFrame(c) /\ ShownFrame(c) /\ TroubleFrame(c)
<1>1. HandlesFrame(c)
  BY DEF Stopped, TypeHandles, HandlesFrame
<1> QED
  BY <1>1, NotStartedFrame, EndsFrame, ShowsFrame, GotoFrame, NamedFrame DEF Stopped

LEMMA NotStoppedFrame ==
  ASSUME TypePlace, TypeHandles, TypeShown, TypeTrouble, NEW c \in Controllers, NEW names,
         NotStopped(c, names), UNCHANGED leaked
  PROVE  PlaceFrame(c) /\ HandlesFrame(c) /\ ShownFrame(c) /\ TroubleFrame(c)
<1>1. HandlesFrame(c)
  BY DEF NotStopped, TypeHandles, HandlesFrame
<1> QED
  BY <1>1, NotStartedFrame, EndsFrame, ShowsFrame, GotoFrame, NamedFrame, SameFrames DEF NotStopped

(* The frame of every handler. *)
LEMMA StepFrame ==
  ASSUME TInv, NEW c \in Controllers, Step(c)
  PROVE  Frame(c)
<1> USE DEF TInv, Frame
<1>1. ASSUME NEW ok \in BOOLEAN, OpenService(c, ok) PROVE  Frame(c)
  BY <1>1, SameFrames, GotoFrame, NotStartedFrame
     DEF OpenService, TypeHandles, HandlesFrame, Places, manager
<1>2. ASSUME NEW ok \in BOOLEAN, StartService(c, ok) PROVE  Frame(c)
  BY <1>2, SameFrames, GotoFrame, NotStartedFrame DEF StartService, Places, manager
<1>3. ASSUME NEW ok \in BOOLEAN, QueryService(c, ok) PROVE  Frame(c)
  BY <1>3, SameFrames, GotoFrame, StoppedFrame, NotStoppedFrame DEF QueryService, Places, manager
<1>4. ASSUME NEW ok \in BOOLEAN, ControlService(c, ok) PROVE  Frame(c)
  BY <1>4, SameFrames, GotoFrame, NotStoppedFrame DEF ControlService, Places, manager
<1>5. ASSUME NEW ok \in BOOLEAN, ControlReturns(c, ok) PROVE  Frame(c)
  BY <1>5, SameFrames, GotoFrame, StoppedFrame, NotStoppedFrame DEF ControlReturns, Places, manager
<1>6. ASSUME NEW ok \in BOOLEAN, WaitStopped(c, ok) PROVE  Frame(c)
  BY <1>6, StoppedFrame DEF WaitStopped, Places, manager
<1>7. ASSUME NEW ok \in BOOLEAN, ServiceExists(c, ok) PROVE  Frame(c)
  BY <1>7, SameFrames, GotoFrame, EndsFrame, ShowsFrame DEF ServiceExists, Uninstalled, Places, manager
<1>8. ASSUME NEW ok \in BOOLEAN, DeleteService(c, ok) PROVE  Frame(c)
  BY <1>8, SameFrames, GotoFrame, NamedFrame
     DEF DeleteService, Goto, TypePlace, PlaceFrame, TypeHandles, HandlesFrame, TypeTrouble,
            TroubleFrame, Places, manager
<1>9. ASSUME NEW ok \in BOOLEAN, NEW more \in BOOLEAN, Expand(c, ok, more) PROVE  Frame(c)
  BY <1>9, SameFrames, GotoFrame, NamedFrame, EndsFrame, ShowsFrame DEF Expand, Places, manager
<1>10. ASSUME NEW more \in BOOLEAN, ExpandExits(c, more) PROVE Frame(c)
  <2>1. PlaceFrame(c)
    BY <1>10 DEF ExpandExits, Goto, TypePlace, PlaceFrame
  <2>2. HandlesFrame(c) /\ TroubleFrame(c)
    BY <1>10 DEF ExpandExits, TypeHandles, HandlesFrame, TypeTrouble, TroubleFrame
  <2> QED
    BY <1>10, <2>1, <2>2, ShowsFrame DEF ExpandExits, Places
<1>11. ASSUME NEW ok \in BOOLEAN, NEW more \in BOOLEAN, CreateService(c, ok, more)
      PROVE  Frame(c)
  BY <1>11, SameFrames, GotoFrame, EndsFrame, ShowsFrame DEF CreateService, Places, manager
<1>12. ASSUME NEW ok \in BOOLEAN, NEW more \in BOOLEAN, WaitPending(c, ok, more)
      PROVE  Frame(c)
  BY <1>12, SameFrames, GotoFrame, NamedFrame, StoppedFrame, NotStoppedFrame
     DEF WaitPending, Places, manager
<1>13. ASSUME NEW more \in BOOLEAN, NEW ok \in BOOLEAN, RemoveFiles(c, more, ok)
      PROVE  Frame(c)
  BY <1>13, SameFrames, EndsFrame, ShowsFrame DEF RemoveFiles, Uninstalled, Places, manager
<1>14. ASSUME NEW ok \in BOOLEAN, NEW more \in BOOLEAN, NEW timeout \in BOOLEAN, WaitStarted(c, ok,
    more, timeout)
      PROVE  Frame(c)
  BY <1>14, SameFrames, NotStartedFrame, EndsFrame, ShowsFrame DEF WaitStarted, Started, Places, manager
<1> QED
  BY <1>1, <1>2, <1>3, <1>4, <1>5, <1>6, <1>7, <1>8, <1>9, <1>10, <1>11, <1>12, <1>13, <1>14 DEF Step

(***************************************************************************)
(* The strengthening: what is true of a controller in the middle of its    *)
(* handlers.                                                               *)
(***************************************************************************)
Free(c) == pc[c] # "closed" /\ "other" \notin trouble[c]
Calm(c) == Free(c) /\ "fault" \notin trouble[c] /\ "timeout" \notin trouble[c]
                   /\ "start failed" \notin trouble[c]
Clear(c) == Calm(c) /\ "stop failed" \notin trouble[c] /\ "create failed" \notin trouble[c]

(* Which jobs come where. *)
Routes(c) == /\ pc[c] \in {"expand", "create"} => job[c] = "install"
             /\ pc[c] \in {"exists", "delete", "remove"} => job[c] = "uninstall"
             /\ pc[c] \in {"open", "launch", "starting"} => job[c] # "uninstall"

(* Whom nobody has disturbed, nobody is disturbing. *)
Alone(c) == Free(c) => \A d \in Controllers : pc[d] \in Places => d = c

TextTrue(c) ==
  /\ text[c] = "stopped" => state = "stopped"
  /\ text[c] = "running" => state \notin {"stopped", "stop_pending", "start_pending"} /\ ~told
  /\ text[c] = "uninstalled" => state = "stopped" /\ entry # "present" /\ ~files

(* The line is true but between a call that changes the service and the    *)
(* end of its handler, which knows by then that the service has obeyed.    *)
TextInv(c) ==
  Calm(c) =>
    /\ job[c] \notin {"install", "uninstall"} /\ pc[c] \notin {"starting", "told", "wait stopped"} =>
         TextTrue(c)
    /\ pc[c] = "starting" => ~told
    /\ pc[c] \in {"wait pending", "control", "told", "wait stopped", "exists", "delete", "remove"} =>
         entry # "absent"
    /\ pc[c] \in {"exists", "delete", "remove"} => state = "stopped"
    /\ pc[c] = "remove" => entry # "present"

ButtonInv(c) ==
  Clear(c) =>
    /\ job[c] \notin {"install", "uninstall"} => (button[c] = "uninstall" <=> Installed)
    /\ pc[c] = "create" => files
    /\ job[c] = "install" /\ pc[c] \notin {"expand", "create"} => Installed

(* Who is about to create the service has written its program; who is      *)
(* about to remove it has the service marked and keeps it from vanishing.  *)
Whole ==
  /\ entry = "present" \/ (\E c \in Controllers : pc[c] = "create") => files \/ torn # {}
  /\ \A c \in Controllers : pc[c] = "remove" => torn # {} \/ (leaked[c] /\ entry = "marked")

(* What the common parts of the handlers do to the controller's own.       *)
Grows(c, names) == \A n : n \in trouble[c] \/ n \in names => n \in trouble'[c]

LEMMA GotoAt ==
  ASSUME TypePlace, NEW c \in Controllers, NEW place, Goto(c, place)
  PROVE  pc'[c] = place
  BY DEF TypePlace, Goto

LEMMA NamedAt ==
  ASSUME TypeTrouble, NEW c \in Controllers, NEW names, Named(c, names)
  PROVE  Grows(c, names)
  BY DEF TypeTrouble, Named, Grows

LEMMA ShowsAt ==
  ASSUME TypeShown, NEW c \in Controllers, NEW b, NEW l, NEW t, Shows(c, b, l, t)
  PROVE  button'[c] = b /\ text'[c] = t
  BY DEF TypeShown, Shows

LEMMA EndsAt ==
  ASSUME TypePlace, TypeTrouble, NEW c \in Controllers, NEW names, Ends(c, names)
  PROVE  pc'[c] = "idle" /\ job'[c] = "none" /\ Grows(c, names)
  BY NamedAt, GotoAt DEF TypePlace, Ends

LEMMA NotStartedAt ==
  ASSUME TypePlace, TypeTrouble, NEW c \in Controllers, NEW names, NotStarted(c, names)
  PROVE  pc'[c] = "idle" /\ job'[c] = "none" /\ Grows(c, names) /\ "start failed" \in trouble'[c]
<1>1. Ends(c, names \cup {"start failed"})
  BY DEF NotStarted
<1> QED
  BY <1>1, EndsAt DEF Grows

StoppedTo(c) ==
  \/ pc'[c] = "idle" /\ job'[c] = "none" /\ "start failed" \in trouble'[c]
  \/ /\ job[c] \in {"stop", "restart"} /\ pc'[c] = "idle" /\ job'[c] = "none"
     /\ text'[c] = "stopped" /\ button'[c] = button[c]
  \/ /\ job[c] = "restart" /\ pc'[c] = "open" /\ job'[c] = job[c]
     /\ text'[c] = "stopped" /\ button'[c] = button[c]
  \/ /\ job[c] = "uninstall" /\ pc'[c] = "exists" /\ job'[c] = job[c]

LEMMA StoppedAt ==
  ASSUME TypePlace, TypeShown, TypeTrouble, NEW c \in Controllers, NEW names, Stopped(c, names)
  PROVE  StoppedTo(c) /\ Grows(c, names)
<1>1. CASE inner[c]
  BY <1>1, NotStartedAt DEF Stopped, StoppedTo
<1>2. CASE ~inner[c]
  BY <1>2, EndsAt, ShowsAt, NamedAt, GotoAt DEF Stopped, StoppedTo
<1> QED
  BY <1>1, <1>2

NotStoppedTo(c) ==
  \/ pc'[c] = "idle" /\ job'[c] = "none" /\ "start failed" \in trouble'[c]
  \/ /\ job[c] = "restart" /\ pc'[c] = "open" /\ job'[c] = job[c] /\ "stop failed" \in trouble'[c]
     /\ text'[c] = text[c]
  \/ /\ job[c] \in {"stop", "restart"} /\ pc'[c] = "idle" /\ job'[c] = "none"
     /\ "stop failed" \in trouble'[c] /\ text'[c] = text[c]
  \/ /\ job[c] = "uninstall" /\ pc'[c] = "idle" /\ job'[c] = "none" /\ "stop failed" \in trouble'[c]
     /\ text'[c] = "failed"

LEMMA NotStoppedAt ==
  ASSUME TypePlace, TypeShown, TypeTrouble, NEW c \in Controllers, NEW names, NotStopped(c, names)
  PROVE  NotStoppedTo(c) /\ Grows(c, names)
<1>1. CASE inner[c]
  BY <1>1, NotStartedAt DEF NotStopped, NotStoppedTo
<1>2. CASE ~inner[c]
  <2>1. Grows(c, names \cup {"stop failed"}) => Grows(c, names) /\ "stop failed" \in trouble'[c]
    BY DEF Grows
  <2>2. Ends(c, names \cup {"stop failed"}) =>
          pc'[c] = "idle" /\ job'[c] = "none" /\ Grows(c, names \cup {"stop failed"})
    BY EndsAt
  <2>3. Named(c, names \cup {"stop failed"}) => Grows(c, names \cup {"stop failed"})
    BY NamedAt
  <2> QED
    BY <1>2, <2>1, <2>2, <2>3, ShowsAt, GotoAt DEF NotStopped, NotStoppedTo, shown
<1> QED
  BY <1>1, <1>2

(* What went wrong is not forgotten, but with the controller. *)
LEMMA OwnGrows ==
  ASSUME TInv, NEW c \in Controllers, TRUE, Step(c)
  PROVE  pc'[c] = "closed" \/ Grows(c, {})
<1> USE DEF TInv, Grows
<1>1. ASSUME NEW ok \in BOOLEAN, OpenService(c, ok) PROVE  pc'[c] = "closed" \/ Grows(c, {})
  BY <1>1, GotoAt, NotStartedAt DEF OpenService
<1>2. ASSUME NEW ok \in BOOLEAN, StartService(c, ok) PROVE  pc'[c] = "closed" \/ Grows(c, {})
  BY <1>2, GotoAt, NotStartedAt DEF StartService
<1>3. ASSUME NEW ok \in BOOLEAN, QueryService(c, ok) PROVE  pc'[c] = "closed" \/ Grows(c, {})
  BY <1>3, GotoAt, StoppedAt, NotStoppedAt DEF QueryService
<1>4. ASSUME NEW ok \in BOOLEAN, ControlService(c, ok) PROVE  pc'[c] = "closed" \/ Grows(c, {})
  BY <1>4, GotoAt, NotStoppedAt DEF ControlService, Service!Tell
<1>5. ASSUME NEW ok \in BOOLEAN, ControlReturns(c, ok) PROVE  pc'[c] = "closed" \/ Grows(c, {})
  BY <1>5, GotoAt, StoppedAt, NotStoppedAt DEF ControlReturns
<1>6. ASSUME NEW ok \in BOOLEAN, WaitStopped(c, ok) PROVE  pc'[c] = "closed" \/ Grows(c, {})
  BY <1>6, StoppedAt DEF WaitStopped
<1>7. ASSUME NEW ok \in BOOLEAN, ServiceExists(c, ok) PROVE  pc'[c] = "closed" \/ Grows(c, {})
  BY <1>7, GotoAt, EndsAt, ShowsAt DEF ServiceExists, Uninstalled
<1>8. ASSUME NEW ok \in BOOLEAN, DeleteService(c, ok) PROVE  pc'[c] = "closed" \/ Grows(c, {})
  BY <1>8, GotoAt, NamedAt DEF DeleteService, TypePlace, TypeTrouble
<1>9. ASSUME NEW ok \in BOOLEAN, NEW more \in BOOLEAN, Expand(c, ok, more)
      PROVE  pc'[c] = "closed" \/ Grows(c, {})
  BY <1>9, GotoAt, NamedAt, EndsAt, ShowsAt DEF Expand
<1>10. ASSUME NEW more \in BOOLEAN, ExpandExits(c, more) PROVE  pc'[c] = "closed" \/ Grows(c, {})
  BY <1>10, GotoAt DEF ExpandExits, TypePlace, TypeTrouble
<1>11. ASSUME NEW ok \in BOOLEAN, NEW more \in BOOLEAN, CreateService(c, ok, more)
      PROVE  pc'[c] = "closed" \/ Grows(c, {})
  BY <1>11, GotoAt, EndsAt, ShowsAt DEF CreateService, TypeManager
<1>12. ASSUME NEW ok \in BOOLEAN, NEW more \in BOOLEAN, WaitPending(c, ok, more)
      PROVE  pc'[c] = "closed" \/ Grows(c, {})
  BY <1>12, GotoAt, NamedAt, StoppedAt, NotStoppedAt DEF WaitPending
<1>13. ASSUME NEW more \in BOOLEAN, NEW ok \in BOOLEAN, RemoveFiles(c, more, ok)
      PROVE  pc'[c] = "closed" \/ Grows(c, {})
  BY <1>13, EndsAt, ShowsAt DEF RemoveFiles, Uninstalled
<1>14. ASSUME NEW ok \in BOOLEAN, NEW more \in BOOLEAN, NEW timeout \in BOOLEAN, WaitStarted(c, ok,
    more, timeout)
      PROVE  pc'[c] = "closed" \/ Grows(c, {})
  BY <1>14, NotStartedAt, EndsAt, ShowsAt DEF WaitStarted, Started
<1> QED
  BY <1>1, <1>2, <1>3, <1>4, <1>5, <1>6, <1>7, <1>8, <1>9, <1>10, <1>11, <1>12, <1>13, <1>14 DEF Step

(* A handler leads its job only to places of the job. *)
LEMMA OwnRoutes ==
  ASSUME TInv, NEW c \in Controllers, Routes(c), Step(c)
  PROVE  Routes(c)'
<1> USE DEF TInv, Routes, StoppedTo, NotStoppedTo
<1>1. ASSUME NEW ok \in BOOLEAN, OpenService(c, ok) PROVE  Routes(c)'
  BY <1>1, GotoAt, NotStartedAt DEF OpenService
<1>2. ASSUME NEW ok \in BOOLEAN, StartService(c, ok) PROVE  Routes(c)'
  BY <1>2, GotoAt, NotStartedAt DEF StartService
<1>3. ASSUME NEW ok \in BOOLEAN, QueryService(c, ok) PROVE  Routes(c)'
  BY <1>3, GotoAt, StoppedAt, NotStoppedAt DEF QueryService
<1>4. ASSUME NEW ok \in BOOLEAN, ControlService(c, ok) PROVE  Routes(c)'
  BY <1>4, GotoAt, NotStoppedAt DEF ControlService, Service!Tell
<1>5. ASSUME NEW ok \in BOOLEAN, ControlReturns(c, ok) PROVE  Routes(c)'
  BY <1>5, GotoAt, StoppedAt, NotStoppedAt DEF ControlReturns
<1>6. ASSUME NEW ok \in BOOLEAN, WaitStopped(c, ok) PROVE  Routes(c)'
  BY <1>6, StoppedAt DEF WaitStopped
<1>7. ASSUME NEW ok \in BOOLEAN, ServiceExists(c, ok) PROVE  Routes(c)'
  BY <1>7, GotoAt, EndsAt, ShowsAt DEF ServiceExists, Uninstalled
<1>8. ASSUME NEW ok \in BOOLEAN, DeleteService(c, ok) PROVE  Routes(c)'
  BY <1>8, GotoAt, NamedAt DEF DeleteService, TypePlace, TypeTrouble
<1>9. ASSUME NEW ok \in BOOLEAN, NEW more \in BOOLEAN, Expand(c, ok, more) PROVE  Routes(c)'
  BY <1>9, GotoAt, NamedAt, EndsAt, ShowsAt DEF Expand
<1>10. ASSUME NEW more \in BOOLEAN, ExpandExits(c, more) PROVE  Routes(c)'
  BY <1>10, GotoAt DEF ExpandExits, TypePlace, TypeTrouble
<1>11. ASSUME NEW ok \in BOOLEAN, NEW more \in BOOLEAN, CreateService(c, ok, more)
      PROVE  Routes(c)'
  BY <1>11, GotoAt, EndsAt, ShowsAt DEF CreateService, TypeManager
<1>12. ASSUME NEW ok \in BOOLEAN, NEW more \in BOOLEAN, WaitPending(c, ok, more)
      PROVE  Routes(c)'
  BY <1>12, GotoAt, NamedAt, StoppedAt, NotStoppedAt DEF WaitPending
<1>13. ASSUME NEW more \in BOOLEAN, NEW ok \in BOOLEAN, RemoveFiles(c, more, ok)
      PROVE  Routes(c)'
  BY <1>13, EndsAt, ShowsAt DEF RemoveFiles, Uninstalled
<1>14. ASSUME NEW ok \in BOOLEAN, NEW more \in BOOLEAN, NEW timeout \in BOOLEAN, WaitStarted(c, ok,
    more, timeout)
      PROVE  Routes(c)'
  BY <1>14, NotStartedAt, EndsAt, ShowsAt DEF WaitStarted, Started
<1> QED
  BY <1>1, <1>2, <1>3, <1>4, <1>5, <1>6, <1>7, <1>8, <1>9, <1>10, <1>11, <1>12, <1>13, <1>14 DEF Step

(* A handler keeps what it knows of the status line. *)
LEMMA OwnText ==
  ASSUME TInv, NEW c \in Controllers, Routes(c), TextInv(c), Step(c)
  PROVE  TextInv(c)'
<1> USE DEF TInv, TextInv, TextTrue, Routes, Calm, Free, Grows, StoppedTo, NotStoppedTo
<1>1. ASSUME NEW ok \in BOOLEAN, OpenService(c, ok) PROVE  TextInv(c)'
  BY <1>1, GotoAt, NotStartedAt DEF OpenService, manager, service, shown
<1>2. ASSUME NEW ok \in BOOLEAN, StartService(c, ok) PROVE  TextInv(c)'
  BY <1>2, GotoAt, NotStartedAt DEF StartService, manager, service, shown
<1>3. ASSUME NEW ok \in BOOLEAN, QueryService(c, ok) PROVE  TextInv(c)'
  BY <1>3, GotoAt, StoppedAt, NotStoppedAt DEF QueryService, manager, service, shown
<1>4. ASSUME NEW ok \in BOOLEAN, ControlService(c, ok) PROVE  TextInv(c)'
  BY <1>4, GotoAt, NotStoppedAt DEF ControlService, Service!Tell, manager, service, shown
<1>5. ASSUME NEW ok \in BOOLEAN, ControlReturns(c, ok) PROVE  TextInv(c)'
  BY <1>5, GotoAt, StoppedAt, NotStoppedAt DEF ControlReturns, manager, service, shown
<1>6. ASSUME NEW ok \in BOOLEAN, WaitStopped(c, ok)
      PROVE  TextInv(c)'
  <2>1. /\ pc[c] = "wait stopped" /\ UNCHANGED manager /\ StoppedTo(c)
        /\ Grows(c, When(~ok, "fault") \cup When(ok /\ state # "stopped", "timeout"))
    BY <1>6, StoppedAt DEF WaitStopped
  <2>2. state = "stopped" \/ "fault" \in trouble'[c] \/ "timeout" \in trouble'[c]
    BY <2>1 DEF When
  <2> QED
    BY <2>1, <2>2 DEF manager, service
<1>7. ASSUME NEW ok \in BOOLEAN, ServiceExists(c, ok) PROVE  TextInv(c)'
  BY <1>7, GotoAt, EndsAt, ShowsAt DEF ServiceExists, Uninstalled, manager, service, shown
<1>8. ASSUME NEW ok \in BOOLEAN, DeleteService(c, ok) PROVE  TextInv(c)'
  BY <1>8, GotoAt, NamedAt DEF DeleteService, TypePlace, TypeTrouble, manager, service, shown
<1>9. ASSUME NEW ok \in BOOLEAN, NEW more \in BOOLEAN, Expand(c, ok, more) PROVE  TextInv(c)'
  BY <1>9, GotoAt, NamedAt, EndsAt, ShowsAt DEF Expand, manager, service, shown, When
<1>10. ASSUME NEW more \in BOOLEAN, ExpandExits(c, more) PROVE  TextInv(c)'
  BY <1>10, GotoAt DEF ExpandExits, TypePlace, TypeTrouble, manager, service, shown
<1>11. ASSUME NEW ok \in BOOLEAN, NEW more \in BOOLEAN, CreateService(c, ok, more)
      PROVE  TextInv(c)'
  <2>1. /\ pc[c] = "create" /\ UNCHANGED <<state, told, files>>
        /\ (entry = "absent" => state = "stopped")
    BY <1>11 DEF CreateService, TypeManager, service
  <2>2. CASE entry' = "present" /\ Goto(c, "open") /\ UNCHANGED <<job, shown, trouble>>
    BY <2>1, <2>2, GotoAt
  <2>3. CASE entry = "absent" /\ entry' = "present" /\ Ends(c, {}) /\ Shows(c, "uninstall", TRUE,
      "stopped")
    BY <2>1, <2>3, EndsAt, ShowsAt
  <2>4. CASE /\ Ends(c, {"create failed"}) /\ Shows(c, "install", links[c], "failed")
             /\ UNCHANGED entry
    <3>1. /\ pc'[c] = "idle" /\ text'[c] = "failed" /\ job'[c] = "none"
          /\ Grows(c, {"create failed"})
      BY <2>4, EndsAt, ShowsAt
    <3> QED
      BY <2>1, <2>4, <3>1
  <2> QED
    BY <1>11, <2>2, <2>3, <2>4 DEF CreateService
<1>12. ASSUME NEW ok \in BOOLEAN, NEW more \in BOOLEAN, WaitPending(c, ok, more)
      PROVE  TextInv(c)'
  BY <1>12, GotoAt, NamedAt, StoppedAt, NotStoppedAt DEF WaitPending, manager, service, shown
<1>13. ASSUME NEW more \in BOOLEAN, NEW ok \in BOOLEAN, RemoveFiles(c, more, ok)
      PROVE  TextInv(c)'
  <2>1. /\ ~ok \/ (files /\ state = "stopped" /\ ~more) => "fault" \in trouble'[c]
        /\ Grows(c, {})
    BY <1>13, NamedAt DEF RemoveFiles, Uninstalled, Ends, When
  <2>2. /\ pc'[c] = "idle" /\ job'[c] = "none" /\ pc[c] = "remove"
        /\ UNCHANGED service /\ entry' = entry /\ files' = (files /\ ~more)
        /\ \/ ok /\ button'[c] = "install" /\ text'[c] = "uninstalled"
           \/ ~ok
    BY <1>13, EndsAt, ShowsAt DEF RemoveFiles, Uninstalled
  <2> QED
    BY <2>1, <2>2 DEF service
<1>14. ASSUME NEW ok \in BOOLEAN, NEW more \in BOOLEAN, NEW timeout \in BOOLEAN, WaitStarted(c, ok,
    more, timeout)
      PROVE  TextInv(c)'
  <2>1. CASE NotStarted(c, When(timeout, "timeout")) \/ NotStarted(c, {"fault"})
    BY <2>1, NotStartedAt
  <2>2. CASE Started(c, more) /\ state = "running"
    <3>1. /\ pc'[c] = "idle" /\ job'[c] = "none" /\ Grows(c, When(~more, "fault"))
          /\ \/ job[c] = "install" /\ button'[c] = "uninstall" /\ text'[c] = "running"
             \/ /\ job[c] # "install" /\ button'[c] = button[c]
                /\ text'[c] = IF more THEN "running" ELSE text[c]
      BY <2>2, EndsAt, ShowsAt DEF Started
    <3>2. ~more => "fault" \in trouble'[c]
      BY <3>1 DEF When
    <3> QED
      BY <1>14, <2>2, <3>1, <3>2 DEF WaitStarted, manager, service
  <2> QED
    BY <1>14, <2>1, <2>2 DEF WaitStarted
<1> QED
  BY <1>1, <1>2, <1>3, <1>4, <1>5, <1>6, <1>7, <1>8, <1>9, <1>10, <1>11, <1>12, <1>13, <1>14 DEF Step

(* A handler keeps what it knows of the buttons. *)
LEMMA OwnButton ==
  ASSUME TInv, NEW c \in Controllers, Routes(c), TextInv(c), ButtonInv(c), Step(c)
  PROVE  ButtonInv(c)'
<1> USE DEF TInv, TextInv, ButtonInv, Installed, Clear, Routes, Calm, Free, Grows, StoppedTo,
    NotStoppedTo
<1>1. ASSUME NEW ok \in BOOLEAN, OpenService(c, ok) PROVE  ButtonInv(c)'
  BY <1>1, GotoAt, NotStartedAt DEF OpenService, manager, service, shown
<1>2. ASSUME NEW ok \in BOOLEAN, StartService(c, ok) PROVE  ButtonInv(c)'
  BY <1>2, GotoAt, NotStartedAt DEF StartService, manager, service, shown
<1>3. ASSUME NEW ok \in BOOLEAN, QueryService(c, ok) PROVE  ButtonInv(c)'
  BY <1>3, GotoAt, StoppedAt, NotStoppedAt DEF QueryService, manager, service, shown
<1>4. ASSUME NEW ok \in BOOLEAN, ControlService(c, ok) PROVE  ButtonInv(c)'
  BY <1>4, GotoAt, NotStoppedAt DEF ControlService, Service!Tell, manager, service, shown
<1>5. ASSUME NEW ok \in BOOLEAN, ControlReturns(c, ok) PROVE  ButtonInv(c)'
  BY <1>5, GotoAt, StoppedAt, NotStoppedAt DEF ControlReturns, manager, service, shown
<1>6. ASSUME NEW ok \in BOOLEAN, WaitStopped(c, ok)
      PROVE  ButtonInv(c)'
  <2>1. /\ pc[c] = "wait stopped" /\ UNCHANGED manager /\ StoppedTo(c)
        /\ Grows(c, When(~ok, "fault") \cup When(ok /\ state # "stopped", "timeout"))
    BY <1>6, StoppedAt DEF WaitStopped
  <2>2. state = "stopped" \/ "fault" \in trouble'[c] \/ "timeout" \in trouble'[c]
    BY <2>1 DEF When
  <2> QED
    BY <2>1, <2>2 DEF manager, service
<1>7. ASSUME NEW ok \in BOOLEAN, ServiceExists(c, ok) PROVE  ButtonInv(c)'
  BY <1>7, GotoAt, EndsAt, ShowsAt DEF ServiceExists, Uninstalled, manager, service, shown
<1>8. ASSUME NEW ok \in BOOLEAN, DeleteService(c, ok) PROVE  ButtonInv(c)'
  BY <1>8, GotoAt, NamedAt DEF DeleteService, TypePlace, TypeTrouble, manager, service, shown
<1>9. ASSUME NEW ok \in BOOLEAN, NEW more \in BOOLEAN, Expand(c, ok, more) PROVE  ButtonInv(c)'
  BY <1>9, GotoAt, NamedAt, EndsAt, ShowsAt DEF Expand, manager, service, shown, When
<1>10. ASSUME NEW more \in BOOLEAN, ExpandExits(c, more) PROVE  ButtonInv(c)'
  BY <1>10, GotoAt DEF ExpandExits, TypePlace, TypeTrouble, manager, service, shown
<1>11. ASSUME NEW ok \in BOOLEAN, NEW more \in BOOLEAN, CreateService(c, ok, more)
      PROVE  ButtonInv(c)'
  <2>1. /\ pc[c] = "create" /\ UNCHANGED <<state, told, files>>
        /\ (entry = "absent" => state = "stopped")
    BY <1>11 DEF CreateService, TypeManager, service
  <2>2. CASE entry' = "present" /\ Goto(c, "open") /\ UNCHANGED <<job, shown, trouble>>
    BY <2>1, <2>2, GotoAt
  <2>3. CASE entry = "absent" /\ entry' = "present" /\ Ends(c, {}) /\ Shows(c, "uninstall", TRUE,
      "stopped")
    BY <2>1, <2>3, EndsAt, ShowsAt
  <2>4. CASE /\ Ends(c, {"create failed"}) /\ Shows(c, "install", links[c], "failed")
             /\ UNCHANGED entry
    <3>1. /\ pc'[c] = "idle" /\ text'[c] = "failed" /\ job'[c] = "none"
          /\ Grows(c, {"create failed"})
      BY <2>4, EndsAt, ShowsAt
    <3> QED
      BY <2>1, <2>4, <3>1
  <2> QED
    BY <1>11, <2>2, <2>3, <2>4 DEF CreateService
<1>12. ASSUME NEW ok \in BOOLEAN, NEW more \in BOOLEAN, WaitPending(c, ok, more)
      PROVE  ButtonInv(c)'
  BY <1>12, GotoAt, NamedAt, StoppedAt, NotStoppedAt DEF WaitPending, manager, service, shown
<1>13. ASSUME NEW more \in BOOLEAN, NEW ok \in BOOLEAN, RemoveFiles(c, more, ok)
      PROVE  ButtonInv(c)'
  <2>1. /\ ~ok \/ (files /\ state = "stopped" /\ ~more) => "fault" \in trouble'[c]
        /\ Grows(c, {})
    BY <1>13, NamedAt DEF RemoveFiles, Uninstalled, Ends, When
  <2>2. /\ pc'[c] = "idle" /\ job'[c] = "none" /\ pc[c] = "remove"
        /\ UNCHANGED service /\ entry' = entry /\ files' = (files /\ ~more)
        /\ \/ ok /\ button'[c] = "install" /\ text'[c] = "uninstalled"
           \/ ~ok
    BY <1>13, EndsAt, ShowsAt DEF RemoveFiles, Uninstalled
  <2> QED
    BY <2>1, <2>2 DEF service
<1>14. ASSUME NEW ok \in BOOLEAN, NEW more \in BOOLEAN, NEW timeout \in BOOLEAN, WaitStarted(c, ok,
    more, timeout)
      PROVE  ButtonInv(c)'
  <2>1. CASE NotStarted(c, When(timeout, "timeout")) \/ NotStarted(c, {"fault"})
    BY <2>1, NotStartedAt
  <2>2. CASE Started(c, more) /\ state = "running"
    <3>1. /\ pc'[c] = "idle" /\ job'[c] = "none" /\ Grows(c, When(~more, "fault"))
          /\ \/ job[c] = "install" /\ button'[c] = "uninstall" /\ text'[c] = "running"
             \/ /\ job[c] # "install" /\ button'[c] = button[c]
                /\ text'[c] = IF more THEN "running" ELSE text[c]
      BY <2>2, EndsAt, ShowsAt DEF Started
    <3>2. ~more => "fault" \in trouble'[c]
      BY <3>1 DEF When
    <3> QED
      BY <1>14, <2>2, <3>1, <3>2 DEF WaitStarted, manager, service
  <2> QED
    BY <1>14, <2>1, <2>2 DEF WaitStarted
<1> QED
  BY <1>1, <1>2, <1>3, <1>4, <1>5, <1>6, <1>7, <1>8, <1>9, <1>10, <1>11, <1>12, <1>13, <1>14 DEF Step

(***************************************************************************)
(* The steps: one controller's handler, the dialog, the service.           *)
(***************************************************************************)
Dialog(c) == Routes(c) /\ Alone(c) /\ TextInv(c) /\ ButtonInv(c)
SInv == TInv /\ (\A c \in Controllers : Dialog(c)) /\ Whole

LEMMA HandlerStep ==
  ASSUME SInv, NEW c \in Controllers, Step(c), NEW d \in Controllers
  PROVE  Dialog(d)'
<1>1. TInv /\ Dialog(c) /\ Dialog(d)
  BY DEF SInv
<1>2. Frame(c) /\ (pc'[c] = "closed" \/ Grows(c, {}))
  BY <1>1, StepFrame, OwnGrows
<1>3. CASE d = c
  <2>1. Alone(c)'
    <3>1. Free(c)' => Free(c)
      BY <1>2 DEF Frame, Places, Free, Grows
    <3> QED
      BY <1>1, <1>2, <3>1 DEF Dialog, Alone, Frame, PlaceFrame
  <2> QED
    BY <1>1, <1>3, <2>1, OwnRoutes, OwnText, OwnButton DEF Dialog
<1>4. CASE d # c
  <2>1. ~Free(d) /\ ~Free(d)'
    <3>1. ~Free(d)
      BY <1>1, <1>2, <1>4 DEF Dialog, Alone, Frame
    <3> QED
      BY <1>2, <1>4, <3>1 DEF Free, Frame, PlaceFrame, TroubleFrame
  <2>2. Routes(d)'
    BY <1>1, <1>2, <1>4 DEF Dialog, Routes, Frame, PlaceFrame
  <2> QED
    BY <2>1, <2>2 DEF Dialog, Alone, TextInv, ButtonInv, Clear, Calm
<1> QED
  BY <1>3, <1>4

(* What Open, Close and Click leave of another controller's. *)
Kept(d) == /\ pc'[d] = pc[d] /\ job'[d] = job[d] /\ trouble'[d] = trouble[d]
           /\ button'[d] = button[d] /\ text'[d] = text[d]

LEMMA OpenStep ==
  ASSUME SInv, NEW c \in Controllers, Open(c), NEW d \in Controllers
  PROVE  Dialog(d)'
<1>1. TInv /\ Dialog(c) /\ Dialog(d) /\ UNCHANGED <<state, told, entry, files, job>>
  BY DEF SInv, Open, manager, service
<1>2. /\ pc'[c] = "idle" /\ pc[c] = "closed"
      /\ \A e \in Controllers \ {c} : Kept(e)
  BY <1>1 DEF Open, Goto, Shows, Kept, TInv, TypePlace, TypeShown, TypeTrouble
<1>3. CASE d # c
  <2>1. Kept(d)
    BY <1>2, <1>3
  <2>2. Alone(d)'
    BY <1>1, <1>2, <2>1 DEF Kept, Dialog, Alone, Free, Places
  <2> QED
    BY <1>1, <2>1, <2>2
       DEF Kept, Dialog, Routes, TextInv, TextTrue, ButtonInv, Installed, Clear, Calm, Free
<1>4. CASE d = c
  <2>1. /\ button'[c] = IF Installed THEN "uninstall" ELSE "install"
        /\ text'[c] = IF Installed /\ state \in {"running", "stopped"} THEN state ELSE "none"
        /\ trouble'[c] = When(Working # {} \/ (told /\ state # "stopped"), "other")
    BY <1>1 DEF Open, Shows, TInv, TypeShown, TypeTrouble
  <2>2. job'[c] = "none"
    BY <1>1, <1>2 DEF TInv, TypePlace
  <2>3. Free(c)' => Working = {} /\ ~(told /\ state # "stopped")
    BY <2>1 DEF Free, When
  <2>4. Alone(c)'
    BY <1>1, <1>2, <2>3 DEF Alone, Working, Places, Kept
  <2>5. TextInv(c)'
    BY <1>1, <1>2, <2>1, <2>2, <2>3 DEF TextInv, TextTrue, Calm
  <2>6. ButtonInv(c)' /\ Routes(c)'
    BY <1>1, <1>2, <2>1, <2>2 DEF ButtonInv, Installed, Routes
  <2> QED
    BY <1>4, <2>4, <2>5, <2>6 DEF Dialog
<1> QED
  BY <1>3, <1>4

LEMMA CloseStep ==
  ASSUME SInv, NEW c \in Controllers, Close(c), NEW d \in Controllers
  PROVE  Dialog(d)'
<1>1. TInv /\ Dialog(c) /\ Dialog(d) /\ UNCHANGED <<state, told, entry, files, job>>
  BY DEF SInv, Close, manager, service
<1>2. /\ pc'[c] = "closed"
      /\ \A e \in Controllers \ {c} : Kept(e)
  BY <1>1 DEF Close, Goto, Shows, Kept, TInv, TypePlace, TypeShown, TypeTrouble
<1>3. CASE d # c
  <2>1. Kept(d)
    BY <1>2, <1>3
  <2>2. Alone(d)'
    BY <1>1, <1>2, <2>1 DEF Kept, Dialog, Alone, Free, Places
  <2> QED
    BY <1>1, <2>1, <2>2
       DEF Kept, Dialog, Routes, TextInv, TextTrue, ButtonInv, Installed, Clear, Calm, Free
<1>4. CASE d = c
  BY <1>2, <1>4 DEF Dialog, Routes, Alone, TextInv, ButtonInv, Clear, Calm, Free
<1> QED
  BY <1>3, <1>4

LEMMA ClickStep ==
  ASSUME SInv, NEW c \in Controllers, NEW j \in Jobs, Click(c, j), NEW d \in Controllers
  PROVE  Dialog(d)'
<1>1. TInv /\ Dialog(c) /\ Dialog(d) /\ UNCHANGED <<state, told, entry, files>> /\ pc[c] = "idle"
  BY DEF SInv, Click, manager, service
<1>2. /\ pc'[c] = Entrance(j) /\ job'[c] = j /\ button' = button /\ text' = text
      /\ \A e \in Controllers \ {c} : pc'[e] = pc[e] /\ job'[e] = job[e]
  BY <1>1 DEF Click, Goto, shown, TInv, TypePlace
<1>3. Entrance(j) \in {"expand", "open", "query"} /\ (Entrance(j) = "expand" => j = "install")
      /\ (Entrance(j) = "open" => j = "start")
  BY DEF Entrance, Jobs
<1>4. CASE d # c
  <2>1. pc[d] # "closed" => "other" \in trouble'[d]
    BY <1>4 DEF Click
  <2>2. ~Free(d)'
    BY <1>2, <1>4, <2>1 DEF Free
  <2> QED
    BY <1>1, <1>2, <1>4, <2>2 DEF Dialog, Routes, Alone, TextInv, ButtonInv, Clear, Calm
<1>5. CASE d = c
  <2>1. trouble'[c] = When(Working # {}, "other") \cup
                      IF j \in {"install", "uninstall"} THEN {} ELSE trouble[c]
    BY DEF Click
  <2>2. Free(c)' => Working = {}
    BY <2>1 DEF Free, When
  <2>3. Alone(c)'
    BY <1>1, <1>2, <2>2 DEF Alone, Working, Places
  <2>4. j \notin {"install", "uninstall"} => \A n : n \in trouble[c] => n \in trouble'[c]
    BY <2>1
  <2>5. TextInv(c)'
    <3>1. CASE j \in {"install", "uninstall"}
      BY <1>2, <1>3, <3>1 DEF TextInv
    <3>2. CASE j \notin {"install", "uninstall"}
      <4>1. Calm(c)' => Calm(c)
        BY <1>1, <2>4, <3>2 DEF Calm, Free
      <4>2. job[c] = "none"
        BY <1>1 DEF TInv, TypePlace
      <4>3. TextTrue(c)' <=> TextTrue(c)
        BY <1>1, <1>2 DEF TextTrue
      <4>4. Calm(c) => TextTrue(c)
        BY <1>1, <4>2 DEF Dialog, TextInv
      <4> QED
        BY <1>2, <1>3, <4>1, <4>3, <4>4 DEF TextInv
    <3> QED
      BY <3>1, <3>2
  <2>6. ButtonInv(c)'
    <3>1. CASE j \in {"install", "uninstall"}
      BY <1>2, <1>3, <3>1 DEF ButtonInv, Entrance
    <3>2. CASE j \notin {"install", "uninstall"}
      <4>1. Clear(c)' => Clear(c)
        BY <1>1, <2>4, <3>2 DEF Clear, Calm, Free
      <4>2. job[c] = "none"
        BY <1>1 DEF TInv, TypePlace
      <4> QED
        BY <1>1, <1>2, <1>3, <3>2, <4>1, <4>2 DEF Dialog, ButtonInv, Installed
    <3> QED
      BY <3>1, <3>2
  <2>7. Routes(c)'
    BY <1>2, <1>3 DEF Routes
  <2> QED
    BY <1>5, <2>3, <2>5, <2>6, <2>7 DEF Dialog
<1> QED
  BY <1>4, <1>5

LEMMA ServiceStep ==
  ASSUME SInv, Lives \/ Dies \/ Vanish, NEW d \in Controllers
  PROVE  Dialog(d)'
<1>1. TInv /\ Dialog(d) /\ UNCHANGED <<files, pc, job, button, links, text>>
  BY DEF SInv, Lives, Dies, Vanish, shown, service
<1>2. Routes(d)'
  BY <1>1 DEF Dialog, Routes
<1>3. CASE Lives
  <2>1. UNCHANGED <<entry, trouble>>
    BY <1>3 DEF Lives
  <2>2. Alone(d)' /\ ButtonInv(d)'
    BY <1>1, <2>1 DEF Dialog, Alone, ButtonInv, Installed, Clear, Calm, Free
  <2>3. /\ state # "stopped"
        /\ told' = told
        /\ state \notin {"start_pending", "stop_pending"} /\ ~told =>
             state' \notin {"stopped", "start_pending", "stop_pending"}
    BY <1>3 DEF Lives, Service!Start, Service!Pause, Service!Pauses, Service!Stop
  <2>4. TextInv(d)'
    BY <1>1, <2>1, <2>3 DEF Dialog, TextInv, TextTrue, Calm, Free
  <2> QED
    BY <1>2, <2>2, <2>4 DEF Dialog
<1>4. CASE Dies \/ Vanish
  <2>1. (trouble'[d] = {} /\ pc[d] = "closed") \/ "fault" \in trouble'[d] \/ "other" \in trouble'[d]
    BY <1>4 DEF Dies, Vanish, Everybody
  <2>2. ~Calm(d)'
    BY <1>1, <2>1 DEF Calm, Free
  <2>3. \A n : pc[d] # "closed" /\ n \in trouble[d] => n \in trouble'[d]
    BY <1>4 DEF Dies, Vanish, Everybody
  <2>4. Alone(d)'
    BY <1>1, <2>3 DEF Dialog, Alone, Free
  <2> QED
    BY <1>2, <2>2, <2>4 DEF Dialog, TextInv, ButtonInv, Clear
<1> QED
  BY <1>3, <1>4

(* Most of the handlers do nothing to what is installed. *)
Aside(c) == UNCHANGED <<entry, files, torn, leaked>> /\ pc'[c] \notin {"create", "remove"}

LEMMA WholeStep ==
  ASSUME SInv, NEW c \in Controllers, Step(c)
  PROVE  Whole'
<1> USE DEF manager
<1>1. TInv /\ Whole
  BY DEF SInv
<1>2. \A d \in Controllers \ {c} : pc'[d] = pc[d] /\ leaked'[d] = leaked[d]
  BY <1>1, StepFrame DEF Frame, PlaceFrame, HandlesFrame
<1>3. Aside(c) => Whole'
  BY <1>1, <1>2 DEF Aside, Whole
<1>4. ASSUME NEW ok \in BOOLEAN, OpenService(c, ok) PROVE Whole'
  <2>1. UNCHANGED <<entry, files, torn, leaked>>
    BY <1>4 DEF OpenService
  <2>2. pc'[c] \notin {"create", "remove"}
    BY <1>1, <1>4, GotoAt, EndsAt, NotStartedAt, StoppedAt, NotStoppedAt
       DEF OpenService, StoppedTo, NotStoppedTo, TInv
  <2> QED
    BY <1>3, <2>1, <2>2 DEF Aside
<1>5. ASSUME NEW ok \in BOOLEAN, StartService(c, ok) PROVE Whole'
  <2>1. UNCHANGED <<entry, files, torn, leaked>>
    BY <1>5 DEF StartService
  <2>2. pc'[c] \notin {"create", "remove"}
    BY <1>1, <1>5, GotoAt, EndsAt, NotStartedAt, StoppedAt, NotStoppedAt
       DEF StartService, StoppedTo, NotStoppedTo, TInv
  <2> QED
    BY <1>3, <2>1, <2>2 DEF Aside
<1>6. ASSUME NEW ok \in BOOLEAN, QueryService(c, ok) PROVE Whole'
  <2>1. UNCHANGED <<entry, files, torn, leaked>>
    BY <1>6 DEF QueryService
  <2>2. pc'[c] \notin {"create", "remove"}
    BY <1>1, <1>6, GotoAt, EndsAt, NotStartedAt, StoppedAt, NotStoppedAt
       DEF QueryService, StoppedTo, NotStoppedTo, TInv
  <2> QED
    BY <1>3, <2>1, <2>2 DEF Aside
<1>7. ASSUME NEW ok \in BOOLEAN, ControlService(c, ok) PROVE Whole'
  <2>1. UNCHANGED <<entry, files, torn, leaked>>
    BY <1>7 DEF ControlService
  <2>2. pc'[c] \notin {"create", "remove"}
    BY <1>1, <1>7, GotoAt, EndsAt, NotStartedAt, StoppedAt, NotStoppedAt
       DEF ControlService, StoppedTo, NotStoppedTo, TInv
  <2> QED
    BY <1>3, <2>1, <2>2 DEF Aside
<1>8. ASSUME NEW ok \in BOOLEAN, ControlReturns(c, ok) PROVE Whole'
  <2>1. UNCHANGED <<entry, files, torn, leaked>>
    BY <1>8 DEF ControlReturns
  <2>2. pc'[c] \notin {"create", "remove"}
    BY <1>1, <1>8, GotoAt, EndsAt, NotStartedAt, StoppedAt, NotStoppedAt
       DEF ControlReturns, StoppedTo, NotStoppedTo, TInv
  <2> QED
    BY <1>3, <2>1, <2>2 DEF Aside
<1>9. ASSUME NEW ok \in BOOLEAN, WaitStopped(c, ok) PROVE Whole'
  <2>1. UNCHANGED <<entry, files, torn, leaked>>
    BY <1>9 DEF WaitStopped
  <2>2. pc'[c] \notin {"create", "remove"}
    BY <1>1, <1>9, GotoAt, EndsAt, NotStartedAt, StoppedAt, NotStoppedAt
       DEF WaitStopped, StoppedTo, NotStoppedTo, TInv
  <2> QED
    BY <1>3, <2>1, <2>2 DEF Aside
<1>10. ASSUME NEW ok \in BOOLEAN, ServiceExists(c, ok) PROVE Whole'
  <2>1. UNCHANGED <<entry, files, torn, leaked>>
    BY <1>10 DEF ServiceExists
  <2>2. pc'[c] \notin {"create", "remove"}
    BY <1>1, <1>10, GotoAt, EndsAt, NotStartedAt, StoppedAt, NotStoppedAt
       DEF ServiceExists, Uninstalled, StoppedTo, NotStoppedTo, TInv
  <2> QED
    BY <1>3, <2>1, <2>2 DEF Aside
<1>11. ASSUME NEW ok \in BOOLEAN, DeleteService(c, ok) PROVE Whole'
  <2>1. pc'[c] = "remove" /\ files' = files
    BY <1>1, <1>11, GotoAt DEF DeleteService, TInv
  <2>2. \/ entry' = "marked" /\ leaked'[c] = TRUE /\ torn' = torn
        \/ torn' # {} /\ UNCHANGED <<entry, leaked>>
    BY <1>1, <1>11 DEF DeleteService, TInv, TypeHandles
  <2> QED
    BY <1>1, <1>2, <2>1, <2>2 DEF Whole
<1>12. ASSUME NEW ok \in BOOLEAN, NEW more \in BOOLEAN, Expand(c, ok, more) PROVE Whole'
  <2>1. UNCHANGED <<entry, leaked>> /\ files' = (files \/ more) /\ (torn # {} => torn' # {})
    BY <1>12 DEF Expand
  <2>2. pc'[c] = "idle" \/ (pc'[c] = "create" /\ (files' \/ torn' # {}))
    BY <1>1, <1>12, GotoAt, EndsAt DEF Expand, When, TInv
  <2> QED
    BY <1>1, <1>2, <2>1, <2>2 DEF Whole
<1>13. ASSUME NEW more \in BOOLEAN, ExpandExits(c, more) PROVE Whole'
  <2>1. UNCHANGED <<entry, torn>> /\ files' = (files \/ more) /\ pc'[c] = "closed"
    BY <1>1, <1>13, GotoAt DEF ExpandExits, TInv
  <2> QED
    BY <1>1, <1>2, <2>1 DEF Whole
<1>14. ASSUME NEW ok \in BOOLEAN, NEW more \in BOOLEAN, CreateService(c, ok, more) PROVE Whole'
  <2>1. /\ UNCHANGED <<files, torn, leaked>> /\ pc[c] = "create"
        /\ entry' = entry \/ (entry = "absent" /\ entry' = "present")
    BY <1>14 DEF CreateService
  <2>2. pc'[c] \notin {"create", "remove"}
    BY <1>1, <1>14, GotoAt, EndsAt DEF CreateService, TInv
  <2> QED
    BY <1>1, <1>2, <2>1, <2>2 DEF Whole
<1>15. ASSUME NEW ok \in BOOLEAN, NEW more \in BOOLEAN, WaitPending(c, ok, more) PROVE Whole'
  <2>1. UNCHANGED <<entry, files, torn, leaked>>
    BY <1>15 DEF WaitPending
  <2>2. pc'[c] \notin {"create", "remove"}
    BY <1>1, <1>15, GotoAt, EndsAt, NotStartedAt, StoppedAt, NotStoppedAt
       DEF WaitPending, StoppedTo, NotStoppedTo, TInv
  <2> QED
    BY <1>3, <2>1, <2>2 DEF Aside
<1>16. ASSUME NEW more \in BOOLEAN, NEW ok \in BOOLEAN, RemoveFiles(c, more, ok) PROVE Whole'
  <2>1. /\ pc[c] = "remove" /\ UNCHANGED <<entry, leaked>> /\ files' = (files /\ ~more)
        /\ torn # {} => torn' # {}
        /\ more /\ (\E d \in Controllers : pc[d] = "create") => torn' # {}
    BY <1>16 DEF RemoveFiles, When
  <2>2. pc'[c] = "idle"
    BY <1>1, <1>16, EndsAt DEF RemoveFiles, Uninstalled, TInv
  <2>3. entry' = "present" => files' \/ torn' # {}
    BY <1>1, <2>1 DEF Whole
  <2>4. (\E d \in Controllers : pc'[d] = "create") => files' \/ torn' # {}
    BY <1>1, <1>2, <2>1, <2>2 DEF Whole
  <2> QED
    BY <1>1, <1>2, <2>1, <2>2, <2>3, <2>4 DEF Whole
<1>17. ASSUME NEW ok \in BOOLEAN, NEW more \in BOOLEAN, NEW timeout \in BOOLEAN, WaitStarted(c, ok,
    more, timeout) PROVE Whole'
  <2>1. UNCHANGED <<entry, files, torn, leaked>>
    BY <1>17 DEF WaitStarted
  <2>2. pc'[c] \notin {"create", "remove"}
    BY <1>1, <1>17, GotoAt, EndsAt, NotStartedAt, StoppedAt, NotStoppedAt
       DEF WaitStarted, Started, StoppedTo, NotStoppedTo, TInv
  <2> QED
    BY <1>3, <2>1, <2>2 DEF Aside
<1> QED
  BY <1>4, <1>5, <1>6, <1>7, <1>8, <1>9, <1>10, <1>11, <1>12, <1>13, <1>14, <1>15, <1>16, <1>17 DEF Step

LEMMA DialogWhole ==
  ASSUME SInv, NEW c \in Controllers, Open(c) \/ Close(c) \/ (\E j \in Jobs : Click(c, j))
  PROVE  Whole'
<1>1. TInv /\ Whole /\ UNCHANGED <<entry, files, torn>>
  BY DEF SInv, Open, Close, Click, manager
<1>2. /\ \A d \in Controllers \ {c} : pc'[d] = pc[d] /\ leaked'[d] = leaked[d]
      /\ pc'[c] \notin {"create", "remove"}
  <2>1. CASE Open(c) \/ Close(c)
    BY <1>1, <2>1 DEF Open, Close, Goto, TInv, TypePlace, TypeHandles
  <2>2. ASSUME NEW j \in Jobs, Click(c, j)
        PROVE  (\A d \in Controllers \ {c} : pc'[d] = pc[d]) /\ leaked' = leaked /\ pc'[c] \notin {"create", "remove"}
    <3>1. pc' = [pc EXCEPT ![c] = Entrance(j)] /\ leaked' = leaked
      BY <2>2 DEF Click, Goto
    <3>2. Entrance(j) \notin {"create", "remove"}
      BY DEF Entrance, Jobs
    <3> QED
      BY <1>1, <3>1, <3>2 DEF TInv, TypePlace
  <2> QED
    BY <2>1, <2>2
<1> QED
  BY <1>1, <1>2 DEF Whole

LEMMA ServiceWhole ==
  ASSUME SInv, Lives \/ Dies \/ Vanish
  PROVE  Whole'
<1>1. Whole /\ UNCHANGED <<files, pc, leaked, torn>>
  BY DEF SInv, Lives, Dies, Vanish, service
<1>2. CASE UNCHANGED entry
  BY <1>1, <1>2 DEF Whole
<1>3. CASE Vanish
  <2>1. \A c \in Controllers : ~leaked[c]
    BY <1>3 DEF Vanish, Holding
  <2>2. entry # "present" /\ entry' = "absent"
    BY <1>3 DEF Vanish
  <2> QED
    BY <1>1, <2>1, <2>2 DEF Whole
<1> QED
  BY <1>2, <1>3 DEF Lives, Dies

(***************************************************************************)
(* The theorems.                                                           *)
(***************************************************************************)
LEMMA InitSInv == Init => SInv
<1> SUFFICES ASSUME Init PROVE SInv
  OBVIOUS
<1> USE DEF Init
<1>1. TInv
  <2>1. TypeManager /\ TypeTorn
    BY DEF TypeManager, TypeTorn
  <2>2. TypePlace
    BY DEF TypePlace
  <2>3. TypeHandles /\ TypeShown
    BY DEF TypeHandles, TypeShown
  <2>4. TypeCounts /\ TypeTrouble
    BY SetupAssumption DEF TypeCounts, TypeTrouble
  <2> QED
    BY <2>1, <2>2, <2>3, <2>4 DEF TInv
<1>2. \A c \in Controllers : Dialog(c)
  BY DEF Dialog, Routes, Alone, TextInv, ButtonInv, Clear, Calm, Free
<1>3. Whole
  BY DEF Whole
<1> QED
  BY <1>1, <1>2, <1>3 DEF SInv

LEMMA SInvStep == SInv /\ [Next]_vars => SInv'
<1> SUFFICES ASSUME SInv, [Next]_vars PROVE SInv'
  OBVIOUS
<1>1. TInv'
  BY TypeStep DEF SInv
<1>2. CASE Next
  <2>1. \A d \in Controllers : Dialog(d)'
    BY <1>2, HandlerStep, OpenStep, CloseStep, ClickStep, ServiceStep DEF Next
  <2>2. Whole'
    BY <1>2, WholeStep, DialogWhole, ServiceWhole DEF Next
  <2> QED
    BY <1>1, <2>1, <2>2 DEF SInv
<1>3. CASE UNCHANGED vars
  BY <1>1, <1>3 DEF SInv, vars, manager, service, shown, Dialog, Routes, Alone, TextInv, TextTrue,
                    ButtonInv, Installed, Clear, Calm, Free, Whole
<1> QED
  BY <1>2, <1>3

LEMMA SInvHolds == Spec => []SInv
  BY InitSInv, SInvStep, PTL DEF Spec

(* Every variable keeps its type: a controller has a job exactly while its *)
(* handler runs, and a service that is not there is stopped.               *)
THEOREM TypeCorrect == Spec => []TypeOK
<1>1. SInv => TypeOK
  BY TypesAreTInv DEF SInv
<1> QED
  BY <1>1, SInvHolds, PTL

(* ButtonsMatch: a dialog at rest that nothing has disturbed and whose      *)
(* calls came out as its handlers take them offers to uninstall exactly     *)
(* what OnInstall and OnUninstall have left installed.                      *)
THEOREM ButtonsAreRight == Spec => []ButtonsMatch
<1>1. SInv => ButtonsMatch
  <2> SUFFICES ASSUME SInv, NEW c \in Controllers,
                      Clean(c, {"fault", "timeout", "other", "start failed", "stop failed",
                          "create failed"})
               PROVE  button[c] = "uninstall" <=> Installed
    BY DEF ButtonsMatch
  <2>1. pc[c] = "idle" /\ Clear(c)
    BY DEF Clean, Clear, Calm, Free
  <2>2. job[c] = "none"
    BY <2>1 DEF SInv, TInv, TypePlace
  <2> QED
    BY <2>1, <2>2 DEF SInv, Dialog, ButtonInv
<1> QED
  BY <1>1, SInvHolds, PTL

(* TextHolds: the status line that the handlers set stays true of the       *)
(* service, its pauses, failures to start and deaths between the clicks     *)
(* included, as long as no trouble is noted.                                *)
THEOREM TextIsTrue == Spec => []TextHolds
<1>1. SInv => TextHolds
  <2> SUFFICES ASSUME SInv, NEW c \in Controllers, Clean(c, {"fault", "timeout", "other",
      "start failed"})
               PROVE  TextTrue(c)
    BY DEF TextHolds, TextTrue
  <2>1. pc[c] = "idle" /\ Calm(c)
    BY DEF Clean, Calm, Free
  <2>2. job[c] = "none"
    BY <2>1 DEF SInv, TInv, TypePlace
  <2> QED
    BY <2>1, <2>2 DEF SInv, Dialog, TextInv
<1> QED
  BY <1>1, SInvHolds, PTL

(* InstalledIsWhole: whatever the controllers do at the same time, a        *)
(* service in the database has its program, but for the three ways noted in *)
(* torn.                                                                    *)
THEOREM InstallationsAreWhole == Spec => []InstalledIsWhole
<1>1. SInv => InstalledIsWhole
  BY DEF SInv, Whole, InstalledIsWhole
<1> QED
  BY <1>1, SInvHolds, PTL

-----------------------------------------------------------------------------
(* The archive reader.  When it returns no file is open (AtPlace); Entire   *)
(* says of the files at rest what FilesAreWhole says in the end, Left of the *)
(* members passed what NothingIsMissed says of all.                         *)

(* A place in the archive: the members are what the format knows, and the  *)
(* reader does not run over the mark of the end.                            *)
PlaceOK == /\ members \in Seq(Member)
           /\ here \in (1..Len(members) + 1) \X (Nat \ {0})
           /\ here[2] <= Blocks(here[1])

Target(i) == IF members[i].record = "none" THEN Path(i) ELSE LongLink
Written(i, n) == [k \in 1..n |-> <<i, k>>]
Stored == Files("none") \cup Files("same")

(* What a block of each type says of where the reader is. *)
BlockMeans(type) ==
  LET i == here[1]  k == here[2]
  IN /\ type = "end" => i = Len(members) + 1 /\ k = 1
     /\ type # "end" => i \in 1..Len(members)
     /\ type = "data" => k > Headers(i) /\ This.part = <<i, k - Headers(i)>>
     /\ type = "file" => /\ k = Headers(i) /\ i \in Stored /\ This.name = Path(i)
                         /\ This.size = members[i].size
     /\ type \in {"directory", "link"} => k = Headers(i) /\ Blocks(i) = k /\ i \notin Stored
     /\ type = "directory" => This.name = <<members[i].directory, 0>>
     /\ type = "long" => /\ k = 1 /\ Headers(i) = 3 /\ This.name = LongLink
                         /\ This.size = 1 <=> members[i].record # "over"

LEMMA MemberFacts ==
  ASSUME PlaceOK, NEW i \in 1..Len(members)
  PROVE  /\ members[i].kind \in {"file", "directory", "link"}
         /\ members[i].size \in 0..MaxBlocks
         /\ i \in Stored <=> members[i].kind = "file"
         /\ i \notin Stored => members[i].size = 0
         /\ i \in Stored => members[i].record \in {"none", "same"}
         /\ Headers(i) \in {1, 3} /\ Blocks(i) = Headers(i) + members[i].size
         /\ Headers(i) = 1 <=> members[i].record = "none"
         /\ Path(i)[2] = i /\ members[i].directory \in {Top, "d"}
<1>1. members[i] \in Member  BY DEF PlaceOK
<1>2. Len(members) \in Nat  BY DEF PlaceOK
<1>3. members[i].kind = "file" => members[i].record \in {"none", "same"}  BY <1>1 DEF Member
<1>4. i \in Stored <=> members[i].kind = "file"  BY <1>3 DEF Stored, Files
<1> QED  BY <1>1, <1>2, <1>3, <1>4, ReaderAssumption DEF Member, Headers, Blocks, Path

LEMMA BlockFacts == PlaceOK => BlockMeans(This.type)
<1> SUFFICES ASSUME PlaceOK PROVE BlockMeans(This.type)  OBVIOUS
<1> DEFINE i == here[1]  k == here[2]
<1>1. Len(members) \in Nat /\ i \in 1..Len(members) + 1 /\ k \in Nat /\ k > 0 /\ k <= Blocks(i)
  BY DEF PlaceOK
<1>2. CASE i > Len(members)
  <2>1. This.type = "end" /\ k = 1 /\ i = Len(members) + 1
    BY <1>1, <1>2 DEF This, BlockAt, Block, Blocks
  <2> QED  BY <2>1 DEF BlockMeans
<1>3. CASE i <= Len(members)
  <2>1. i \in 1..Len(members)  BY <1>1, <1>3
  <2>2. /\ members[i].kind \in {"file", "directory", "link"} /\ members[i].size \in Nat
        /\ i \notin Stored => members[i].size = 0
        /\ Headers(i) \in {1, 3} /\ Blocks(i) = Headers(i) + members[i].size
        /\ i \in Stored <=> members[i].kind = "file"
    BY <2>1, MemberFacts, ReaderAssumption
  <2>3. CASE k > Headers(i)
    <3>1. This = Block("data", NoPath, 0, <<i, k - Headers(i)>>)
      BY <1>1, <1>3, <2>2, <2>3 DEF This, BlockAt
    <3> QED  BY <3>1, <2>1, <2>3 DEF BlockMeans, Block
  <2>4. CASE k = Headers(i)
    <3>1. This = Block(members[i].kind, Name(i), members[i].size, NoPart)
      BY <1>1, <1>3, <2>2, <2>4 DEF This, BlockAt
    <3> QED  BY <3>1, <1>1, <2>1, <2>2, <2>4 DEF BlockMeans, Block, Name
  <2>5. CASE k < Headers(i)
    <3>1. Headers(i) = 3 /\ k \in {1, 2}  BY <1>1, <2>2, <2>5
    <3>2. This = IF k = 1 THEN Block("long", LongLink, IF members[i].record = "over" THEN 2 ELSE 1, NoPart)
                          ELSE Block("name", Announced(i), 0, NoPart)
      BY <1>1, <1>3, <2>2, <2>5 DEF This, BlockAt
    <3> QED  BY <3>1, <3>2, <2>1 DEF BlockMeans, Block
  <2> QED  BY <1>1, <2>2, <2>3, <2>4, <2>5
<1> QED  BY <1>1, <1>2, <1>3

(* The block behind one that is not the mark. *)
LEMMA AfterFacts ==
  ASSUME PlaceOK, here[1] \in 1..Len(members)
  PROVE  /\ After(here) \in (1..Len(members) + 1) \X (Nat \ {0})
         /\ After(here)[2] <= Blocks(After(here)[1])
         /\ here[2] < Blocks(here[1]) => After(here) = <<here[1], here[2] + 1>>
         /\ here[2] = Blocks(here[1]) => After(here) = <<here[1] + 1, 1>>
<1> DEFINE i == here[1]  k == here[2]
<1>1. Len(members) \in Nat /\ i \in 1..Len(members) /\ k \in Nat /\ k > 0 /\ k <= Blocks(i)
  BY DEF PlaceOK
<1>2. Blocks(i) \in Nat  BY <1>1, MemberFacts, ReaderAssumption
<1>3. CASE k < Blocks(i)
  BY <1>1, <1>2, <1>3 DEF After
<1>4. CASE k = Blocks(i)
  <2>1. After(here) = <<i + 1, 1>>  BY <1>1, <1>2, <1>4 DEF After
  <2>2. 1 <= Blocks(i + 1)
    <3>1. CASE i + 1 \in 1..Len(members)  BY <3>1, MemberFacts, ReaderAssumption
    <3>2. CASE i + 1 > Len(members)  BY <3>2 DEF Blocks
    <3> QED  BY <1>1, <3>1, <3>2
  <2> QED  BY <1>1, <1>2, <1>4, <2>1, <2>2
<1> QED  BY <1>1, <1>2, <1>3, <1>4

LEMMA WrittenFacts ==
  /\ \A i : Written(i, 0) = << >>
  /\ \A i : \A n \in Nat : Append(Written(i, n), <<i, n + 1>>) = Written(i, n + 1)
<1>1. ASSUME NEW i PROVE Written(i, 0) = << >>
  BY DEF Written
<1>2. ASSUME NEW i, NEW n \in Nat PROVE Append(Written(i, n), <<i, n + 1>>) = Written(i, n + 1)
  <2>1. Written(i, n) \in Seq({<<i, k>> : k \in Nat}) /\ Len(Written(i, n)) = n
    BY DEF Written
  <2> QED  BY <2>1 DEF Written
<1> QED  BY <1>1, <1>2

LEMMA PlaceStep == PlaceOK /\ [ReaderNext]_readerVars => PlaceOK'
<1> SUFFICES ASSUME PlaceOK, [ReaderNext]_readerVars PROVE PlaceOK'  OBVIOUS
<1>1. BlockMeans(This.type)  BY BlockFacts
<1>2. ASSUME members' = members, here' = here PROVE PlaceOK'
  BY <1>2 DEF PlaceOK, Blocks, Headers
<1>3. ASSUME members' = members, here[1] \in 1..Len(members), here' = After(here) PROVE PlaceOK'
  BY <1>3, AfterFacts DEF PlaceOK, Blocks, Headers
<1>4. ASSUME NEW type \in {"directory", "file", "link", "data"}, Reads(type) PROVE PlaceOK'
  <2>1. This.type # "end" /\ members' = members /\ here' = After(here)  BY <1>4 DEF Reads
  <2> QED  BY <1>1, <1>3, <2>1 DEF BlockMeans
<1>5. ASSUME LongName PROVE PlaceOK'
  <2>1. /\ This.type = "long" /\ members' = members
        /\ here' = After(here) \/ here' = After(After(here))
    BY <1>5 DEF LongName
  <2>2. here[1] \in 1..Len(members) /\ here[2] = 1 /\ Headers(here[1]) = 3
    BY <1>1, <2>1 DEF BlockMeans
  <2>3. Blocks(here[1]) \in Nat /\ 3 <= Blocks(here[1])
    BY <2>2, MemberFacts, ReaderAssumption
  <2>4. After(here) = <<here[1], 2>>  BY <2>2, <2>3, AfterFacts
  <2>5. After(After(here)) = <<here[1], 3>>  BY <2>3, <2>4 DEF After
  <2> QED  BY <2>1, <2>2, <2>3, <2>4, <2>5 DEF PlaceOK, Blocks, Headers
<1>6. ASSUME NEW ok \in BOOLEAN PROVE MakeDirectory(ok) \/ OpenFile(ok) => PlaceOK'
  BY <1>4 DEF MakeDirectory, OpenFile
<1>7. ASSUME NEW ok \in BOOLEAN, NEW noticed \in BOOLEAN PROVE WriteData(ok, noticed) => PlaceOK'
  BY <1>4 DEF WriteData
<1>8. SkipMember => PlaceOK'  BY <1>4 DEF SkipMember
<1>9. (\E ok \in BOOLEAN : Return(ok)) \/ Exit \/ Done \/ UNCHANGED readerVars => PlaceOK'
  BY <1>2 DEF Return, Exit, Done, readerVars, archive
<1> QED  BY <1>5, <1>6, <1>7, <1>8, <1>9 DEF ReaderNext

(* The name at the path of a record is the record's, any other a member's. *)
NamesOK == /\ getheader = 2 => fpathname = LongLink
           /\ \A path \in DOMAIN folder : path = LongLink \/ \E i \in 1..Len(members) : path = Path(i)

(* The path of a file or directory whose header is read. *)
LEMMA TitledFacts ==
  ASSUME PlaceOK, NamesOK, getheader \in 0..2, Titled, here[1] \in 1..Len(members)
  PROVE  fpathname' = This.name \/ fpathname' = LongLink
<1>1. getheader \in {1, 2}  BY DEF Titled
<1> QED  BY <1>1 DEF Titled, NamesOK

LEMMA NamesStep == PlaceOK /\ NamesOK /\ ReaderTypeOK /\ [ReaderNext]_readerVars => NamesOK'
<1> SUFFICES ASSUME PlaceOK, NamesOK, ReaderTypeOK, [ReaderNext]_readerVars PROVE NamesOK'
  OBVIOUS
<1>1. BlockMeans(This.type)  BY BlockFacts
<1>2. ASSUME members' = members,
             \A path \in DOMAIN folder' : path \in DOMAIN folder \/ path = LongLink \/
                                          \E i \in 1..Len(members) : path = Path(i),
             getheader' = 2 => fpathname' = LongLink
      PROVE  NamesOK'
  <2>1. Len(members)' = Len(members) /\ LongLink' = LongLink /\ \A i : Path(i)' = Path(i)
    BY <1>2 DEF Path, LongLink
  <2> QED  BY <1>2, <2>1 DEF NamesOK
<1>3. ASSUME NEW ok \in BOOLEAN, MakeDirectory(ok) PROVE NamesOK'
  BY <1>2, <1>3 DEF MakeDirectory, Reads
<1>4. ASSUME NEW ok \in BOOLEAN, OpenFile(ok) PROVE NamesOK'
  <2>1. /\ This.type = "file" /\ members' = members /\ getheader' # 2 /\ Titled
        /\ \A path \in DOMAIN folder' : path \in DOMAIN folder \/ path = fpathname'
    BY <1>4 DEF OpenFile, Reads, TurnEnds, Holds
  <2>2. here[1] \in 1..Len(members) /\ This.name = Path(here[1])  BY <1>1, <2>1 DEF BlockMeans
  <2>3. fpathname' = Path(here[1]) \/ fpathname' = LongLink
    BY <2>1, <2>2, TitledFacts DEF ReaderTypeOK
  <2> QED  BY <1>2, <2>1, <2>2, <2>3
<1>5. ASSUME LongName PROVE NamesOK'
  BY <1>1, <1>2, <1>5 DEF LongName, BlockMeans, disk
<1>6. ASSUME SkipMember PROVE NamesOK'
  BY <1>2, <1>6 DEF SkipMember, Reads, TurnEnds, disk
<1>7. ASSUME NEW ok \in BOOLEAN, NEW noticed \in BOOLEAN, WriteData(ok, noticed) PROVE NamesOK'
  <2>1. /\ members' = members /\ getheader' # 2
        /\ \A path \in DOMAIN folder' : path \in DOMAIN folder
    BY <1>7 DEF WriteData, Reads, TurnEnds, Holds, ReaderTypeOK
  <2> QED  BY <1>2, <2>1
<1>8. ASSUME (\E ok \in BOOLEAN : Return(ok)) \/ Exit \/ Done \/ UNCHANGED readerVars PROVE NamesOK'
  <2>1. members' = members /\ folder' = folder /\ getheader' = getheader /\ fpathname' = fpathname
    BY <1>8 DEF Return, Exit, Done, readerVars, archive, reader, disk
  <2> QED  BY <1>2, <2>1 DEF NamesOK
<1> QED  BY <1>3, <1>4, <1>5, <1>6, <1>7, <1>8 DEF ReaderNext

(* A path that a directory could take is that of a record. *)
LEMMA OccupiedFacts ==
  ASSUME PlaceOK, NamesOK, NEW path \in DOMAIN folder, path[2] = 0
  PROVE  path = LongLink
<1>1. ASSUME NEW i \in 1..Len(members) PROVE Path(i)[2] # 0
  BY <1>1, MemberFacts DEF PlaceOK
<1> QED  BY <1>1 DEF NamesOK

LEMMA ReaderTypeStep == PlaceOK /\ NamesOK /\ ReaderTypeOK /\ [ReaderNext]_readerVars => ReaderTypeOK'
<1> SUFFICES ASSUME PlaceOK, NamesOK, ReaderTypeOK, [ReaderNext]_readerVars PROVE ReaderTypeOK'
  OBVIOUS
<1> USE ReaderAssumption
<1>1. BlockMeans(This.type)  BY BlockFacts
<1>2. ASSUME This.type = "file" PROVE This.size \in 0..MaxBlocks
  BY <1>1, <1>2, MemberFacts DEF BlockMeans
<1>3. ASSUME NEW ok \in BOOLEAN, MakeDirectory(ok) PROVE ReaderTypeOK'
  <2>1. /\ getheader' = 1 /\ remaining' = remaining /\ ~outfile' /\ folder' = folder
        /\ result' = "reading" /\ failures' \in 0..MaxFailures
        /\ restored' \subseteq attributes' /\ directories \subseteq directories'
        /\ Titled /\ This.type = "directory"
    BY <1>3 DEF MakeDirectory, Reads, Fails, ReaderTypeOK
  <2>2. /\ here[1] \in 1..Len(members) /\ members[here[1]].directory \in {Top, "d"}
        /\ This.name = <<members[here[1]].directory, 0>>
    BY <1>1, <2>1, MemberFacts DEF BlockMeans
  <2>3. fpathname' = This.name \/ fpathname' = LongLink
    BY <2>1, <2>2, TitledFacts DEF ReaderTypeOK
  <2>4. ASSUME NEW path \in DOMAIN folder
        PROVE  Parent(path) \in directories' /\ ~(path[2] = 0 /\ path[1] \in directories')
    <3>1. Parent(path) \in directories /\ ~(path[2] = 0 /\ path[1] \in directories)
      BY DEF ReaderTypeOK, Occupied
    <3>2. CASE directories' = directories  BY <3>1, <3>2
    <3>3. CASE fpathname' \notin DOMAIN folder /\ directories' = directories \cup {fpathname'[1]}
      <4> SUFFICES ASSUME path[2] = 0, path[1] = fpathname'[1] PROVE FALSE
        BY <3>1, <3>3
      <4>1. path = LongLink  BY OccupiedFacts
      <4>2. fpathname' = This.name  BY <2>3, <3>3, <4>1
      <4> QED  BY <2>2, <4>1, <4>2 DEF LongLink, Top
    <3> QED  BY <1>3, <3>2, <3>3 DEF MakeDirectory
  <2> QED  BY <2>1, <2>4 DEF ReaderTypeOK, Parent, Occupied
<1>4. ASSUME NEW ok \in BOOLEAN, OpenFile(ok) PROVE ReaderTypeOK'
  <2>1. This.size \in 0..MaxBlocks  BY <1>2, <1>4 DEF OpenFile, Reads
  <2>2. /\ getheader' \in 0..2 /\ remaining' \in 0..MaxBlocks + 1 /\ (getheader' = 0 => remaining' > 0)
        /\ result' = "reading" /\ failures' \in 0..MaxFailures
        /\ restored' \subseteq attributes'
    BY <1>4, <2>1 DEF OpenFile, Reads, Fails, TurnEnds, ReaderTypeOK
  <2>3. outfile' => getheader' = 0 /\ ok  BY <1>4 DEF OpenFile, TurnEnds
  <2>4. CASE ok
    <3>1. /\ DOMAIN folder' = DOMAIN folder \cup {fpathname'}
          /\ directories' = directories \cup {Parent(fpathname')}
          /\ ~Occupied(fpathname') /\ Titled /\ This.type = "file"
      BY <1>4, <2>4 DEF OpenFile, Holds, Reads
    <3>2. /\ here[1] \in 1..Len(members) /\ members[here[1]].directory \in {Top, "d"}
          /\ This.name = Path(here[1]) /\ Path(here[1])[2] # 0
      <4>1. here[1] \in 1..Len(members) /\ This.name = Path(here[1])
        BY <1>1, <3>1 DEF BlockMeans
      <4>2. here[1] # 0  BY <4>1 DEF PlaceOK
      <4> QED  BY <4>1, <4>2, MemberFacts
    <3>3. fpathname' = Path(here[1]) \/ fpathname' = LongLink
      BY <3>1, <3>2, TitledFacts DEF ReaderTypeOK
    <3>4. Parent(fpathname') \in {Top, "d"}
      BY <3>2, <3>3 DEF Parent, Path
    <3>5. LongLink[1] \notin {Top, "d"}  BY DEF LongLink, Top
    <3>6. ASSUME NEW path \in DOMAIN folder'
          PROVE  Parent(path) \in directories' /\ ~(path[2] = 0 /\ path[1] \in directories')
      <4>1. CASE path \in DOMAIN folder
        <5>1. Parent(path) \in directories /\ ~(path[2] = 0 /\ path[1] \in directories)
          BY <4>1 DEF ReaderTypeOK, Occupied
        <5>2. path[2] = 0 => path = LongLink  BY <4>1, OccupiedFacts
        <5> QED  BY <3>1, <3>4, <3>5, <5>1, <5>2
      <4>2. CASE path = fpathname'
        <5>1. ~(path[2] = 0 /\ path[1] \in directories)  BY <3>1, <4>2 DEF Occupied
        <5>2. path[2] = 0 => path = LongLink  BY <3>2, <3>3, <4>2
        <5> QED  BY <3>1, <3>4, <3>5, <4>2, <5>1, <5>2
      <4> QED  BY <3>1, <3>6, <4>1, <4>2
    <3> QED  BY <2>2, <2>3, <3>1, <3>6 DEF ReaderTypeOK, Parent, Occupied
  <2>5. CASE ~ok
    <3>1. folder' = folder /\ directories' = directories  BY <1>4, <2>5 DEF OpenFile
    <3> QED  BY <2>2, <2>3, <2>5, <3>1 DEF ReaderTypeOK, Parent, Occupied
  <2> QED  BY <2>4, <2>5
<1>5. ASSUME LongName PROVE ReaderTypeOK'
  BY <1>5 DEF LongName, disk, ReaderTypeOK, Parent, Occupied
<1>6. ASSUME SkipMember PROVE ReaderTypeOK'
  <2>1. ~outfile'  BY <1>6 DEF SkipMember, TurnEnds
  <2>2. UNCHANGED <<folder, directories, result, failures, remaining, restored>>
        /\ getheader' = 1 /\ attributes' = attributes
    BY <1>6 DEF SkipMember, Reads, TurnEnds, disk
  <2> QED  BY <2>1, <2>2 DEF ReaderTypeOK, Parent, Occupied
<1>7. ASSUME NEW ok \in BOOLEAN, NEW noticed \in BOOLEAN, WriteData(ok, noticed) PROVE ReaderTypeOK'
  <2>1. /\ getheader' \in 0..2 /\ remaining' \in 0..MaxBlocks + 1 /\ (getheader' = 0 => remaining' > 0)
        /\ result' = "reading" /\ failures' \in 0..MaxFailures
        /\ restored' \subseteq attributes'
    BY <1>7 DEF WriteData, Reads, Fails, TurnEnds, ReaderTypeOK
  <2>2. outfile' => getheader' = 0 /\ outfile  BY <1>7 DEF WriteData, TurnEnds
  <2>3. fpathname' = fpathname /\ directories' = directories /\ DOMAIN folder' \subseteq DOMAIN folder
        /\ DOMAIN folder \subseteq DOMAIN folder'
    BY <1>7 DEF WriteData, Holds, ReaderTypeOK
  <2> QED  BY <2>1, <2>2, <2>3 DEF ReaderTypeOK, Parent, Occupied
<1>8. ASSUME NEW ok \in BOOLEAN, Return(ok) PROVE ReaderTypeOK'
  BY <1>8 DEF Return, Fails, archive, reader, disk, ReaderTypeOK, Parent, Occupied
<1>9. ASSUME Exit \/ Done \/ UNCHANGED readerVars PROVE ReaderTypeOK'
  BY <1>9 DEF Exit, Done, Fails, readerVars, archive, reader, disk, ReaderTypeOK, Parent, Occupied
<1> QED  BY <1>3, <1>4, <1>5, <1>6, <1>7, <1>8, <1>9 DEF ReaderNext

LEMMA ReaderInitTypes == ReaderInit => PlaceOK /\ NamesOK /\ ReaderTypeOK
<1> SUFFICES ASSUME ReaderInit PROVE PlaceOK /\ NamesOK /\ ReaderTypeOK  OBVIOUS
<1>1. PICK n \in 0..MaxMembers : members \in [1..n -> Member]  BY DEF ReaderInit
<1>2. members \in Seq(Member) /\ Len(members) = n /\ n \in Nat  BY <1>1, ReaderAssumption
<1>3. 1 <= Blocks(1)
  <2>1. CASE n = 0  BY <1>2, <2>1 DEF Blocks
  <2>2. CASE n > 0
    <3>1. members[1] \in Member  BY <1>1, <1>2, <2>2
    <3>2. members[1].size \in Nat  BY <3>1, ReaderAssumption DEF Member
    <3> QED  BY <1>2, <2>2, <3>2 DEF Blocks, Headers
  <2> QED  BY <1>2, <2>1, <2>2
<1>4. PlaceOK  BY <1>2, <1>3 DEF ReaderInit, PlaceOK
<1>5. NamesOK /\ ReaderTypeOK  BY ReaderAssumption DEF ReaderInit, NamesOK, ReaderTypeOK
<1> QED  BY <1>4, <1>5

(* Type correctness of the reader; that data are expected only of a member *)
(* that has some left, and that the open file is one that was created.      *)
THEOREM ArchiveTypeCorrect == ReaderSpec => []ReaderTypeOK
<1>1. PlaceOK /\ NamesOK /\ ReaderTypeOK /\ [ReaderNext]_readerVars
        => (PlaceOK /\ NamesOK /\ ReaderTypeOK)'
  BY PlaceStep, NamesStep, ReaderTypeStep
<1> QED  BY <1>1, ReaderInitTypes, PTL DEF ReaderSpec

(* The data of a member are expected, or were read, at its path. *)
Opened(i) == i < here[1] \/ (i = here[1] /\ here[2] > Headers(i))

(* Of several members with long names only the last one opened is left. *)
Overtaken(i) == i \in Files("same") /\ \E j \in Files("same") : j > i /\ Opened(j)

AtPlace ==
  LET i == here[1]  k == here[2]
  IN /\ k = 1 => getheader = 1 /\ ~outfile
     /\ i \in 1..Len(members) /\ k \in 2..Headers(i) =>
          /\ getheader = 2 /\ ~outfile /\ members[i].record # "over"
          /\ k = 2 => here = cut
          /\ k = 3 => fname = Announced(i) /\ fpathname = LongLink
     /\ i \in 1..Len(members) /\ k > Headers(i) =>
          /\ getheader = 0 /\ remaining = members[i].size + Headers(i) + 1 - k
          /\ fpathname = Target(i)
          /\ \/ fpathname \in refused
             \/ outfile /\ folder[fpathname] = Written(i, k - Headers(i) - 1)

Entire == \A path \in DOMAIN folder \ refused :
          \/ outfile /\ path = fpathname
          \/ path \in attributes /\ \E i \in Stored : folder[path] = Content(i)

Left == \A i \in Stored : i < here[1] /\ ~Overtaken(i) => Extracted(Target(i), i)

ReaderInv == /\ result = "reading" => AtPlace /\ Entire /\ Left
             /\ FilesAreWhole /\ NothingIsMissed

(* What stands in the archive does not change. *)
LEMMA FormatStays ==
  ASSUME members' = members
  PROVE  /\ Len(members)' = Len(members) /\ Stored' = Stored /\ Files("same")' = Files("same")
         /\ \A i : /\ Headers(i)' = Headers(i) /\ Blocks(i)' = Blocks(i) /\ Path(i)' = Path(i)
                   /\ Target(i)' = Target(i) /\ Content(i)' = Content(i)
                   /\ Announced(i)' = Announced(i)
<1>1. Len(members)' = Len(members)  OBVIOUS
<1>2. Stored' = Stored /\ Files("same")' = Files("same")  BY <1>1 DEF Stored, Files
<1>3. ASSUME NEW i PROVE /\ Headers(i)' = Headers(i) /\ Path(i)' = Path(i)
                         /\ Content(i)' = Content(i) /\ Announced(i)' = Announced(i)
  BY DEF Headers, Path, Content, Announced, Name
<1>4. ASSUME NEW i PROVE Blocks(i)' = Blocks(i)  BY <1>1, <1>3 DEF Blocks
<1>5. ASSUME NEW i PROVE Target(i)' = Target(i)  BY <1>3 DEF Target
<1> QED  BY <1>1, <1>2, <1>3, <1>4, <1>5

(* Two files go to one path only if both have long names. *)
LEMMA PathsDiffer ==
  ASSUME PlaceOK, NEW i \in Stored, NEW j \in Stored, i # j, Target(i) = Target(j)
  PROVE  i \in Files("same") /\ j \in Files("same")
<1>1. i \in 1..Len(members) /\ j \in 1..Len(members)  BY DEF Stored, Files
<1>2. Path(i)[2] = i /\ Path(j)[2] = j /\ LongLink[2] = 0  BY <1>1, MemberFacts DEF LongLink
<1>3. 0 \notin 1..Len(members)  BY DEF PlaceOK
<1>4. members[i].record # "none" /\ members[j].record # "none"
  BY <1>1, <1>2, <1>3 DEF Target
<1> QED  BY <1>4 DEF Stored, Files

(* A step of the member at hand leaves what was extracted of earlier ones. *)
LEMMA EarlierStay ==
  ASSUME PlaceOK, Left, members' = members, refused \subseteq refused', NEW i \in Stored, i = here[1],
         \A path \in DOMAIN folder : path # Target(i) =>
            path \in DOMAIN folder' /\ folder'[path] = folder[path],
         \A n \in 1..Len(members) : Opened(n) => Opened(n)', Opened(i)',
         NEW j \in Stored, j < i, ~Overtaken(j)'
  PROVE  Extracted(Target(j), j)'
<1>1. j \in 1..Len(members) /\ i \in 1..Len(members)  BY DEF Stored, Files
<1>2. Files("same")' = Files("same") /\ Target(j)' = Target(j) /\ Content(j)' = Content(j)
  BY FormatStays
<1>3. ~Overtaken(j)  BY <1>2 DEF Overtaken, Files
<1>4. Target(j) # Target(i)
  BY <1>1, <1>2, PathsDiffer DEF Overtaken
<1>5. Extracted(Target(j), j)  BY <1>3 DEF Left
<1> QED  BY <1>2, <1>4, <1>5 DEF Extracted

Reading == PlaceOK /\ ReaderTypeOK /\ AtPlace /\ Entire /\ Left

(* A directory, or a member of another type, has no data. *)
LEMMA PassStep ==
  ASSUME Reading, NEW type \in {"directory", "link"}, Reads(type),
         UNCHANGED <<folder, refused>>, attributes \subseteq attributes', getheader' = 1, ~outfile'
  PROVE  AtPlace' /\ Entire' /\ Left'
<1> USE DEF Reading
<1> PICK i : i = here[1]  OBVIOUS
<1>1. This.type = type /\ members' = members /\ here' = After(here)  BY DEF Reads
<1>2. i \in 1..Len(members) /\ i \notin Stored /\ here[2] = Headers(i) /\ Blocks(i) = Headers(i)
  BY <1>1, BlockFacts DEF BlockMeans
<1>3. here' = <<i + 1, 1>>  BY <1>1, <1>2, AfterFacts
<1>4. ~outfile  BY <1>2, MemberFacts DEF AtPlace
<1>5. \A n \in 1..Len(members) : Headers(n) \in {1, 3}  BY MemberFacts
<1>6. Len(members) \in Nat  BY DEF PlaceOK
<1>7. AtPlace'
  <2>1. here'[1] = i + 1 /\ here'[2] = 1 /\ Len(members)' = Len(members)  BY <1>1, <1>3
  <2>2. i + 1 \in 1..Len(members) => Headers(i + 1)' \in {1, 3}  BY <1>1, <1>5, FormatStays
  <2> QED  BY <2>1, <2>2 DEF AtPlace
<1>8. Entire'  BY <1>1, <1>4, FormatStays DEF Entire
<1>9. Left'
  <2> SUFFICES ASSUME NEW j \in Stored, j < i + 1, ~Overtaken(j)' PROVE Extracted(Target(j), j)'
    BY <1>1, <1>3, FormatStays DEF Left
  <2>1. j \in 1..Len(members) /\ j < i  BY <1>2, <1>6 DEF Stored, Files
  <2>2. ASSUME NEW n \in 1..Len(members), Opened(n) PROVE Opened(n)'
    <3>1. n < i \/ n = i  BY <1>2, <2>2 DEF Opened
    <3> QED  BY <1>2, <1>3, <1>6, <3>1 DEF Opened
  <2>3. ~Overtaken(j)  BY <1>1, <2>2, FormatStays DEF Overtaken, Files
  <2>4. Extracted(Target(j), j)  BY <2>1, <2>3 DEF Left
  <2> QED  BY <1>1, <2>4, FormatStays DEF Extracted
<1> QED  BY <1>7, <1>8, <1>9

(* The announcing header and the name, if it is not cut off, are read at once. *)
LEMMA LongNameStep ==
  ASSUME Reading, LongName
  PROVE  AtPlace' /\ Entire' /\ Left'
<1> USE DEF Reading
<1> PICK i : i = here[1]  OBVIOUS
<1>1. /\ This.type = "long" /\ This.size = 1 /\ members' = members /\ cut' = cut
      /\ getheader' = 2 /\ fpathname' = This.name
      /\ UNCHANGED <<folder, refused, attributes>> /\ outfile' = outfile
  BY DEF LongName, disk
<1>2. /\ i \in 1..Len(members) /\ here[2] = 1 /\ Headers(i) = 3 /\ This.name = LongLink
      /\ members[i].record # "over"
  BY <1>1, BlockFacts DEF BlockMeans
<1>3. Headers(i) = 3 /\ Blocks(i) \in Nat /\ 3 <= Blocks(i)
  BY <1>2, MemberFacts, ReaderAssumption
<1>4. After(here) = <<i, 2>>  BY <1>2, <1>3, AfterFacts
<1>5. After(After(here)) = <<i, 3>>  BY <1>3, <1>4 DEF After
<1>6. \/ here' = <<i, 2>> /\ here' = cut'
      \/ here' = <<i, 3>> /\ fname' = BlockAt(<<i, 2>>).name
  BY <1>1, <1>4, <1>5 DEF LongName
<1>7. BlockAt(<<i, 2>>).name = Announced(i)
  <2>1. i <= Len(members) /\ ~(i > Len(members))  BY <1>2
  <2>2. BlockAt(<<i, 2>>) = Block("name", Announced(i), 0, NoPart)  BY <1>3, <2>1 DEF BlockAt
  <2> QED  BY <2>2 DEF Block
<1>8. ~outfile /\ ~outfile'  BY <1>1, <1>2 DEF AtPlace
<1>9. AtPlace'
  BY <1>1, <1>2, <1>3, <1>6, <1>7, <1>8, FormatStays DEF AtPlace
<1>10. Entire'  BY <1>1, <1>8, FormatStays DEF Entire
<1>11. Left'
  <2> SUFFICES ASSUME NEW j \in Stored, j < i, ~Overtaken(j)' PROVE Extracted(Target(j), j)'
    BY <1>1, <1>6, FormatStays DEF Left
  <2>1. ASSUME NEW n \in 1..Len(members), Opened(n) PROVE Opened(n)'
    BY <1>1, <1>2, <1>3, <1>6, <2>1, FormatStays DEF Opened
  <2>2. ~Overtaken(j)  BY <1>1, <2>1, FormatStays DEF Overtaken, Files
  <2>3. Extracted(Target(j), j)  BY <2>2 DEF Left
  <2> QED  BY <1>1, <2>3, FormatStays DEF Extracted
<1> QED  BY <1>9, <1>10, <1>11

(* The header of a member with data: its file is made anew. *)
LEMMA OpenFileStep ==
  ASSUME Reading, NEW ok \in BOOLEAN, OpenFile(ok)
  PROVE  AtPlace' /\ Entire' /\ Left'
<1> USE DEF Reading
<1> PICK i : i = here[1]  OBVIOUS
<1> DEFINE k == here[2]
<1>1. /\ This.type = "file" /\ members' = members /\ cut' = cut /\ here' = After(here) /\ Titled
      /\ refused' = IF ok THEN refused ELSE refused \cup {fpathname'}
      /\ TurnEnds(This.size, 0, ok)
  BY DEF OpenFile, Reads, Refuses
<1>2. i \in 1..Len(members) /\ i \in Stored /\ k = Headers(i) /\ This.name = Path(i)
      /\ This.size = members[i].size
  BY <1>1, BlockFacts DEF BlockMeans
<1>3. /\ Headers(i) \in {1, 3} /\ members[i].size \in Nat /\ Blocks(i) = Headers(i) + members[i].size
      /\ members[i].record = "none" <=> Headers(i) = 1
      /\ \A n \in 1..Len(members) : Headers(n) \in {1, 3}
      /\ Len(members) \in Nat
  BY <1>2, MemberFacts, ReaderAssumption DEF PlaceOK
<1>4. fpathname' = Target(i)
  <2>1. CASE k = 1  BY <1>1, <1>2, <1>3, <2>1 DEF AtPlace, Titled, Target
  <2>2. CASE k = 3
    <3>1. getheader = 2 /\ fpathname = LongLink  BY <1>2, <2>2 DEF AtPlace
    <3> QED  BY <1>1, <1>2, <1>3, <2>2, <3>1 DEF Titled, Target
  <2> QED  BY <1>2, <1>3, <2>1, <2>2
<1>5. ~outfile  BY <1>2, <1>3 DEF AtPlace
<1>6. IF members[i].size = 0 THEN here' = <<i + 1, 1>> ELSE here' = <<i, Headers(i) + 1>>
  BY <1>1, <1>2, <1>3, AfterFacts
<1>7. /\ remaining' = members[i].size
      /\ IF members[i].size = 0
         THEN getheader' = 1 /\ ~outfile' /\ (ok => attributes' = attributes \cup {Target(i)})
         ELSE getheader' = 0 /\ (ok => outfile')
      /\ attributes \subseteq attributes'
  BY <1>1, <1>2, <1>4 DEF TurnEnds
<1>8. /\ \A path \in DOMAIN folder' : path # Target(i) => path \in DOMAIN folder
      /\ \A path \in DOMAIN folder : path # Target(i) =>
           path \in DOMAIN folder' /\ folder'[path] = folder[path]
  BY <1>4 DEF OpenFile, Holds
<1>9. ok => Target(i) \in DOMAIN folder' /\ folder'[Target(i)] = Written(i, 0)
  BY <1>4, WrittenFacts DEF OpenFile, Holds
<1>10. refused \subseteq refused' /\ (~ok => Target(i) \in refused')  BY <1>1, <1>4
<1>11. members[i].size = 0 => Content(i) = Written(i, 0)  BY DEF Content, Written
<1>12. Files("same")' = Files("same") /\ \A n : /\ Headers(n)' = Headers(n) /\ Target(n)' = Target(n)
                                                /\ Content(n)' = Content(n)
  BY <1>1, FormatStays
<1>13. Stored' = Stored /\ Len(members)' = Len(members)  BY <1>1, FormatStays
<1>14. AtPlace'
  <2>1. CASE members[i].size = 0
    <3>1. here'[1] = i + 1 /\ here'[2] = 1 /\ getheader' = 1 /\ ~outfile'  BY <1>6, <1>7, <2>1
    <3>2. i + 1 \in 1..Len(members) => Headers(i + 1)' \in {1, 3}  BY <1>3, <1>12
    <3> QED  BY <1>13, <3>1, <3>2 DEF AtPlace
  <2>2. CASE members[i].size # 0
    <3>1. here'[1] = i /\ here'[2] = Headers(i) + 1  BY <1>6, <2>2
    <3>2. getheader' = 0 /\ remaining' = members[i].size  BY <1>7, <2>2
    <3>3. Headers(i) + 1 - Headers(i) - 1 = 0
          /\ members[i].size + Headers(i) + 1 - (Headers(i) + 1) = members[i].size
      BY <1>3
    <3>4. CASE ok
      <4>1. outfile' /\ folder'[Target(i)] = Written(i, 0)  BY <1>7, <1>9, <2>2, <3>4
      <4>2. Written(i, here'[2] - Headers(i)' - 1) = Written(i, 0)  BY <1>3, <1>12, <3>1
      <4> QED  BY <1>1, <1>3, <1>4, <1>12, <1>13, <3>1, <3>2, <3>3, <4>1, <4>2 DEF AtPlace
    <3>5. CASE ~ok
      BY <1>1, <1>3, <1>4, <1>10, <1>12, <1>13, <3>1, <3>2, <3>3, <3>5 DEF AtPlace
    <3> QED  BY <3>4, <3>5
  <2> QED  BY <2>1, <2>2
<1>15. Entire'
  <2> SUFFICES ASSUME NEW path \in DOMAIN folder' \ refused',
                      ~(outfile' /\ path = fpathname')
               PROVE  path \in attributes' /\ \E n \in Stored : folder'[path] = Content(n)
    BY <1>12, <1>13 DEF Entire
  <2>1. CASE path = Target(i)
    <3>1. ok  BY <1>10, <2>1
    <3>2. members[i].size = 0  BY <1>4, <1>7, <2>1, <3>1
    <3> QED  BY <1>2, <1>7, <1>9, <1>11, <2>1, <3>1, <3>2
  <2>2. CASE path # Target(i)
    <3>1. path \in DOMAIN folder \ refused /\ folder'[path] = folder[path]  BY <1>8, <1>10, <2>2
    <3> QED  BY <1>5, <1>7, <3>1 DEF Entire
  <2> QED  BY <2>1, <2>2
<1>16. Left'
  <2> SUFFICES ASSUME NEW j \in Stored, j < here'[1], ~Overtaken(j)'
               PROVE  Extracted(Target(j), j)'
    BY <1>12, <1>13 DEF Left
  <2>1. j \in 1..Len(members)  BY DEF Stored, Files
  <2>2. CASE j = i
    <3>1. members[i].size = 0  BY <1>2, <1>3, <1>6, <2>2
    <3> QED  BY <1>9, <1>10, <1>11, <1>12, <2>2, <3>1 DEF Extracted
  <2>3. CASE j # i
    <3>1. j < i  BY <1>2, <1>3, <1>6, <2>1, <2>3
    <3>2. Opened(i)'  BY <1>2, <1>3, <1>6, <1>12 DEF Opened
    <3>3. ASSUME NEW n \in 1..Len(members), Opened(n) PROVE Opened(n)'
      BY <1>2, <1>3, <1>6, <1>12, <3>3 DEF Opened
    <3> QED  BY <1>1, <1>2, <1>8, <1>10, <3>1, <3>2, <3>3, EarlierStay
  <2> QED  BY <2>2, <2>3
<1> QED  BY <1>14, <1>15, <1>16

(* n blocks of the member were read before this one. *)
LEMMA WriteDataStep ==
  ASSUME Reading, NEW ok \in BOOLEAN, NEW noticed \in BOOLEAN, WriteData(ok, noticed)
  PROVE  AtPlace' /\ Entire' /\ Left'
<1> USE DEF Reading
<1> PICK i : i = here[1]  OBVIOUS
<1>1. /\ This.type = "data" /\ members' = members /\ cut' = cut /\ here' = After(here)
      /\ fpathname' = fpathname
      /\ refused' = IF ok THEN refused ELSE refused \cup {fpathname}
      /\ TurnEnds(remaining - 1, 0, outfile /\ (ok \/ ~noticed))
      /\ (~ok => outfile) /\ (ok => noticed)
  BY DEF WriteData, Reads, Refuses
<1>2. i \in 1..Len(members) /\ here[2] > Headers(i) /\ This.part = <<i, here[2] - Headers(i)>>
  BY <1>1, BlockFacts DEF BlockMeans
<1>3. /\ Headers(i) \in {1, 3} /\ members[i].size \in Nat /\ Blocks(i) = Headers(i) + members[i].size
      /\ i \notin Stored => members[i].size = 0
      /\ \A m \in 1..Len(members) : Headers(m) \in {1, 3}
      /\ Len(members) \in Nat /\ here[2] \in Nat /\ here[2] <= Blocks(i)
  BY <1>2, MemberFacts, ReaderAssumption DEF PlaceOK
<1> PICK h \in Nat : h = Headers(i) /\ h >= 1  BY <1>3
<1> PICK s \in Nat : s = members[i].size  BY <1>3
<1> PICK n \in Nat : here[2] = h + n + 1
  <2>1. here[2] \in Nat /\ here[2] > h  BY <1>2, <1>3
  <2>2. here[2] - h - 1 \in Nat /\ here[2] = h + (here[2] - h - 1) + 1  BY <2>1
  <2> QED  BY <2>2
<1>4. /\ i \in Stored /\ n \in Nat /\ n + 1 <= s /\ here[2] = h + n + 1
      /\ This.part = <<i, n + 1>>
  <2>1. here[2] - h = n + 1 /\ n + 1 > 0  OBVIOUS
  <2>2. n + 1 <= s  BY <1>3
  <2>3. i \in Stored  BY <1>3, <2>2
  <2> QED  BY <1>2, <2>1, <2>2, <2>3
<1>5. /\ remaining = s - n /\ fpathname = Target(i)
      /\ fpathname \in refused \/ (outfile /\ folder[fpathname] = Written(i, n))
  <2>1. s + h + 1 - here[2] = s - n  OBVIOUS
  <2>2. here[2] # 1  BY <1>2
  <2>3. here[2] - h - 1 = n  OBVIOUS
  <2> QED  BY <1>2, <2>1, <2>2, <2>3 DEF AtPlace
<1>6. IF n + 1 = s THEN here' = <<i + 1, 1>> ELSE here' = <<i, h + n + 2>>
  <2>1. CASE n + 1 = s
    <3>1. here[2] = Blocks(i)  BY <1>3, <1>4, <2>1
    <3> QED  BY <1>1, <1>2, <2>1, <3>1, AfterFacts
  <2>2. CASE n + 1 # s
    <3>1. n + 1 < s  BY <1>4, <2>2
    <3>2. here[2] < Blocks(i)  BY <1>3, <3>1
    <3>3. here[2] + 1 = h + n + 2  OBVIOUS
    <3> QED  BY <1>1, <1>2, <2>2, <3>2, <3>3, AfterFacts
  <2> QED  BY <2>1, <2>2
<1>7. /\ remaining' = s - (n + 1)
      /\ IF n + 1 = s
         THEN getheader' = 1 /\ ~outfile' /\ (outfile /\ ok => attributes' = attributes \cup {Target(i)})
         ELSE getheader' = 0 /\ (outfile /\ ok => outfile')
      /\ attributes \subseteq attributes'
  <2>1. remaining - 1 = s - (n + 1)
        /\ (remaining - 1 = 0 <=> n + 1 = s)
    BY <1>5
  <2>2. CASE n + 1 = s
    BY <1>1, <1>5, <2>1, <2>2 DEF TurnEnds
  <2>3. CASE n + 1 # s
    BY <1>1, <1>5, <2>1, <2>3 DEF TurnEnds
  <2> QED  BY <2>2, <2>3
<1>8. /\ \A path \in DOMAIN folder' : path # Target(i) => path \in DOMAIN folder
      /\ \A path \in DOMAIN folder : path # Target(i) =>
           path \in DOMAIN folder' /\ folder'[path] = folder[path]
  BY <1>5 DEF WriteData, Holds
<1>9. refused \subseteq refused' /\ (~ok => Target(i) \in refused')  BY <1>1, <1>5
<1>10. Target(i) \in refused' \/ (/\ ok /\ outfile
                                  /\ Target(i) \in DOMAIN folder'
                                  /\ folder'[Target(i)] = Written(i, n + 1))
  <2> SUFFICES ASSUME Target(i) \notin refused'
               PROVE  /\ ok /\ outfile /\ Target(i) \in DOMAIN folder'
                      /\ folder'[Target(i)] = Written(i, n + 1)
    OBVIOUS
  <2>1. ok /\ outfile /\ folder[fpathname] = Written(i, n)  BY <1>5, <1>9
  <2>2. folder' = [p \in DOMAIN folder \cup {fpathname} |->
                     IF p = fpathname THEN Append(Written(i, n), <<i, n + 1>>) ELSE folder[p]]
    BY <1>4, <2>1 DEF WriteData, Holds
  <2>3. Append(Written(i, n), <<i, n + 1>>) = Written(i, n + 1)  BY <1>4, WrittenFacts
  <2> QED  BY <1>5, <2>1, <2>2, <2>3
<1>11. n + 1 = s => Content(i) = Written(i, n + 1)  BY DEF Content, Written
<1>12. Files("same")' = Files("same") /\ \A m : /\ Headers(m)' = Headers(m) /\ Target(m)' = Target(m)
                                                /\ Content(m)' = Content(m)
  BY <1>1, FormatStays
<1>13. Stored' = Stored /\ Len(members)' = Len(members)  BY <1>1, FormatStays
<1>14. AtPlace'
  <2>1. CASE n + 1 = s
    <3>1. here'[1] = i + 1 /\ here'[2] = 1 /\ getheader' = 1 /\ ~outfile'  BY <1>6, <1>7, <2>1
    <3>2. i + 1 \in 1..Len(members) => Headers(i + 1)' \in {1, 3}  BY <1>3, <1>12
    <3> QED  BY <1>13, <3>1, <3>2 DEF AtPlace
  <2>2. CASE n + 1 # s
    <3>1. here'[1] = i /\ here'[2] = h + n + 2  BY <1>6, <2>2
    <3>2. getheader' = 0 /\ remaining' = s + h + 1 - here'[2]
      BY <1>7, <2>2, <3>1
    <3>3. Target(i) \in refused' \/ (outfile' /\ folder'[Target(i)] = Written(i, n + 1))
      BY <1>7, <1>10, <2>2
    <3>4. Written(i, here'[2] - Headers(i)' - 1) = Written(i, n + 1)  BY <1>3, <1>4, <1>12, <3>1
    <3>5. here'[2] > h /\ here'[2] # 1 /\ ~(here'[2] \in 2..h)
      BY <1>3, <1>4, <3>1
    <3> QED  BY <1>1, <1>5, <1>12, <1>13, <3>1, <3>2, <3>3, <3>4, <3>5 DEF AtPlace
  <2> QED  BY <2>1, <2>2
<1>15. Entire'
  <2> SUFFICES ASSUME NEW path \in DOMAIN folder' \ refused',
                      ~(outfile' /\ path = fpathname')
               PROVE  path \in attributes' /\ \E m \in Stored : folder'[path] = Content(m)
    BY <1>12, <1>13 DEF Entire
  <2>1. CASE path = Target(i)
    <3>1. ok /\ outfile /\ folder'[path] = Written(i, n + 1)  BY <1>10, <2>1
    <3>2. n + 1 = s  BY <1>1, <1>5, <1>7, <2>1, <3>1
    <3> QED  BY <1>4, <1>7, <1>11, <2>1, <3>1, <3>2
  <2>2. CASE path # Target(i)
    <3>1. path \in DOMAIN folder \ refused /\ folder'[path] = folder[path]  BY <1>8, <1>9, <2>2
    <3> QED  BY <1>5, <1>7, <2>2, <3>1 DEF Entire
  <2> QED  BY <2>1, <2>2
<1>16. Left'
  <2> SUFFICES ASSUME NEW j \in Stored, j < here'[1], ~Overtaken(j)'
               PROVE  Extracted(Target(j), j)'
    BY <1>12, <1>13 DEF Left
  <2>1. j \in 1..Len(members)  BY DEF Stored, Files
  <2>2. CASE j = i
    <3>1. n + 1 = s  BY <1>2, <1>3, <1>4, <1>6, <2>2
    <3> QED  BY <1>10, <1>11, <1>12, <2>2, <3>1 DEF Extracted
  <2>3. CASE j # i
    <3>1. j < i
      <4>1. j < i + 1  BY <1>2, <1>6, <2>1
      <4> QED  BY <1>2, <2>1, <2>3, <4>1
    <3>2. Opened(i)'  BY <1>2, <1>3, <1>4, <1>6, <1>12 DEF Opened
    <3>3. ASSUME NEW m \in 1..Len(members), Opened(m) PROVE Opened(m)'
      <4>1. CASE m = i  BY <3>2, <4>1
      <4>2. CASE m # i
        <5>1. m < i  BY <3>3, <4>2 DEF Opened
        <5>2. m < here'[1]  BY <1>2, <1>6, <5>1
        <5> QED  BY <5>2 DEF Opened
      <4> QED  BY <4>1, <4>2
    <3> QED  BY <1>1, <1>4, <1>8, <1>9, <3>1, <3>2, <3>3, EarlierStay
  <2> QED  BY <2>2, <2>3
<1> QED  BY <1>14, <1>15, <1>16

(* Before a header no file is open, and before the mark every member was read. *)
LEMMA ReturnStep ==
  ASSUME Reading, NEW closed \in BOOLEAN, Return(closed)
  PROVE  FilesAreWhole' /\ NothingIsMissed'
<1> USE DEF Reading
<1> PICK i : i = here[1]  OBVIOUS
<1>1. /\ getheader >= 1 /\ (here = cut \/ This.type = "end") /\ restored' = attributes
      /\ UNCHANGED <<members, cut, here, folder, refused, attributes, outfile, fpathname>>
  BY DEF Return, archive, reader, disk
<1>2. Stored' = Stored /\ Len(members)' = Len(members) /\ Files("same")' = Files("same")
      /\ Files("none")' = Files("none")
      /\ \A n : Content(n)' = Content(n) /\ Path(n)' = Path(n)
  BY <1>1, FormatStays DEF Files
<1>3. ~outfile
  <2>1. here[1] \in 1..Len(members) + 1 /\ here[2] \in Nat \ {0} /\ Len(members) \in Nat
        /\ here[2] <= Blocks(here[1])
    BY DEF PlaceOK
  <2>2. CASE here[2] = 1  BY <2>2 DEF AtPlace
  <2>3. CASE here[2] > 1
    <3>1. i \in 1..Len(members)  BY <2>1, <2>3 DEF Blocks
    <3>2. Headers(i) \in {1, 3}  BY <3>1, MemberFacts
    <3> QED  BY <1>1, <2>1, <2>3, <3>1, <3>2 DEF AtPlace
  <2> QED  BY <2>1, <2>2, <2>3
<1>4. FilesAreWhole'
  <2> SUFFICES ASSUME NEW path \in DOMAIN folder \ refused
               PROVE  path \in attributes /\ \E n \in Stored : folder[path] = Content(n)
    BY <1>1, <1>2 DEF FilesAreWhole, Stored
  <2> QED  BY <1>3 DEF Entire
<1>5. ASSUME here # cut PROVE \A j \in Stored : ~Overtaken(j) => Extracted(Target(j), j)
  <2>1. i = Len(members) + 1  BY <1>1, <1>5, BlockFacts DEF BlockMeans
  <2>2. \A j \in Stored : j < i  BY <2>1 DEF Stored, Files, PlaceOK
  <2> QED  BY <2>2 DEF Left
<1>6. NothingIsMissed'
  <2> SUFFICES ASSUME here # cut
               PROVE  /\ \A j \in Files("none") : Extracted(Path(j), j)
                      /\ \A j \in Files("same") : (\A m \in Files("same") : m <= j) => Extracted(LongLink, j)
    BY <1>1, <1>2 DEF NothingIsMissed, Extracted
  <2>1. ASSUME NEW j \in Files("none") PROVE Extracted(Path(j), j)
    <3>1. j \in Stored /\ ~Overtaken(j) /\ Target(j) = Path(j)
      BY <2>1 DEF Stored, Files, Overtaken, Target
    <3> QED  BY <1>5, <3>1
  <2>2. ASSUME NEW j \in Files("same"), \A m \in Files("same") : m <= j PROVE Extracted(LongLink, j)
    <3>1. j \in Stored /\ Target(j) = LongLink  BY <2>2 DEF Stored, Files, Target
    <3>2. \A m \in Files("same") : ~(m > j)  BY <2>2 DEF Files, PlaceOK
    <3> QED  BY <1>5, <3>1, <3>2 DEF Overtaken
  <2> QED  BY <2>1, <2>2
<1> QED  BY <1>4, <1>6

LEMMA ReaderInvStep ==
  PlaceOK /\ ReaderTypeOK /\ ReaderInv /\ [ReaderNext]_readerVars => ReaderInv'
<1> SUFFICES ASSUME PlaceOK, ReaderTypeOK, ReaderInv, [ReaderNext]_readerVars PROVE ReaderInv'
  OBVIOUS
<1>1. ASSUME result = "reading" PROVE Reading  BY <1>1 DEF Reading, ReaderInv
<1>2. ASSUME result' = "reading", AtPlace' /\ Entire' /\ Left' PROVE ReaderInv'
  BY <1>2 DEF ReaderInv, FilesAreWhole, NothingIsMissed
<1>3. ASSUME NEW ok \in BOOLEAN, MakeDirectory(ok) PROVE ReaderInv'
  <2>1. /\ result = "reading" /\ result' = "reading" /\ Reads("directory")
        /\ UNCHANGED <<folder, refused>> /\ attributes \subseteq attributes'
        /\ getheader' = 1 /\ ~outfile'
    BY <1>3 DEF MakeDirectory, Reads
  <2> QED  BY <1>1, <1>2, <2>1, PassStep
<1>4. ASSUME SkipMember PROVE ReaderInv'
  <2>1. /\ result = "reading" /\ result' = "reading" /\ Reads("link")
        /\ UNCHANGED <<folder, refused>> /\ attributes \subseteq attributes'
        /\ getheader' = 1 /\ ~outfile'
    BY <1>4 DEF SkipMember, Reads, TurnEnds, disk
  <2> QED  BY <1>1, <1>2, <2>1, PassStep
<1>5. ASSUME NEW ok \in BOOLEAN, OpenFile(ok) PROVE ReaderInv'
  <2>1. result = "reading" /\ result' = "reading"  BY <1>5 DEF OpenFile, Reads
  <2> QED  BY <1>1, <1>2, <1>5, <2>1, OpenFileStep
<1>6. ASSUME NEW ok \in BOOLEAN, NEW noticed \in BOOLEAN, WriteData(ok, noticed) PROVE ReaderInv'
  <2>1. result = "reading" /\ result' = "reading"  BY <1>6 DEF WriteData, Reads
  <2> QED  BY <1>1, <1>2, <1>6, <2>1, WriteDataStep
<1>7. ASSUME LongName PROVE ReaderInv'
  <2>1. result = "reading" /\ result' = "reading"  BY <1>7 DEF LongName
  <2> QED  BY <1>1, <1>2, <1>7, <2>1, LongNameStep
<1>8. ASSUME NEW closed \in BOOLEAN, Return(closed) PROVE ReaderInv'
  <2>1. result = "reading" /\ result' # "reading"  BY <1>8 DEF Return
  <2>2. FilesAreWhole' /\ NothingIsMissed'  BY <1>1, <1>8, <2>1, ReturnStep
  <2> QED  BY <2>1, <2>2 DEF ReaderInv
<1>9. ASSUME Exit PROVE ReaderInv'
  BY <1>9 DEF Exit, ReaderInv, FilesAreWhole, NothingIsMissed
<1>10. ASSUME Done \/ UNCHANGED readerVars PROVE ReaderInv'
  <2>1. UNCHANGED <<members, cut, here, getheader, remaining, fname, fpathname, outfile, folder,
                    attributes, restored, result, refused>>
    BY <1>10 DEF Done, readerVars, archive, reader, disk
  <2>2. /\ Stored' = Stored /\ Len(members)' = Len(members) /\ Files("same")' = Files("same")
        /\ Files("none")' = Files("none")
        /\ \A n : /\ Headers(n)' = Headers(n) /\ Target(n)' = Target(n)
                  /\ Content(n)' = Content(n) /\ Path(n)' = Path(n)
                  /\ Announced(n)' = Announced(n)
    BY <2>1, FormatStays DEF Files
  <2>3. AtPlace' <=> AtPlace  BY <2>1, <2>2 DEF AtPlace
  <2>4. Entire' <=> Entire  BY <2>1, <2>2 DEF Entire
  <2>5. \A n : /\ Extracted(Target(n), n)' <=> Extracted(Target(n), n)
               /\ Extracted(Path(n), n)' <=> Extracted(Path(n), n)
               /\ Extracted(LongLink, n)' <=> Extracted(LongLink, n)
    BY <2>1, <2>2 DEF Extracted
  <2>6. \A n : Overtaken(n)' <=> Overtaken(n)  BY <2>1, <2>2 DEF Overtaken, Opened
  <2>7. Left' <=> Left  BY <2>1, <2>2, <2>5, <2>6 DEF Left
  <2>8. FilesAreWhole' <=> FilesAreWhole  BY <2>1, <2>2 DEF FilesAreWhole, Stored
  <2>9. NothingIsMissed' <=> NothingIsMissed  BY <2>1, <2>2, <2>5 DEF NothingIsMissed
  <2> QED  BY <2>1, <2>3, <2>4, <2>7, <2>8, <2>9 DEF ReaderInv
<1> QED  BY <1>3, <1>4, <1>5, <1>6, <1>7, <1>8, <1>9, <1>10 DEF ReaderNext

LEMMA ReaderInvariant == ReaderSpec => [](PlaceOK /\ NamesOK /\ ReaderTypeOK /\ ReaderInv)
<1>1. ReaderInit => PlaceOK /\ NamesOK /\ ReaderTypeOK /\ ReaderInv
  <2> SUFFICES ASSUME ReaderInit PROVE ReaderInv  BY ReaderInitTypes
  <2>1. PlaceOK  BY ReaderInitTypes
  <2>2. here = <<1, 1>> /\ getheader = 1 /\ outfile = FALSE /\ folder = << >> /\ result = "reading"
    BY DEF ReaderInit
  <2>3. AtPlace
    <3>1. 1 \in 1..Len(members) => Headers(1) \in {1, 3}  BY <2>1, MemberFacts
    <3> QED  BY <2>2, <3>1 DEF AtPlace
  <2>4. Entire  BY <2>2 DEF Entire
  <2>5. Left  BY <2>1, <2>2 DEF Left, Stored, Files, PlaceOK
  <2> QED  BY <2>2, <2>3, <2>4, <2>5 DEF ReaderInv, FilesAreWhole, NothingIsMissed
<1>2. PlaceOK /\ NamesOK /\ ReaderTypeOK /\ ReaderInv /\ [ReaderNext]_readerVars
        => (PlaceOK /\ NamesOK /\ ReaderTypeOK /\ ReaderInv)'
  BY PlaceStep, NamesStep, ReaderTypeStep, ReaderInvStep
<1> QED  BY <1>1, <1>2, PTL DEF ReaderSpec

(* What tar leaves in the folder when it returns is whole members with      *)
(* their times, but for what the system refused, of any archive, cut         *)
(* anywhere.                                                                 *)
THEOREM ArchiveFilesAreWhole == ReaderSpec => []FilesAreWhole
<1>1. ReaderInv => FilesAreWhole  BY DEF ReaderInv
<1> QED  BY <1>1, ReaderInvariant, PTL

(* And of an archive that is not cut it leaves every member, but for what   *)
(* the system refused and the long names that a later one overwrote.        *)
THEOREM ArchiveIsExtracted == ReaderSpec => []NothingIsMissed
<1>1. ReaderInv => NothingIsMissed  BY DEF ReaderInv
<1> QED  BY <1>1, ReaderInvariant, PTL

(* tar comes to its end.  The guards of a turn of its loop, and of its two   *)
(* ends; a read that fails is left out.                                      *)
ReaderGoes == \/ here = cut
              \/ This.type = "long" /\ getheader = 1
              \/ This.type \in {"directory", "file", "link", "end"} /\ getheader >= 1
              \/ This.type = "data" /\ getheader = 0
ReaderGoesOn == result = "reading" => ReaderGoes

(* A later place in the archive, and the places there are. *)
Further(there) == \/ here[1] < there[1]
                  \/ here[1] = there[1] /\ here[2] < there[2]
PlaceBounded == here[1] \in 1..Len(members) + 1 /\ here[2] \in 1..MaxBlocks + 3
ReaderAdvances ==
  [][result' # "reading" \/ (members' = members /\ Further(here'))]_readerVars

(* The reader never meets a block that it has no turn for: a name where it   *)
(* expects a header, or data of a member it has done with.                   *)
THEOREM ReaderNeverSticks == ReaderSpec => []ReaderGoesOn
<1>1. PlaceOK /\ ReaderTypeOK /\ ReaderInv => ReaderGoesOn
  <2> SUFFICES ASSUME PlaceOK, ReaderTypeOK, AtPlace, here # cut PROVE ReaderGoes
    BY DEF ReaderInv, ReaderGoesOn, ReaderGoes
  <2> DEFINE i == here[1]  k == here[2]
  <2>1. Len(members) \in Nat /\ i \in 1..Len(members) + 1 /\ k \in Nat /\ k > 0 /\ k <= Blocks(i)
    BY DEF PlaceOK
  <2>2. CASE i > Len(members)
    <3>1. This.type = "end" /\ k = 1
      BY <2>1, <2>2 DEF This, BlockAt, Block, Blocks
    <3> QED  BY <3>1 DEF AtPlace, ReaderGoes
  <2>3. CASE i \in 1..Len(members)
    <3>1. members[i].kind \in {"file", "directory", "link"} /\ Headers(i) \in {1, 3}
      BY <2>3, MemberFacts
    <3>2. CASE k > Headers(i)
      <4>1. This.type = "data"  BY <2>1, <2>3, <3>1, <3>2 DEF This, BlockAt, Block
      <4> QED  BY <2>3, <3>2, <4>1 DEF AtPlace, ReaderGoes
    <3>3. CASE k = Headers(i)
      <4>1. This.type = members[i].kind
        BY <2>1, <2>3, <3>1, <3>3 DEF This, BlockAt, Block
      <4>2. getheader >= 1
        BY <2>1, <2>3, <3>1, <3>3 DEF AtPlace
      <4> QED  BY <3>1, <4>1, <4>2 DEF ReaderGoes
    <3>4. CASE k < Headers(i)
      <4>1. k = 1  BY <2>1, <2>3, <3>1, <3>4 DEF AtPlace
      <4>2. This.type = "long"  BY <2>1, <2>3, <3>1, <3>4, <4>1 DEF This, BlockAt, Block
      <4> QED  BY <4>1, <4>2 DEF AtPlace, ReaderGoes
    <3> QED  BY <2>1, <3>1, <3>2, <3>3, <3>4
  <2> QED  BY <2>1, <2>2, <2>3
<1> QED  BY <1>1, ReaderInvariant, PTL

LEMMA AfterIsFurther ==
  ASSUME PlaceOK, here[1] \in 1..Len(members)
  PROVE  Further(After(here))
<1>1. here[1] \in Nat /\ here[2] \in Nat /\ here[2] <= Blocks(here[1])  BY DEF PlaceOK
<1>2. Blocks(here[1]) \in Nat  BY MemberFacts, ReaderAssumption
<1>3. here[2] < Blocks(here[1]) \/ here[2] = Blocks(here[1])  BY <1>1, <1>2
<1> QED  BY <1>1, <1>3, AfterFacts DEF Further

(* Every turn of the loop reads on, whatever the archive holds and wherever  *)
(* it is cut, and there is an end to it: with ReaderNeverSticks, tar ends.   *)
THEOREM ReaderReadsOn == ReaderSpec => []PlaceBounded /\ ReaderAdvances
<1>1. PlaceOK => PlaceBounded
  <2> SUFFICES ASSUME PlaceOK PROVE PlaceBounded  OBVIOUS
  <2>1. /\ Len(members) \in Nat /\ here[1] \in 1..Len(members) + 1
        /\ here[2] \in Nat /\ here[2] > 0 /\ here[2] <= Blocks(here[1])
    BY DEF PlaceOK
  <2>2. CASE here[1] \in 1..Len(members)
    <3>1. /\ Headers(here[1]) \in {1, 3} /\ members[here[1]].size \in 0..MaxBlocks
          /\ Blocks(here[1]) = Headers(here[1]) + members[here[1]].size
      BY <2>2, MemberFacts
    <3>2. Blocks(here[1]) \in 1..MaxBlocks + 3  BY <3>1, ReaderAssumption
    <3>3. here[2] \in 1..MaxBlocks + 3  BY <2>1, <3>2, ReaderAssumption
    <3> QED  BY <2>1, <3>3 DEF PlaceBounded
  <2>3. CASE here[1] > Len(members)
    BY <2>1, <2>3, ReaderAssumption DEF PlaceBounded, Blocks
  <2> QED  BY <2>1, <2>2, <2>3
<1>2. PlaceOK /\ [ReaderNext]_readerVars =>
        [result' # "reading" \/ (members' = members /\ Further(here'))]_readerVars
  <2> SUFFICES ASSUME PlaceOK, ReaderNext, result' = "reading"
               PROVE  (members' = members /\ Further(here')) \/ UNCHANGED readerVars
    OBVIOUS
  <2>1. BlockMeans(This.type)  BY BlockFacts
  <2>2. ASSUME NEW type \in {"directory", "file", "link", "data"}, Reads(type)
        PROVE  members' = members /\ Further(here')
    <3>1. This.type # "end" /\ members' = members /\ here' = After(here)  BY <2>2 DEF Reads
    <3>2. here[1] \in 1..Len(members)  BY <2>1, <3>1 DEF BlockMeans
    <3> QED  BY <3>1, <3>2, AfterIsFurther DEF Further
  <2>3. ASSUME LongName PROVE members' = members /\ Further(here')
    <3>1. /\ This.type = "long" /\ members' = members
          /\ here' = After(here) \/ here' = After(After(here))
      BY <2>3 DEF LongName
    <3>2. here[1] \in 1..Len(members) /\ here[2] = 1 /\ Headers(here[1]) = 3
      BY <2>1, <3>1 DEF BlockMeans
    <3>3. Blocks(here[1]) \in Nat /\ 3 <= Blocks(here[1])
      BY <3>2, MemberFacts, ReaderAssumption
    <3>4. After(here) = <<here[1], 2>>  BY <3>2, <3>3, AfterFacts
    <3>5. After(After(here)) = <<here[1], 3>>  BY <3>3, <3>4 DEF After
    <3> QED  BY <3>1, <3>2, <3>4, <3>5 DEF Further
  <2>4. ASSUME NEW ok \in BOOLEAN, MakeDirectory(ok) \/ OpenFile(ok)
        PROVE  members' = members /\ Further(here')
    BY <2>2, <2>4 DEF MakeDirectory, OpenFile
  <2>5. ASSUME NEW ok \in BOOLEAN, NEW noticed \in BOOLEAN, WriteData(ok, noticed)
        PROVE  members' = members /\ Further(here')
    BY <2>2, <2>5 DEF WriteData
  <2>6. SkipMember => members' = members /\ Further(here')  BY <2>2 DEF SkipMember
  <2>7. (\E ok \in BOOLEAN : Return(ok)) \/ Exit \/ Done => UNCHANGED readerVars
    BY DEF Return, Exit, Done
  <2> QED  BY <2>3, <2>4, <2>5, <2>6, <2>7 DEF ReaderNext
<1> QED  BY <1>1, <1>2, ReaderInvariant, PTL DEF ReaderSpec, ReaderAdvances


(* What tar ends with an error for, and what the system refuses it, where no *)
(* call failed: an archive that breaks off, a name that is too long or is     *)
(* not the next header's; a file where there is a directory.                  *)
Unreadable(i) == members[i].record \in {"other", "over"}
ExitHasACause ==
  result = "exited" /\ failures = 0 => here = cut \/ (here[1] \in 1..Len(members) /\ Unreadable(here[1]))
RefusalHasACause == failures = 0 => \A path \in refused : path = LongLink /\ Occupied(path)

LEMMA ExitsHaveCauses == ReaderSpec => []ExitHasACause
<1>1. ReaderInit => ExitHasACause  BY DEF ReaderInit, ExitHasACause
<1>2. ExitHasACause /\ PlaceOK /\ ReaderTypeOK /\ ReaderInv /\ [ReaderNext]_readerVars => ExitHasACause'
  <2> SUFFICES ASSUME ExitHasACause, PlaceOK, ReaderTypeOK, ReaderInv, [ReaderNext]_readerVars,
                      result' = "exited", failures' = 0
               PROVE  (here = cut \/ (here[1] \in 1..Len(members) /\ Unreadable(here[1])))'
    BY DEF ExitHasACause
  <2>1. ASSUME UNCHANGED <<members, cut, here>>,
               here = cut \/ (here[1] \in 1..Len(members) /\ Unreadable(here[1]))
        PROVE  (here = cut \/ (here[1] \in 1..Len(members) /\ Unreadable(here[1])))'
    BY <2>1 DEF Unreadable
  <2>2. failures \in Nat  BY ReaderAssumption DEF ReaderTypeOK
  <2>3. CASE Done \/ UNCHANGED readerVars
    BY <2>1, <2>3 DEF Done, readerVars, archive, ExitHasACause
  <2>4. ASSUME NEW closed \in BOOLEAN, Return(closed)
        PROVE  UNCHANGED <<members, cut, here>> /\ here = cut
    BY <2>2, <2>4 DEF Return, Fails, archive
  <2>5. CASE Exit
    <3>1. /\ UNCHANGED <<members, cut, here>> /\ (EndsEarly \/ BadName) /\ AtPlace
      BY <2>2, <2>5 DEF Exit, Fails, archive, ReaderInv
    <3>2. CASE EndsEarly  BY <2>1, <3>1, <3>2 DEF EndsEarly
    <3>3. CASE BadName
      <4> DEFINE i == here[1]  k == here[2]
      <4>1. Len(members) \in Nat /\ i \in 1..Len(members) + 1 /\ k \in Nat /\ k > 0 /\ k <= Blocks(i)
        BY DEF PlaceOK
      <4>2. CASE This.type = "long" /\ This.size > 1
        <5>1. i \in 1..Len(members) /\ members[i].record = "over"
          BY <4>2, BlockFacts DEF BlockMeans
        <5> QED  BY <2>1, <3>1, <5>1 DEF Unreadable
      <4>3. CASE getheader = 2 /\ This.name # fname /\ here # cut
        <5>1. i \in 1..Len(members)
          BY <3>1, <4>1, <4>3 DEF AtPlace, Blocks
        <5>2. Headers(i) \in {1, 3}  BY <5>1, MemberFacts
        <5>3. k = 3 /\ Headers(i) = 3 /\ fname = Announced(i)
          BY <3>1, <4>1, <4>3, <5>1, <5>2 DEF AtPlace
        <5>4. This.name = Name(i)
          BY <4>1, <5>1, <5>2, <5>3 DEF This, BlockAt, Block
        <5>5. members[i].record = "other"  BY <4>3, <5>3, <5>4 DEF Announced
        <5> QED  BY <2>1, <3>1, <5>1, <5>5 DEF Unreadable
      <4> QED  BY <3>3, <4>2, <4>3 DEF BadName
    <3> QED  BY <3>1, <3>2, <3>3
  <2>6. CASE \/ \E ok \in BOOLEAN : \/ MakeDirectory(ok) \/ OpenFile(ok)
                                    \/ \E noticed \in BOOLEAN : WriteData(ok, noticed)
             \/ LongName \/ SkipMember
    BY <2>6 DEF MakeDirectory, OpenFile, WriteData, LongName, SkipMember, Reads
  <2> QED  BY <2>1, <2>3, <2>4, <2>5, <2>6 DEF ReaderNext
<1> QED  BY <1>1, <1>2, ReaderInvariant, PTL DEF ReaderSpec

LEMMA RefusalsHaveCauses == ReaderSpec => []RefusalHasACause
<1>1. ReaderInit => RefusalHasACause  BY DEF ReaderInit, RefusalHasACause
<1>2. RefusalHasACause /\ PlaceOK /\ NamesOK /\ ReaderTypeOK /\ [ReaderNext]_readerVars
        => RefusalHasACause'
  <2> SUFFICES ASSUME RefusalHasACause, PlaceOK, NamesOK, ReaderTypeOK, [ReaderNext]_readerVars,
                      failures' = 0, NEW path \in refused'
               PROVE  (path = LongLink /\ Occupied(path))'
    BY DEF RefusalHasACause
  <2>1. failures \in Nat  BY ReaderAssumption DEF ReaderTypeOK
  <2>2. ASSUME failures = 0, path \in refused, directories \subseteq directories'
        PROVE  (path = LongLink /\ Occupied(path))'
    BY <2>2 DEF RefusalHasACause, Occupied, LongLink
  <2>3. ASSUME NEW ok \in BOOLEAN, MakeDirectory(ok) PROVE (path = LongLink /\ Occupied(path))'
    BY <2>1, <2>2, <2>3 DEF MakeDirectory, Fails
  <2>4. ASSUME NEW ok \in BOOLEAN, OpenFile(ok) PROVE (path = LongLink /\ Occupied(path))'
    <3>1. failures = 0 /\ directories \subseteq directories'  BY <2>1, <2>4 DEF OpenFile, Fails
    <3>2. CASE path \in refused  BY <2>2, <3>1, <3>2
    <3>3. CASE path \notin refused
      <4>1. ~ok /\ path = fpathname' /\ Titled /\ This.type = "file"
        BY <2>4, <3>3 DEF OpenFile, Refuses, Reads
      <4>2. Occupied(fpathname') /\ directories' = directories
        BY <2>1, <2>4, <4>1 DEF OpenFile, Fails
      <4>3. here[1] \in 1..Len(members) /\ This.name = Path(here[1])
        BY <4>1, BlockFacts DEF BlockMeans
      <4>4. Path(here[1])[2] # 0
        <5>1. here[1] # 0  BY <4>3 DEF PlaceOK
        <5> QED  BY <4>3, <5>1, MemberFacts
      <4>5. fpathname' = LongLink
        BY <4>1, <4>2, <4>3, <4>4, TitledFacts DEF ReaderTypeOK, Occupied
      <4> QED  BY <4>1, <4>2, <4>5 DEF Occupied, LongLink
    <3> QED  BY <3>2, <3>3
  <2>5. ASSUME NEW ok \in BOOLEAN, NEW noticed \in BOOLEAN, WriteData(ok, noticed)
        PROVE  (path = LongLink /\ Occupied(path))'
    <3>1. failures = 0 /\ ok  BY <2>1, <2>5 DEF WriteData, Fails
    <3> QED  BY <2>2, <2>5, <3>1 DEF WriteData, Refuses
  <2>6. ASSUME NEW closed \in BOOLEAN, Return(closed) PROVE (path = LongLink /\ Occupied(path))'
    BY <2>1, <2>2, <2>6 DEF Return, Fails, disk
  <2>7. CASE LongName \/ SkipMember
    BY <2>2, <2>7 DEF LongName, SkipMember, disk
  <2>8. CASE Exit
    BY <2>1, <2>2, <2>8 DEF Exit, Fails, disk
  <2>9. CASE Done \/ UNCHANGED readerVars
    BY <2>2, <2>9 DEF Done, readerVars, disk
  <2> QED  BY <2>3, <2>4, <2>5, <2>6, <2>7, <2>8, <2>9 DEF ReaderNext
<1> QED  BY <1>1, <1>2, ReaderInvariant, PTL DEF ReaderSpec

IsThere(path, i) == path \in restored /\ path \in DOMAIN folder /\ folder[path] = Content(i)

(* When tar has ended with a whole archive that it can read, and no call of  *)
(* the system failed, it has returned and every file with a short name is in *)
(* the folder, whole and with its time.  So is the last with a long name at  *)
(* the path that they share, unless a directory has taken it.                *)
WholeIsExtracted ==
  /\ result # "reading" /\ failures = 0
  /\ cut[1] > Len(members) + 1 /\ \A i \in 1..Len(members) : ~Unreadable(i)
  => /\ result = "returned"
     /\ \A i \in Files("none") : IsThere(Path(i), i)
     /\ \A i \in Files("same") : (\A j \in Files("same") : j <= i) /\ ~Occupied(LongLink)
                                => IsThere(LongLink, i)

(* tar takes no other way out of a whole archive, and misses nothing of it: *)
(* the announced name is always the one that follows, no block is taken for *)
(* another, and nothing is refused without a failure.                       *)
THEOREM WholeArchivesAreExtracted == ReaderSpec => []WholeIsExtracted
<1>1. /\ PlaceOK /\ ReaderTypeOK /\ FilesAreWhole /\ NothingIsMissed
      /\ ExitHasACause /\ RefusalHasACause
      => WholeIsExtracted
  <2> SUFFICES ASSUME PlaceOK, ReaderTypeOK, FilesAreWhole, NothingIsMissed, ExitHasACause,
                      RefusalHasACause, result # "reading", failures = 0, cut[1] > Len(members) + 1,
                      \A i \in 1..Len(members) : ~Unreadable(i)
               PROVE  /\ result = "returned"
                      /\ \A i \in Files("none") : IsThere(Path(i), i)
                      /\ \A i \in Files("same") :
                           (\A j \in Files("same") : j <= i) /\ ~Occupied(LongLink)
                             => IsThere(LongLink, i)
    BY DEF WholeIsExtracted
  <2>1. here # cut  BY DEF PlaceOK
  <2>2. result = "returned"  BY <2>1 DEF ExitHasACause, ReaderTypeOK
  <2>3. ASSUME NEW path, NEW i, Extracted(path, i), path # LongLink \/ ~Occupied(path)
        PROVE  IsThere(path, i)
    <3>1. path \notin refused  BY <2>3 DEF RefusalHasACause
    <3> QED  BY <2>2, <2>3, <3>1 DEF Extracted, FilesAreWhole, IsThere
  <2>4. ASSUME NEW i \in Files("none") PROVE IsThere(Path(i), i)
    <3>1. i \in 1..Len(members) /\ i # 0  BY DEF Files, PlaceOK
    <3>2. Path(i) # LongLink  BY <3>1, MemberFacts DEF LongLink
    <3> QED  BY <2>1, <2>2, <2>3, <3>2 DEF NothingIsMissed
  <2>5. ASSUME NEW i \in Files("same"), \A j \in Files("same") : j <= i, ~Occupied(LongLink)
        PROVE  IsThere(LongLink, i)
    BY <2>1, <2>2, <2>3, <2>5 DEF NothingIsMissed
  <2> QED  BY <2>2, <2>4, <2>5
<1>2. ReaderInv => FilesAreWhole /\ NothingIsMissed  BY DEF ReaderInv
<1> QED  BY <1>1, <1>2, ReaderInvariant, ExitsHaveCauses, RefusalsHaveCauses, PTL
=============================================================================
