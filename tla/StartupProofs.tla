--------------------------- MODULE StartupProofs ---------------------------
(***************************************************************************)
(* Proofs about Startup, for any number of starts.                         *)
(***************************************************************************)
EXTENDS Startup, TLAPS

\* While a temporary file is open it lies in the directory being checked.
OpenFileThere == Open => left[pc] > 0

\* A directory main is done with passed or is disabled, one after the other;
\* FromEnv left neither empty.
DoneChecked ==
    /\ pc \in {"cache", "listen", "serving"} /\ dir["log"] # "empty"
           => <<"log", dir["log"]>> \in passed
    /\ pc \in {"listen", "serving"} /\ env.redis = "empty" /\ dir["cache"] # "empty"
           => <<"cache", dir["cache"]>> \in passed
    /\ pc = "cache" => env.redis = "empty"
    /\ pc = "log" => dir["cache"] # "empty"

Inv == TypeOK /\ OpenFileThere /\ DoneChecked /\ LitterExplained

LEMMA InitInv == Init => Inv
  <1> SUFFICES ASSUME Init PROVE Inv
    OBVIOUS
  <1> USE DEF Init, Kinds
  <1>1. TypeOK
    BY BootsAssumption DEF TypeOK, Settings, Steps
  <1>2. OpenFileThere /\ DoneChecked /\ LitterExplained
    BY DEF OpenFileThere, DoneChecked, LitterExplained, Open
  <1> QED BY <1>1, <1>2 DEF Inv

LEMMA StartInv == ASSUME Inv, Start PROVE Inv'
  <1> USE BootsAssumption DEF Inv, Start, Kinds
  <1>1. env' \in Envs /\ env'.dir \in [Kinds -> Settings]
    BY DEF Envs
  <1>2. dir' \in [Kinds -> {"blank", "plain", "padded"}]
    BY <1>1 DEF WithDefault, Settings
  <1>3. TypeOK'
    BY <1>1, <1>2 DEF TypeOK, Settings, Steps
  <1>4. OpenFileThere' /\ DoneChecked'
    BY <1>2 DEF OpenFileThere, DoneChecked, Open
  <1>5. LitterExplained'
    BY DEF LitterExplained, Open
  <1> QED BY <1>3, <1>4, <1>5

\* The end of a check, whatever it leaves on the disk.
LEMMA EndOfCheck ==
  ASSUME Inv, NEW k \in Kinds, Checking(k, step), Pass(k) \/ Disable(k),
         UNCHANGED env
  PROVE  /\ pc' \in {"cache", "listen"} /\ step' = "mkdir" /\ errors' = {}
         /\ dir' \in [Kinds -> Settings] /\ passed' \subseteq Kinds \X Settings
         /\ pc' \in Kinds => dir'[pc'] # "empty"
         /\ DoneChecked'
  <1> USE DEF Inv, TypeOK, Checking, Proceed, Following, Kinds, Settings
  <1>1. CASE Pass(k)
    BY <1>1 DEF Pass, DoneChecked
  <1>2. CASE Disable(k)
    BY <1>2 DEF Disable, DoneChecked
  <1> QED BY <1>1, <1>2

LEMMA CheckInv == ASSUME Inv, Check PROVE Inv'
  <1> PICK k \in Kinds : \/ Mkdir(k) \/ CreateTemp(k) \/ WriteTemp(k)
                         \/ CloseTemp(k) \/ RemoveTemp(k)
    BY DEF Check
  <1> USE DEF Inv, TypeOK, OpenFileThere, LitterExplained, Open, Checking, Kinds, Steps
  <1>1. CASE Mkdir(k)
    <2>1. CASE Disable(k)
      BY <1>1, <2>1, EndOfCheck DEF Mkdir
    <2>2. CASE step' = "create" /\ UNCHANGED <<pc, errors, dir, passed>>
      BY <1>1, <2>2 DEF Mkdir, DoneChecked
    <2> QED BY <1>1, <2>1, <2>2 DEF Mkdir
  <1>2. CASE CreateTemp(k)
    <2>1. CASE Disable(k) /\ UNCHANGED left
      BY <1>2, <2>1, EndOfCheck DEF CreateTemp
    <2>2. CASE step' = "write" /\ left' = [left EXCEPT ![k] = @ + 1]
               /\ UNCHANGED <<pc, errors, dir, passed>>
      BY <1>2, <2>2 DEF CreateTemp, DoneChecked
    <2> QED BY <1>2, <2>1, <2>2 DEF CreateTemp
  <1>3. CASE WriteTemp(k)
    BY <1>3 DEF WriteTemp, DoneChecked
  <1>4. CASE CloseTemp(k)
    BY <1>4 DEF CloseTemp, DoneChecked
  <1>5. CASE RemoveTemp(k)
    <2>1. Pass(k) \/ Disable(k)
      BY <1>5 DEF RemoveTemp
    <2> QED BY <1>5, <2>1, EndOfCheck DEF RemoveTemp
  <1> QED BY <1>1, <1>2, <1>3, <1>4, <1>5

LEMMA NextInv == Inv /\ [Next]_vars => Inv'
  <1> SUFFICES ASSUME Inv, [Next]_vars PROVE Inv'
    OBVIOUS
  <1> USE DEF Inv, TypeOK, OpenFileThere, DoneChecked, LitterExplained, Open, Kinds
  <1>1. CASE Listen
    BY <1>1 DEF Listen
  <1>2. CASE Kill
    BY <1>2 DEF Kill
  <1>3. CASE UNCHANGED vars
    BY <1>3 DEF vars
  <1> QED BY <1>1, <1>2, <1>3, StartInv, CheckInv DEF Next

LEMMA Invariance == Spec => []Inv
  BY InitInv, NextInv, PTL DEF Spec

\* Every variable of the start keeps its type.
THEOREM TypeCorrect == Spec => []TypeOK
  <1>1. Inv => TypeOK
    BY DEF Inv
  <1> QED BY <1>1, Invariance, PTL

\* A process that listens has written to every directory main left enabled, under
\* the name main knows it by.
THEOREM EnabledAlwaysPassed == Spec => []EnabledPassed
  <1>1. Inv => EnabledPassed
    BY DEF Inv, DoneChecked, EnabledPassed
  <1> QED BY <1>1, Invariance, PTL

\* Checks clean up after themselves on every path of ensureDirWritable.
THEOREM LitterAlwaysExplained == Spec => []LitterExplained
  <1>1. Inv => LitterExplained
    BY DEF Inv
  <1> QED BY <1>1, Invariance, PTL
=============================================================================
