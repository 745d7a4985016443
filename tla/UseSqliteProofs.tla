-------------------------- MODULE UseSqliteProofs --------------------------
(***************************************************************************)
(* Proofs about UseSqlite, for any set of runs and any number of failures. *)
(***************************************************************************)
EXTENDS UseSqlite, TLAPS

\* The table, and then persons, make a content of another.
LEMMA ContentsFacts ==
    /\ {} \in Contents
    /\ \A c \in Contents : c \cup {People} \in Contents
    /\ \A c \in Contents, r \in Runs : People \in c => c \cup {r} \in Contents
<1>1. {} \in Contents
    BY DEF Contents
<1>2. ASSUME NEW c \in Contents PROVE c \cup {People} \in Contents
  <2>1. PICK d \in SUBSET Runs : c = {} \/ c = d \cup {People}
    BY DEF Contents
  <2>2. c \cup {People} = {} \cup {People} \/ c \cup {People} = d \cup {People}
    BY <2>1
  <2>3. QED
    BY <2>2 DEF Contents
<1>3. ASSUME NEW c \in Contents, NEW r \in Runs, People \in c PROVE c \cup {r} \in Contents
  <2>1. PICK d \in SUBSET Runs : c = d \cup {People}
    BY <1>3 DEF Contents
  <2>2. c \cup {r} = (d \cup {r}) \cup {People}
    BY <2>1
  <2>3. QED
    BY <2>2 DEF Contents
<1>4. QED
    BY <1>1, <1>2, <1>3

Handles == {"create", "disk", "memory"}

\* Closing takes the connections that are not busy.
LEMMA CloseFacts ==
    ASSUME handles \in [Runs -> SUBSET Handles], NEW p \in Runs, NEW closed, Close(p, closed)
    PROVE  /\ handles' \in [Runs -> SUBSET Handles]
           /\ handles'[p] = handles[p] \ {h \in closed : ~Busy(p, h)}
           /\ \A q \in Runs : q # p => handles'[q] = handles[q]
<1>1. (handles[p] \ {h \in closed : ~Busy(p, h)}) \in SUBSET Handles
    OBVIOUS
<1>2. QED
    BY <1>1 DEF Close

\* Types of the variables.
LEMMA VariablesStep ==
    ASSUME IInv, NEW p \in Runs, Step(p) \/ Crash(p)
    PROVE  /\ disk' \in Contents
           /\ memory' \in [Runs -> Contents]
           /\ handles' \in [Runs -> SUBSET Handles]
           /\ faults' \in 0 .. MaxFaults
<1> USE RunsAssumption, FaultsAssumption
<1>1. CASE OpenToCreate(p)
  BY <1>1 DEF OpenToCreate, IInv, TypeOK, Handles, Succeeds, Fails, ExitEarly, Goto
<1>2. CASE ExecuteScript(p)
  BY <1>2, ContentsFacts, CloseFacts
     DEF ExecuteScript, IInv, TypeOK, Handles, Succeeds, Fails, ExitEarly, Goto
<1>3. CASE OpenDisk(p)
  BY <1>3 DEF OpenDisk, IInv, TypeOK, Handles, Succeeds, Fails, ExitEarly, Goto
<1>4. CASE OpenMemory(p)
  BY <1>4, CloseFacts
     DEF OpenMemory, IInv, TypeOK, Handles, Succeeds, Fails, ExitEarly, Goto
<1>5. CASE LoadInit(p)
  BY <1>5 DEF LoadInit, IInv, TypeOK, Handles, Succeeds, Fails, LoadFails, Goto
<1>6. CASE LoadStep(p)
  BY <1>6 DEF LoadStep, IInv, TypeOK, Handles, Succeeds, Fails, LoadFails, Goto
<1>7. CASE LoadFinish(p)
  BY <1>7 DEF LoadFinish, IInv, TypeOK, Handles, Succeeds, Fails, LoadFails, Goto
<1>8. CASE Prepare(p)
  BY <1>8, CloseFacts
     DEF Prepare, IInv, TypeOK, Handles, Succeeds, Fails, ExitEarly, Goto
<1>9. CASE Bind(p)
  BY <1>9 DEF Bind, IInv, TypeOK, Handles, Succeeds, Fails, Fail, Goto
<1>10. CASE Execute(p)
  <2>1. People \in memory[p]
    BY <1>10 DEF Execute, At, Running, IInv, TypeOK, Holds, Writing
  <2>2. memory[p] \cup {p} \in Contents
    BY <2>1, ContentsFacts DEF IInv, TypeOK
  <2>3. memory' = [memory EXCEPT ![p] = memory[p] \cup {p}] \/ memory' = memory
    BY <1>10 DEF Execute
  <2>4. memory' \in [Runs -> Contents]
    BY <2>2, <2>3 DEF IInv, TypeOK
  <2>5. QED
    BY <1>10, <2>4 DEF Execute, IInv, TypeOK, Handles, Succeeds, Fails, Fail
<1>11. CASE FlushInit(p)
  BY <1>11 DEF FlushInit, IInv, TypeOK, Handles, Succeeds, Fails, Fail, Goto
<1>12. CASE FlushStep(p)
  BY <1>12 DEF FlushStep, IInv, TypeOK, Handles, Succeeds, Fails, Fail, Goto
<1>13. CASE FlushFinish(p)
  BY <1>13 DEF FlushFinish, IInv, TypeOK, Handles, Succeeds, Fails, Fail, Goto
<1>14. CASE CacheFlush(p)
  BY <1>14 DEF CacheFlush, IInv, TypeOK, Handles, Succeeds, Fails, Fail, Goto
<1>15. CASE Finalize(p)
  BY <1>15 DEF Finalize, IInv, TypeOK, Handles, Goto
<1>16. CASE CloseBoth(p)
  BY <1>16, CloseFacts DEF CloseBoth, IInv, TypeOK, Handles, Goto
<1>17. CASE Crash(p)
  BY <1>17 DEF Crash, IInv, TypeOK, Handles, Fails, Goto
<1>18. QED
  BY <1>1, <1>2, <1>3, <1>4, <1>5, <1>6, <1>7, <1>8, <1>9, <1>10, <1>11, <1>12,
     <1>13, <1>14, <1>15, <1>16, <1>17
     DEF Step

\* Types of the other variables.
LEMMA StatementStep ==
    ASSUME IInv, NEW p \in Runs, Step(p) \/ Crash(p)
    PROVE  /\ stmt' \in [Runs -> Statements]
           /\ backup' \in [Runs -> SUBSET {"load", "flush"}]
           /\ succeeded' \in [Runs -> BOOLEAN]
           /\ pc' \in [Runs -> Labels]
<1> USE RunsAssumption, FaultsAssumption
<1>1. CASE OpenToCreate(p)
  BY <1>1
     DEF OpenToCreate, IInv, TypeOK, Succeeds, Fails, ExitEarly, Goto, Statements,
         Labels, Opening, Loading, Writing
<1>2. CASE ExecuteScript(p)
  BY <1>2
     DEF ExecuteScript, IInv, TypeOK, Succeeds, Fails, ExitEarly, Goto, Statements,
         Labels, Opening, Loading, Writing
<1>3. CASE OpenDisk(p)
  BY <1>3
     DEF OpenDisk, IInv, TypeOK, Succeeds, Fails, ExitEarly, Goto, Statements, Labels,
         Opening, Loading, Writing
<1>4. CASE OpenMemory(p)
  BY <1>4
     DEF OpenMemory, IInv, TypeOK, Succeeds, Fails, ExitEarly, Goto, Statements, Labels,
         Opening, Loading, Writing
<1>5. CASE LoadInit(p)
  BY <1>5
     DEF LoadInit, IInv, TypeOK, Succeeds, Fails, LoadFails, Goto, Statements, Labels,
         Opening, Loading, Writing
<1>6. CASE LoadStep(p)
  BY <1>6
     DEF LoadStep, IInv, TypeOK, Succeeds, Fails, LoadFails, Goto, Statements, Labels,
         Opening, Loading, Writing
<1>7. CASE LoadFinish(p)
  BY <1>7
     DEF LoadFinish, IInv, TypeOK, Succeeds, Fails, LoadFails, Goto, Statements, Labels,
         Opening, Loading, Writing
<1>8. CASE Prepare(p)
  BY <1>8
     DEF Prepare, IInv, TypeOK, Succeeds, Fails, ExitEarly, Goto, Statements, Labels,
         Opening, Loading, Writing
<1>9. CASE Bind(p)
  BY <1>9
     DEF Bind, IInv, TypeOK, Succeeds, Fails, Fail, Goto, Statements, Labels, Opening,
         Loading, Writing
<1>10. CASE Execute(p)
  BY <1>10
     DEF Execute, IInv, TypeOK, Succeeds, Fails, Fail, Goto, Statements, Labels,
         Opening, Loading, Writing
<1>11. CASE FlushInit(p)
  <2>1. backup' = [backup EXCEPT ![p] = backup[p] \cup {"flush"}] \/ backup' = backup
    BY <1>11 DEF FlushInit
  <2>2. backup[p] \cup {"flush"} \in SUBSET {"load", "flush"}
    BY DEF IInv, TypeOK
  <2>3. backup' \in [Runs -> SUBSET {"load", "flush"}]
    BY <2>1, <2>2 DEF IInv, TypeOK
  <2>4. QED
    BY <1>11, <2>3
       DEF FlushInit, IInv, TypeOK, Goto, Fail, Labels, Opening, Loading, Writing
<1>12. CASE FlushStep(p)
  BY <1>12
     DEF FlushStep, IInv, TypeOK, Succeeds, Fails, Fail, Goto, Statements, Labels,
         Opening, Loading, Writing
<1>13. CASE FlushFinish(p)
  BY <1>13
     DEF FlushFinish, IInv, TypeOK, Succeeds, Fails, Fail, Goto, Statements, Labels,
         Opening, Loading, Writing
<1>14. CASE CacheFlush(p)
  BY <1>14
     DEF CacheFlush, IInv, TypeOK, Succeeds, Fails, Fail, Goto, Statements, Labels,
         Opening, Loading, Writing
<1>15. CASE Finalize(p)
  BY <1>15
     DEF Finalize, IInv, TypeOK, Goto, Statements, Labels, Opening, Loading, Writing
<1>16. CASE CloseBoth(p)
  BY <1>16
     DEF CloseBoth, IInv, TypeOK, Goto, Statements, Labels, Opening, Loading, Writing
<1>17. CASE Crash(p)
  BY <1>17
     DEF Crash, IInv, TypeOK, Fails, Goto, Statements, Labels, Opening, Loading, Writing
<1>18. QED
  BY <1>1, <1>2, <1>3, <1>4, <1>5, <1>6, <1>7, <1>8, <1>9, <1>10, <1>11, <1>12,
     <1>13, <1>14, <1>15, <1>16, <1>17
     DEF Step

\* Every step leaves a run with the connections and the statement of its line.
LEMMA HoldsStep ==
    ASSUME IInv, NEW p \in Runs, Step(p) \/ Crash(p), NEW r \in Runs
    PROVE  Holds(r)'
<1> USE RunsAssumption, FaultsAssumption
<1>1. CASE OpenToCreate(p)
  <2>1. handles'[p] = (IF pc'[p] = "create_script" THEN {"create"} ELSE {})
    BY <1>1
       DEF OpenToCreate, IInv, TypeOK, Handles, At, Goto, ExitEarly, Holds, Opening,
           Loading, Writing
  <2>2. /\ handles' \in [Runs -> SUBSET Handles]
        /\ \A q \in Runs : q # p => handles'[q] = handles[q]
    BY <1>1 DEF OpenToCreate, IInv, TypeOK, Handles
  <2>3. QED
    BY <1>1, <2>1, <2>2
       DEF OpenToCreate, IInv, TypeOK, Goto, At, ExitEarly, Running, Opening, Loading,
           Writing, Holds
<1>2. CASE ExecuteScript(p)
  <2>1. handles'[p] = {}
    BY <1>2, CloseFacts
       DEF ExecuteScript, IInv, TypeOK, Handles, Busy, At, Holds, Opening, Loading,
           Writing
  <2>2. /\ handles' \in [Runs -> SUBSET Handles]
        /\ \A q \in Runs : q # p => handles'[q] = handles[q]
    BY <1>2, CloseFacts DEF ExecuteScript, IInv, TypeOK, Handles
  <2>3. QED
    BY <1>2, <2>1, <2>2
       DEF ExecuteScript, IInv, TypeOK, Goto, At, ExitEarly, Running, Opening, Loading,
           Writing, Holds
<1>3. CASE OpenDisk(p)
  <2>1. handles'[p] = (IF pc'[p] = "open_memory" THEN {"disk"} ELSE {})
    BY <1>3
       DEF OpenDisk, IInv, TypeOK, Handles, At, Goto, ExitEarly, Holds, Opening,
           Loading, Writing
  <2>2. /\ handles' \in [Runs -> SUBSET Handles]
        /\ \A q \in Runs : q # p => handles'[q] = handles[q]
    BY <1>3 DEF OpenDisk, IInv, TypeOK, Handles
  <2>3. QED
    BY <1>3, <2>1, <2>2
       DEF OpenDisk, IInv, TypeOK, Goto, At, ExitEarly, Running, Opening, Loading,
           Writing, Holds
<1>4. CASE OpenMemory(p)
  <2>1. handles[p] = {"disk"} /\ backup[p] = {} /\ handles \in [Runs -> SUBSET Handles]
    BY <1>4 DEF OpenMemory, At, IInv, TypeOK, Holds, Opening, Handles
  <2>2. ~Busy(p, "disk")
    BY <2>1 DEF Busy
  <2>3. CASE /\ handles' = [handles EXCEPT ![p] = @ \cup {"memory"}]
             /\ pc' = [pc EXCEPT ![p] = "load_init"]
    <3>1. handles'[p] = {"disk", "memory"} /\ \A q \in Runs : q # p => handles'[q] = handles[q]
      BY <2>1, <2>3
    <3>2. QED
      BY <1>4, <2>3, <3>1
         DEF OpenMemory, IInv, TypeOK, Goto, At, ExitEarly, Running, Opening, Loading,
             Writing, Holds
  <2>4. CASE Close(p, {"disk"}) /\ pc' = [pc EXCEPT ![p] = "exited"]
    <3>1. handles'[p] = {} /\ \A q \in Runs : q # p => handles'[q] = handles[q]
      BY <2>1, <2>2, <2>4, CloseFacts
    <3>2. QED
      BY ZenonT(40), <1>4, <2>4, <3>1
         DEF OpenMemory, IInv, TypeOK, Goto, At, ExitEarly, Running, Opening, Loading,
             Writing, Holds
  <2>5. QED
    BY <1>4, <2>3, <2>4 DEF OpenMemory, Goto, ExitEarly
<1>5. CASE LoadInit(p)
  BY <1>5
     DEF LoadInit, IInv, TypeOK, Goto, At, LoadFails, Running, Opening, Loading,
         Writing, Holds
<1>6. CASE LoadStep(p)
  BY <1>6
     DEF LoadStep, IInv, TypeOK, Goto, At, LoadFails, Running, Opening, Loading,
         Writing, Holds
<1>7. CASE LoadFinish(p)
  BY <1>7
     DEF LoadFinish, IInv, TypeOK, Goto, At, LoadFails, Running, Opening, Loading,
         Writing, Holds
<1>8. CASE Prepare(p)
  <2>1. /\ handles[p] = {"disk", "memory"} /\ stmt[p] = "none"
        /\ handles \in [Runs -> SUBSET Handles]
    BY <1>8 DEF Prepare, At, IInv, TypeOK, Holds, Opening, Loading, Handles
  <2>2. CASE UNCHANGED handles /\ pc' = [pc EXCEPT ![p] = "bind"]
    BY <1>8, <2>2
       DEF Prepare, IInv, TypeOK, Goto, At, ExitEarly, Running, Opening, Loading,
           Writing, Holds
  <2>3. CASE Close(p, {"disk", "memory"}) /\ pc' = [pc EXCEPT ![p] = "exited"]
    <3>1. Busy(p, "disk") \/ Busy(p, "memory") => backup[p] # {}
      BY <2>1 DEF Busy
    <3>2. /\ handles'[p] # {} => backup[p] # {}
          /\ \A q \in Runs : q # p => handles'[q] = handles[q]
      BY <2>1, <2>3, <3>1, CloseFacts
    <3>3. QED
      BY ZenonT(60), <1>8, <2>3, <3>2
         DEF Prepare, IInv, TypeOK, Goto, At, ExitEarly, Running, Opening, Loading,
             Writing, Holds
  <2>4. QED
    BY <1>8, <2>2, <2>3 DEF Prepare, Goto, ExitEarly
<1>9. CASE Bind(p)
  BY <1>9
     DEF Bind, IInv, TypeOK, Goto, At, Fail, Running, Opening, Loading, Writing, Holds
<1>10. CASE Execute(p)
  BY <1>10
     DEF Execute, IInv, TypeOK, Goto, At, Fail, Running, Opening, Loading, Writing,
         Holds
<1>11. CASE FlushInit(p)
  BY <1>11
     DEF FlushInit, IInv, TypeOK, Goto, At, Fail, Running, Opening, Loading, Writing,
         Holds
<1>12. CASE FlushStep(p)
  BY <1>12
     DEF FlushStep, IInv, TypeOK, Goto, At, Fail, Running, Opening, Loading, Writing,
         Holds
<1>13. CASE FlushFinish(p)
  BY <1>13
     DEF FlushFinish, IInv, TypeOK, Goto, At, Fail, Running, Opening, Loading, Writing,
         Holds
<1>14. CASE CacheFlush(p)
  BY <1>14
     DEF CacheFlush, IInv, TypeOK, Goto, At, Fail, Running, Opening, Loading, Writing,
         Holds
<1>15. CASE Finalize(p)
  BY <1>15
     DEF Finalize, IInv, TypeOK, Goto, At, Running, Opening, Loading, Writing, Holds
<1>16. CASE CloseBoth(p)
  <2>1. handles'[p] # {} => backup[p] # {}
    BY <1>16, CloseFacts
       DEF CloseBoth, IInv, TypeOK, Handles, Busy, At, Holds, Opening, Loading, Writing
  <2>2. /\ handles' \in [Runs -> SUBSET Handles]
        /\ \A q \in Runs : q # p => handles'[q] = handles[q]
    BY <1>16, CloseFacts DEF CloseBoth, IInv, TypeOK, Handles
  <2>3. QED
    BY ZenonT(40), <1>16, <2>1, <2>2
       DEF CloseBoth, IInv, TypeOK, Goto, At, Running, Opening, Loading, Writing, Holds
<1>17. CASE Crash(p)
  BY <1>17 DEF Crash, IInv, TypeOK, Goto, Running, Opening, Loading, Writing, Holds
<1>18. QED
  BY <1>1, <1>2, <1>3, <1>4, <1>5, <1>6, <1>7, <1>8, <1>9, <1>10, <1>11, <1>12,
     <1>13, <1>14, <1>15, <1>16, <1>17
     DEF Step

\* A person gets nowhere before its run has executed the statement.
LEMMA WrittenStep ==
    ASSUME IInv, NEW p \in Runs, Step(p) \/ Crash(p), NEW r \in Runs
    PROVE  Written(r)'
<1> USE RunsAssumption, FaultsAssumption
<1>1. CASE OpenToCreate(p)
  BY <1>1
     DEF OpenToCreate, IInv, TypeOK, Goto, At, ExitEarly, Opening, Loading, Writing,
         Holds, Written, Unwritten
<1>2. CASE ExecuteScript(p)
  BY <1>2
     DEF ExecuteScript, IInv, TypeOK, Goto, At, ExitEarly, Opening, Loading, Writing,
         Holds, Written, Unwritten
<1>3. CASE OpenDisk(p)
  BY <1>3
     DEF OpenDisk, IInv, TypeOK, Goto, At, ExitEarly, Opening, Loading, Writing, Holds,
         Written, Unwritten
<1>4. CASE OpenMemory(p)
  BY <1>4
     DEF OpenMemory, IInv, TypeOK, Goto, At, ExitEarly, Opening, Loading, Writing,
         Holds, Written, Unwritten
<1>5. CASE LoadInit(p)
  BY <1>5
     DEF LoadInit, IInv, TypeOK, Goto, At, LoadFails, Opening, Loading, Writing, Holds,
         Written, Unwritten
<1>6. CASE LoadStep(p)
  BY <1>6
     DEF LoadStep, IInv, TypeOK, Goto, At, LoadFails, Opening, Loading, Writing, Holds,
         Written, Unwritten
<1>7. CASE LoadFinish(p)
  BY <1>7
     DEF LoadFinish, IInv, TypeOK, Goto, At, LoadFails, Opening, Loading, Writing,
         Holds, Written, Unwritten
<1>8. CASE Prepare(p)
  BY <1>8
     DEF Prepare, IInv, TypeOK, Goto, At, ExitEarly, Opening, Loading, Writing, Holds,
         Written, Unwritten
<1>9. CASE Bind(p)
  BY <1>9
     DEF Bind, IInv, TypeOK, Goto, At, Fail, Opening, Loading, Writing, Holds, Written,
         Unwritten
<1>10. CASE Execute(p)
  <2>1. pc \in [Runs -> Labels] /\ stmt \in [Runs -> Statements] /\ memory \in [Runs -> Contents]
        /\ succeeded \in [Runs -> BOOLEAN]
    BY DEF IInv, TypeOK
  <2>2. Written(r) /\ pc[p] = "execute" /\ stmt[p] = "prepared" /\ disk' = disk
    BY <1>10 DEF IInv, Execute, At, Holds, Writing
  <2>3. CASE memory' = [memory EXCEPT ![p] = @ \cup {p}] /\ pc' = [pc EXCEPT ![p] = "flush_init"]
             /\ UNCHANGED <<stmt, succeeded>>
    <3>1. p \in memory'[p]
      BY <2>1, <2>3
    <3>2. CASE r = p
      BY <2>1, <2>2, <2>3, <3>1, <3>2 DEF Written, Unwritten, Opening, Loading
    <3>3. CASE r # p
      <4>1. \A q \in Runs : r \in memory'[q] <=> r \in memory[q]
        BY <2>1, <2>3, <3>3
      <4>2. QED
        BY <2>1, <2>2, <2>3, <3>3, <4>1 DEF Written, Unwritten
    <3>4. QED
      BY <3>2, <3>3
  <2>4. CASE stmt' = [stmt EXCEPT ![p] = "failed"] /\ Fail(p) /\ UNCHANGED memory
    <3>1. /\ pc'[p] = "finalize" /\ ~succeeded'[p]
          /\ r # p => pc'[r] = pc[r] /\ stmt'[r] = stmt[r] /\ succeeded'[r] = succeeded[r]
      BY <2>1, <2>4 DEF Fail, Goto
    <3>2. CASE r = p
      <4>1. r \notin disk /\ \A q \in Runs : r \notin memory[q]
        BY <2>2, <3>2 DEF Written, Unwritten, Opening, Loading
      <4>2. QED
        BY <2>2, <2>4, <3>1, <3>2, <4>1 DEF Written, Unwritten
    <3>3. CASE r # p
      BY <2>1, <2>2, <2>4, <3>1, <3>3 DEF Written, Unwritten
    <3>4. QED
      BY <3>2, <3>3
  <2>5. QED
    BY <1>10, <2>3, <2>4 DEF Execute, Goto
<1>11. CASE FlushInit(p)
  BY <1>11
     DEF FlushInit, IInv, TypeOK, Goto, At, Fail, Opening, Loading, Writing, Holds,
         Written, Unwritten
<1>12. CASE FlushStep(p)
  BY <1>12
     DEF FlushStep, IInv, TypeOK, Goto, At, Fail, Opening, Loading, Writing, Holds,
         Written, Unwritten
<1>13. CASE FlushFinish(p)
  BY <1>13
     DEF FlushFinish, IInv, TypeOK, Goto, At, Fail, Opening, Loading, Writing, Holds,
         Written, Unwritten
<1>14. CASE CacheFlush(p)
  BY <1>14
     DEF CacheFlush, IInv, TypeOK, Goto, At, Fail, Opening, Loading, Writing, Holds,
         Written, Unwritten
<1>15. CASE Finalize(p)
  BY <1>15
     DEF Finalize, IInv, TypeOK, Goto, At, Opening, Loading, Writing, Holds, Written,
         Unwritten
<1>16. CASE CloseBoth(p)
  BY <1>16
     DEF CloseBoth, IInv, TypeOK, Goto, At, Opening, Loading, Writing, Holds, Written,
         Unwritten
<1>17. CASE Crash(p)
  BY <1>17
     DEF Crash, IInv, TypeOK, Goto, Opening, Loading, Writing, Holds, Written, Unwritten
<1>18. QED
  BY <1>1, <1>2, <1>3, <1>4, <1>5, <1>6, <1>7, <1>8, <1>9, <1>10, <1>11, <1>12,
     <1>13, <1>14, <1>15, <1>16, <1>17
     DEF Step

\* Runs that overlap have met.
LEMMA MetStep ==
    ASSUME IInv, NEW p \in Runs, Step(p) \/ Crash(p), NEW r \in Runs, NEW q \in Runs,
           q # r, Running(r)', Running(q)'
    PROVE  {r, q} \in met'
<1> USE RunsAssumption, FaultsAssumption
<1>1. CASE OpenToCreate(p)
  BY <1>1 DEF OpenToCreate, IInv, TypeOK, Goto, At, ExitEarly, Running, Secured
<1>2. CASE ExecuteScript(p)
  BY <1>2 DEF ExecuteScript, IInv, TypeOK, Goto, At, ExitEarly, Running, Secured
<1>3. CASE OpenDisk(p)
  BY <1>3 DEF OpenDisk, IInv, TypeOK, Goto, At, ExitEarly, Running, Secured
<1>4. CASE OpenMemory(p)
  BY <1>4 DEF OpenMemory, IInv, TypeOK, Goto, At, ExitEarly, Running, Secured
<1>5. CASE LoadInit(p)
  BY <1>5 DEF LoadInit, IInv, TypeOK, LoadFails, Goto, At, Running, Secured
<1>6. CASE LoadStep(p)
  BY <1>6 DEF LoadStep, IInv, TypeOK, LoadFails, Goto, At, Running, Secured
<1>7. CASE LoadFinish(p)
  BY <1>7 DEF LoadFinish, IInv, TypeOK, LoadFails, Goto, At, Running, Secured
<1>8. CASE Prepare(p)
  BY <1>8 DEF Prepare, IInv, TypeOK, Goto, At, ExitEarly, Running, Secured
<1>9. CASE Bind(p)
  BY <1>9 DEF Bind, IInv, TypeOK, Goto, At, Fail, Running, Secured
<1>10. CASE Execute(p)
  BY <1>10 DEF Execute, IInv, TypeOK, Goto, At, Fail, Running, Secured
<1>11. CASE FlushInit(p)
  BY <1>11 DEF FlushInit, IInv, TypeOK, Goto, At, Fail, Running, Secured
<1>12. CASE FlushStep(p)
  BY <1>12 DEF FlushStep, IInv, TypeOK, Goto, At, Fail, Running, Secured
<1>13. CASE FlushFinish(p)
  BY <1>13 DEF FlushFinish, IInv, TypeOK, Goto, At, Fail, Running, Secured
<1>14. CASE CacheFlush(p)
  BY <1>14 DEF CacheFlush, IInv, TypeOK, Goto, At, Fail, Running, Secured
<1>15. CASE Finalize(p)
  BY <1>15 DEF Finalize, IInv, TypeOK, Goto, At, Running, Secured
<1>16. CASE CloseBoth(p)
  BY <1>16 DEF CloseBoth, IInv, TypeOK, Goto, At, Running, Secured
<1>17. CASE Crash(p)
  BY <1>17 DEF Crash, IInv, TypeOK, Goto, Running, Secured
<1>18. QED
  BY <1>1, <1>2, <1>3, <1>4, <1>5, <1>6, <1>7, <1>8, <1>9, <1>10, <1>11, <1>12,
     <1>13, <1>14, <1>15, <1>16, <1>17
     DEF Step

\* A statement keeps the table in the memory it was prepared on.
LEMMA TableStep ==
    ASSUME IInv, NEW p \in Runs, Step(p) \/ Crash(p), NEW r \in Runs,
           stmt'[r] \in {"prepared", "failed"}, Running(r)'
    PROVE  People \in memory'[r]
<1> USE RunsAssumption, FaultsAssumption
<1>1. CASE OpenToCreate(p)
  BY <1>1
     DEF OpenToCreate, IInv, TypeOK, Goto, At, ExitEarly, Running, Holds, Opening,
         Loading, Writing
<1>2. CASE ExecuteScript(p)
  BY <1>2
     DEF ExecuteScript, IInv, TypeOK, Goto, At, ExitEarly, Running, Holds, Opening,
         Loading, Writing
<1>3. CASE OpenDisk(p)
  BY <1>3
     DEF OpenDisk, IInv, TypeOK, Goto, At, ExitEarly, Running, Holds, Opening, Loading,
         Writing
<1>4. CASE OpenMemory(p)
  BY <1>4
     DEF OpenMemory, IInv, TypeOK, Goto, At, ExitEarly, Running, Holds, Opening,
         Loading, Writing
<1>5. CASE LoadInit(p)
  BY <1>5
     DEF LoadInit, IInv, TypeOK, LoadFails, Goto, At, Running, Holds, Opening, Loading,
         Writing
<1>6. CASE LoadStep(p)
  BY <1>6
     DEF LoadStep, IInv, TypeOK, LoadFails, Goto, At, Running, Holds, Opening, Loading,
         Writing
<1>7. CASE LoadFinish(p)
  BY <1>7
     DEF LoadFinish, IInv, TypeOK, LoadFails, Goto, At, Running, Holds, Opening,
         Loading, Writing
<1>8. CASE Prepare(p)
  BY <1>8
     DEF Prepare, IInv, TypeOK, Goto, At, ExitEarly, Running, Holds, Opening, Loading,
         Writing
<1>9. CASE Bind(p)
  BY <1>9
     DEF Bind, IInv, TypeOK, Goto, At, Fail, Running, Holds, Opening, Loading, Writing
<1>10. CASE Execute(p)
  BY <1>10
     DEF Execute, IInv, TypeOK, Goto, At, Fail, Running, Holds, Opening, Loading,
         Writing
<1>11. CASE FlushInit(p)
  BY <1>11
     DEF FlushInit, IInv, TypeOK, Goto, At, Fail, Running, Holds, Opening, Loading,
         Writing
<1>12. CASE FlushStep(p)
  BY <1>12
     DEF FlushStep, IInv, TypeOK, Goto, At, Fail, Running, Holds, Opening, Loading,
         Writing
<1>13. CASE FlushFinish(p)
  BY <1>13
     DEF FlushFinish, IInv, TypeOK, Goto, At, Fail, Running, Holds, Opening, Loading,
         Writing
<1>14. CASE CacheFlush(p)
  BY <1>14
     DEF CacheFlush, IInv, TypeOK, Goto, At, Fail, Running, Holds, Opening, Loading,
         Writing
<1>15. CASE Finalize(p)
  BY <1>15
     DEF Finalize, IInv, TypeOK, Goto, At, Running, Holds, Opening, Loading, Writing
<1>16. CASE CloseBoth(p)
  BY <1>16
     DEF CloseBoth, IInv, TypeOK, Goto, At, Running, Holds, Opening, Loading, Writing
<1>17. CASE Crash(p)
  BY <1>17 DEF Crash, IInv, TypeOK, Goto, Running, Holds, Opening, Loading, Writing
<1>18. QED
  BY <1>1, <1>2, <1>3, <1>4, <1>5, <1>6, <1>7, <1>8, <1>9, <1>10, <1>11, <1>12,
     <1>13, <1>14, <1>15, <1>16, <1>17
     DEF Step

\* Who has met nobody after a step has met nobody before.
LEMMA AloneStep ==
    ASSUME IInv, NEW p \in Runs, Step(p) \/ Crash(p), NEW r \in Runs, Alone(r)'
    PROVE  Alone(r)
<1> USE RunsAssumption, FaultsAssumption
<1>1. CASE OpenToCreate(p)
  BY <1>1 DEF OpenToCreate, Alone
<1>2. CASE ExecuteScript(p)
  BY <1>2 DEF ExecuteScript, Alone
<1>3. CASE OpenDisk(p)
  BY <1>3 DEF OpenDisk, Alone
<1>4. CASE OpenMemory(p)
  BY <1>4 DEF OpenMemory, Alone
<1>5. CASE LoadInit(p)
  BY <1>5 DEF LoadInit, Alone, LoadFails
<1>6. CASE LoadStep(p)
  BY <1>6 DEF LoadStep, Alone, LoadFails
<1>7. CASE LoadFinish(p)
  BY <1>7 DEF LoadFinish, Alone, LoadFails
<1>8. CASE Prepare(p)
  BY <1>8 DEF Prepare, Alone
<1>9. CASE Bind(p)
  BY <1>9 DEF Bind, Alone
<1>10. CASE Execute(p)
  BY <1>10 DEF Execute, Alone
<1>11. CASE FlushInit(p)
  BY <1>11 DEF FlushInit, Alone
<1>12. CASE FlushStep(p)
  BY <1>12 DEF FlushStep, Alone
<1>13. CASE FlushFinish(p)
  BY <1>13 DEF FlushFinish, Alone
<1>14. CASE CacheFlush(p)
  BY <1>14 DEF CacheFlush, Alone
<1>15. CASE Finalize(p)
  BY <1>15 DEF Finalize, Alone
<1>16. CASE CloseBoth(p)
  BY <1>16 DEF CloseBoth, Alone
<1>17. CASE Crash(p)
  BY <1>17 DEF Crash, Alone
<1>18. QED
  BY <1>1, <1>2, <1>3, <1>4, <1>5, <1>6, <1>7, <1>8, <1>9, <1>10, <1>11, <1>12,
     <1>13, <1>14, <1>15, <1>16, <1>17
     DEF Step

\* The person of a run that met nobody stays.
LEMMA SecuredStep ==
    ASSUME IInv, NEW p \in Runs, Step(p) \/ Crash(p), NEW r \in Runs, Alone(r),
           pc'[r] \in Flushed, succeeded'[r], misloaded' = {}
    PROVE  /\ r \in disk'
           /\ \A q \in Runs :
                 pc'[q] \in {"load_finish", "prepare"} \cup Writing => r \in memory'[q]
<1> USE RunsAssumption, FaultsAssumption
<1>a. TypeOK
  BY DEF IInv
<1>b. \A q \in Runs : Running(r) /\ q # r => ~Running(q)
  BY DEF IInv, Secured, Alone
<1>c. pc[r] \in Flushed /\ succeeded[r] /\ misloaded = {} =>
         /\ r \in disk
         /\ \A q \in Runs :
               pc[q] \in {"load_finish", "prepare"} \cup Writing => r \in memory[q]
  BY DEF IInv, Secured
<1>d. pc \in [Runs -> Labels] /\ (pc[r] \in {"flush_init", "flush_step"} => r \in memory[r])
  BY DEF IInv, Written
<1>1. CASE OpenToCreate(p)
  BY <1>1, <1>a, <1>b, <1>c, <1>d
     DEF OpenToCreate, TypeOK, Goto, At, ExitEarly, Running, Writing, Flushed
<1>2. CASE ExecuteScript(p)
  BY <1>2, <1>a, <1>b, <1>c, <1>d
     DEF ExecuteScript, TypeOK, Goto, At, ExitEarly, Running, Writing, Flushed
<1>3. CASE OpenDisk(p)
  BY <1>3, <1>a, <1>b, <1>c, <1>d
     DEF OpenDisk, TypeOK, Goto, At, ExitEarly, Running, Writing, Flushed
<1>4. CASE OpenMemory(p)
  BY <1>4, <1>a, <1>b, <1>c, <1>d
     DEF OpenMemory, TypeOK, Goto, At, ExitEarly, Running, Writing, Flushed
<1>5. CASE LoadInit(p)
  BY <1>5, <1>a, <1>b, <1>c, <1>d
     DEF LoadInit, TypeOK, Goto, At, LoadFails, Running, Writing, Flushed
<1>6. CASE LoadStep(p)
  BY <1>6, <1>a, <1>b, <1>c, <1>d
     DEF LoadStep, TypeOK, Goto, At, LoadFails, Running, Writing, Flushed
<1>7. CASE LoadFinish(p)
  BY <1>7, <1>a, <1>b, <1>c, <1>d
     DEF LoadFinish, TypeOK, Goto, At, LoadFails, Running, Writing, Flushed
<1>8. CASE Prepare(p)
  BY <1>8, <1>a, <1>b, <1>c, <1>d
     DEF Prepare, TypeOK, Goto, At, ExitEarly, Running, Writing, Flushed
<1>9. CASE Bind(p)
  BY <1>9, <1>a, <1>b, <1>c, <1>d
     DEF Bind, TypeOK, Goto, At, Fail, Running, Writing, Flushed
<1>10. CASE Execute(p)
  BY <1>10, <1>a, <1>b, <1>c, <1>d
     DEF Execute, TypeOK, Goto, At, Fail, Running, Writing, Flushed
<1>11. CASE FlushInit(p)
  BY <1>11, <1>a, <1>b, <1>c, <1>d
     DEF FlushInit, TypeOK, Goto, At, Fail, Running, Writing, Flushed
<1>12. CASE FlushStep(p)
  BY <1>12, <1>a, <1>b, <1>c, <1>d
     DEF FlushStep, TypeOK, Goto, At, Fail, Running, Writing, Flushed
<1>13. CASE FlushFinish(p)
  BY <1>13, <1>a, <1>b, <1>c, <1>d
     DEF FlushFinish, TypeOK, Goto, At, Fail, Running, Writing, Flushed
<1>14. CASE CacheFlush(p)
  BY <1>14, <1>a, <1>b, <1>c, <1>d
     DEF CacheFlush, TypeOK, Goto, At, Fail, Running, Writing, Flushed
<1>15. CASE Finalize(p)
  BY <1>15, <1>a, <1>b, <1>c, <1>d
     DEF Finalize, TypeOK, Goto, At, Running, Writing, Flushed
<1>16. CASE CloseBoth(p)
  BY <1>16, <1>a, <1>b, <1>c, <1>d
     DEF CloseBoth, TypeOK, Goto, At, Running, Writing, Flushed
<1>17. CASE Crash(p)
  BY <1>17, <1>a, <1>b, <1>c, <1>d DEF Crash, TypeOK, Goto, Running, Writing, Flushed
<1>18. QED
  BY <1>1, <1>2, <1>3, <1>4, <1>5, <1>6, <1>7, <1>8, <1>9, <1>10, <1>11, <1>12,
     <1>13, <1>14, <1>15, <1>16, <1>17
     DEF Step

\* Nothing is there at the beginning.
LEMMA InitIInv == Init => IInv
<1> SUFFICES ASSUME Init PROVE IInv
    OBVIOUS
<1>1. TypeOK
    BY ContentsFacts, FaultsAssumption DEF Init, TypeOK, Statements, Running
<1>2. pc \in [Runs -> Labels]
    BY DEF Init, Labels, Opening
<1>3. ASSUME NEW r \in Runs PROVE Holds(r) /\ Written(r) /\ Secured(r)
    BY DEF Init, Holds, Written, Unwritten, Secured, Running, Opening, Loading, Writing, Flushed
<1>4. QED
    BY <1>1, <1>2, <1>3 DEF IInv

\* Every step of every run, and a crash, keeps the invariant.
LEMMA NextIInv == IInv /\ [Next]_vars => IInv'
<1> SUFFICES ASSUME IInv, [Next]_vars PROVE IInv'
    OBVIOUS
<1>1. CASE UNCHANGED vars
    BY ZenonT(40), <1>1 DEF vars, IInv, TypeOK, Running, Holds, Written, Unwritten, Secured, Alone
<1>2. ASSUME NEW p \in Runs, Step(p) \/ Crash(p) PROVE IInv'
  <2>1. /\ disk' \in Contents /\ memory' \in [Runs -> Contents]
        /\ handles' \in [Runs -> SUBSET Handles] /\ faults' \in 0 .. MaxFaults
        /\ stmt' \in [Runs -> Statements] /\ backup' \in [Runs -> SUBSET {"load", "flush"}]
        /\ succeeded' \in [Runs -> BOOLEAN] /\ pc' \in [Runs -> Labels]
    BY <1>2, VariablesStep, StatementStep
  <2>2. \A r \in Runs : Holds(r)'
    BY <1>2, HoldsStep
  <2>3. \A r \in Runs : Written(r)'
    BY <1>2, WrittenStep
  <2>4. ASSUME NEW r \in Runs PROVE Secured(r)'
    <3>1. \A q \in Runs : q # r /\ Running(r)' /\ Running(q)' => {r, q} \in met'
      BY <1>2, MetStep
    <3>2. ASSUME pc'[r] \in Flushed, succeeded'[r], misloaded' = {}, Alone(r)'
          PROVE  /\ r \in disk'
                 /\ \A q \in Runs :
                       pc'[q] \in {"load_finish", "prepare"} \cup Writing => r \in memory'[q]
      <4>1. Alone(r)
        BY <1>2, <3>2, AloneStep
      <4>2. QED
        BY <1>2, <3>2, <4>1, SecuredStep
    <3>3. QED
      BY <3>1, <3>2 DEF Secured
  <2>5. ASSUME NEW r \in Runs, stmt'[r] \in {"prepared", "failed"}, Running(r)'
        PROVE  "memory" \in handles'[r] /\ People \in memory'[r]
    <3>1. "memory" \in handles'[r]
      BY <2>1, <2>2, <2>5 DEF Holds, Running, Labels
    <3>2. People \in memory'[r]
      BY <1>2, <2>5, TableStep
    <3>3. QED
      BY <3>1, <3>2
  <2>6. TypeOK'
    BY <2>1, <2>5 DEF TypeOK, Handles
  <2>7. QED
    BY <2>1, <2>2, <2>3, <2>4, <2>6 DEF IInv
<1>3. QED
    BY <1>1, <1>2 DEF Next

\* Types, lines, and where persons are, for any runs and any failures.
THEOREM Invariance == Spec => []IInv
<1>1. QED
    BY InitIInv, NextIInv, PTL DEF Spec

\* The person of a run that succeeded and met no other stays in the file.
THEOREM PersonKeptHolds == Spec => []PersonKept
<1>1. IInv => PersonKept
  <2> SUFFICES ASSUME IInv, NEW r \in Runs, pc[r] = "exited", succeeded[r],
                      misloaded = {}, Alone(r)
               PROVE  r \in disk
      BY DEF PersonKept, Alone
  <2>1. QED
      BY DEF IInv, Secured, Flushed
<1>2. QED
    BY <1>1, Invariance, PTL

\* A run that ends by itself leaves nothing open but what serves an unfinished backup,
\* and no statement but one it has finalized twice.
THEOREM EverythingReleasedHolds == Spec => []EverythingReleased
<1>1. IInv => EverythingReleased
    BY DEF IInv, Holds, Written, Unwritten, EverythingReleased
<1>2. QED
    BY <1>1, Invariance, PTL

\* Once created the table stays in the file.
THEOREM TableNeverLostHolds == Spec => TableNeverLost
<1>1. IInv /\ [Next]_vars => [(People \in disk) => (People \in disk')]_vars
  <2> SUFFICES ASSUME IInv, NEW p \in Runs, Step(p) \/ Crash(p), People \in disk
               PROVE  People \in disk'
      BY DEF Next
  <2>1. CASE FlushStep(p)
    <3>1. People \in memory[p]
      BY <2>1 DEF FlushStep, At, IInv, TypeOK, Holds, Writing, Running
    <3>2. QED
      BY <2>1, <3>1 DEF FlushStep
  <2>2. CASE ExecuteScript(p)
      BY <2>2 DEF ExecuteScript
  <2>3. CASE ~FlushStep(p) /\ ~ExecuteScript(p)
      BY <2>3 DEF Step, OpenToCreate, OpenDisk, OpenMemory, LoadInit, LoadStep, LoadFinish,
                  Prepare, Bind, Execute, FlushInit, FlushFinish, CacheFlush, Finalize,
                  CloseBoth, Crash
  <2>4. QED
      BY <2>1, <2>2, <2>3
<1>2. QED
    BY <1>1, Invariance, PTL DEF Spec, TableNeverLost
=============================================================================
