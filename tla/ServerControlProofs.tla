------------------------- MODULE ServerControlProofs -------------------------
(***************************************************************************)
(* For any number of servers and commands: servers start one after the     *)
(* other, and a running server that nobody disturbed while it started has  *)
(* its PID file and its shared memory.                                     *)
(***************************************************************************)
EXTENDS ServerControl, TLAPS

-----------------------------------------------------------------------------
(* Types. *)

\* Every system call of a server keeps the types, and with them the fact that a
\* command about to check or kill knows a PID.
LEMMA ServerStepTypes ==
  ASSUME TypeOK, NEW p \in Servers, ServerStep(p),
         overlap' = overlap \cup Disturbed'
  PROVE  TypeOK'
<1>0. overlap' \subseteq Servers
  BY DEF TypeOK, Disturbed
<1>1. CASE Start(p) /\ UNCHANGED <<cpc, kind, target>>
  BY <1>0, <1>1 DEF Start, Goto, shared, TypeOK, Starting, Cleaning, Dead
<1>2. CASE Server_InitFails(p) /\ UNCHANGED <<cpc, kind, target>>
  BY <1>0, <1>2 DEF Server_InitFails, Goto, shared, TypeOK, Starting, Cleaning,
      Dead
<1>3. CASE Server_Listen(p) /\ UNCHANGED <<cpc, kind, target>>
  BY <1>0, <1>3 DEF Server_Listen, Goto, TypeOK, Starting, Cleaning, Dead
<1>4. CASE PID_Access(p) /\ UNCHANGED <<cpc, kind, target>>
  BY <1>0, <1>4 DEF PID_Access, Goto, shared, TypeOK, Starting, Cleaning, Dead
<1>5. CASE PID_Fails(p) /\ UNCHANGED <<cpc, kind, target>>
  BY <1>0, <1>5 DEF PID_Fails, Goto, Release, TypeOK, Starting, Cleaning, Dead
<1>6. CASE PID_Create(p) /\ UNCHANGED <<cpc, kind, target>>
  BY <1>0, <1>6 DEF PID_Create, Goto, TypeOK, Starting, Cleaning, Dead
<1>7. CASE Config_Open(p) /\ UNCHANGED <<cpc, kind, target>>
  BY <1>0, <1>7 DEF Config_Open, Goto, Empty, TypeOK, Starting, Cleaning, Dead
<1>8. CASE Config_Size(p) /\ UNCHANGED <<cpc, kind, target>>
  BY <1>0, <1>8 DEF Config_Size, Goto, Zeros, TypeOK, Starting, Cleaning, Dead
<1>9. CASE Config_Copy(p) /\ UNCHANGED <<cpc, kind, target>>
  BY <1>0, <1>9 DEF Config_Copy, Goto, TypeOK, Starting, Cleaning, Dead
<1>10. CASE Config_Fails(p) /\ UNCHANGED <<cpc, kind, target>>
  BY <1>0, <1>10 DEF Config_Fails, Goto, shared, TypeOK, Starting, Cleaning,
      Dead
<1>11. CASE Server_Run(p) /\ UNCHANGED <<cpc, kind, target>>
  BY <1>0, <1>11 DEF Server_Run, Goto, shared, TypeOK, Starting, Cleaning, Dead
<1>12. CASE Server_Close(p) /\ UNCHANGED <<cpc, kind, target>>
  BY <1>0, <1>12 DEF Server_Close, Goto, Release, TypeOK, Starting, Cleaning,
      Dead
<1>13. CASE Server_Fatal(p) /\ UNCHANGED <<cpc, kind, target>>
  BY <1>0, <1>13 DEF Server_Fatal, Goto, shared, TypeOK, Starting, Cleaning,
      Dead
<1>14. CASE Clean_PID(p) /\ UNCHANGED <<cpc, kind, target>>
  BY <1>0, <1>14 DEF Clean_PID, Goto, TypeOK, Starting, Cleaning, Dead
<1>15. CASE Clean_Shm(p) /\ UNCHANGED <<cpc, kind, target>>
  BY <1>0, <1>15 DEF Clean_Shm, Goto, Release, TypeOK, Starting, Cleaning, Dead
<1>16. CASE Crash(p) /\ UNCHANGED <<cpc, kind, target>>
  BY <1>0, <1>16 DEF Crash, Die, Goto, Release, Dead, TypeOK, Starting,
      Cleaning
<1>17. CASE Signal(p) /\ UNCHANGED <<cpc, kind, target>>
  BY <1>0, <1>17 DEF Signal, Die, Goto, Release, shared, Starting, Cleaning,
      TypeOK, Dead
<1> QED
  BY <1>1, <1>2, <1>3, <1>4, <1>5, <1>6, <1>7, <1>8, <1>9, <1>10, <1>11, <1>12,
      <1>13, <1>14, <1>15, <1>16, <1>17 DEF ServerStep

\* So does every system call of a command.
LEMMA CommandStepTypes ==
  ASSUME TypeOK, NEW c \in Commands, CommandStep(c),
         overlap' = overlap \cup Disturbed'
  PROVE  TypeOK'
<1>0. overlap' \subseteq Servers
  BY DEF TypeOK, Disturbed
<1>1. CASE Command_Start(c)
  BY <1>0, <1>1 DEF Command_Start, CommandGoto, Looks, shared, TypeOK,
      Starting, Cleaning, Dead
<1>2. CASE Load_Size(c)
  BY <1>0, <1>2 DEF Load_Size, CommandGoto, Looks, shared, TypeOK, Starting,
      Cleaning, Dead
<1>3. CASE Load_Data(c)
  BY <1>0, <1>3 DEF Load_Data, CommandGoto, Looks, shared, TypeOK, Starting,
      Cleaning, Dead
<1>4. CASE Check(c)
  BY <1>0, <1>4 DEF Check, CommandGoto, Looks, shared, AfterCheck, Dead,
      TypeOK, Starting, Cleaning
<1>5. CASE Kill(c)
  BY <1>0, <1>5 DEF Kill, CommandGoto, Looks, shared, Dead, Signal, Die, Goto,
      Release, Starting, Cleaning, TypeOK
<1>6. CASE Command_Clean_PID(c)
  BY <1>0, <1>6 DEF Command_Clean_PID, CommandGoto, TypeOK, Starting, Cleaning,
      Dead
<1>7. CASE Command_Clean_Shm(c)
  BY <1>0, <1>7 DEF Command_Clean_Shm, CommandGoto, TypeOK, Starting, Cleaning,
      Dead
<1> QED
  BY <1>1, <1>2, <1>3, <1>4, <1>5, <1>6, <1>7 DEF CommandStep

-----------------------------------------------------------------------------
(* The other parts of the invariant. *)

\* The steps of one server take neither the port nor the records of another that
\* was left alone while it started (CMD_runStart, PID_init, Config_save, clean).
LEMMA ServerStepKeeps ==
  ASSUME ControlInvariant, NEW p \in Servers, ServerStep(p),
         overlap' = overlap \cup Disturbed'
  PROVE  PortIsHeld' /\ NobodyInterferes' /\ RecordsAreKept'
<1> USE NoneAssumption DEF ControlInvariant
<1>1. CASE Start(p) /\ UNCHANGED <<cpc, kind, target>>
  <2>1. PortIsHeld'
    BY <1>1 DEF Start, Goto, shared, TypeOK, PortIsHeld, Starting
  <2>2. NobodyInterferes'
    BY <1>1 DEF Start, Goto, shared, TypeOK, PortIsHeld, NobodyInterferes,
        Disturbed, Starting, Cleaning
  <2>3. RecordsAreKept'
    BY <1>1 DEF Start, Goto, shared, TypeOK, PortIsHeld, NobodyInterferes,
        RecordsAreKept, Starting, Cleaning
  <2> QED
    BY <2>1, <2>2, <2>3
<1>2. CASE Server_InitFails(p) /\ UNCHANGED <<cpc, kind, target>>
  <2>1. PortIsHeld'
    BY <1>2 DEF Server_InitFails, Goto, shared, TypeOK, PortIsHeld, Starting
  <2>2. NobodyInterferes'
    BY <1>2 DEF Server_InitFails, Goto, shared, TypeOK, PortIsHeld,
        NobodyInterferes, Disturbed, Starting, Cleaning
  <2>3. RecordsAreKept'
    BY <1>2 DEF Server_InitFails, Goto, shared, TypeOK, PortIsHeld,
        NobodyInterferes, RecordsAreKept, Starting, Cleaning
  <2> QED
    BY <2>1, <2>2, <2>3
<1>3. CASE Server_Listen(p) /\ UNCHANGED <<cpc, kind, target>>
  <2>1. PortIsHeld'
    BY <1>3 DEF Server_Listen, Goto, TypeOK, PortIsHeld, Starting
  <2>2. NobodyInterferes'
    BY <1>3 DEF Server_Listen, Goto, TypeOK, PortIsHeld, NobodyInterferes,
        Disturbed, Starting, Cleaning
  <2>3. RecordsAreKept'
    BY <1>3 DEF Server_Listen, Goto, TypeOK, PortIsHeld, NobodyInterferes,
        RecordsAreKept, Starting, Cleaning
  <2> QED
    BY <2>1, <2>2, <2>3
<1>4. CASE PID_Access(p) /\ UNCHANGED <<cpc, kind, target>>
  <2>1. PortIsHeld'
    BY <1>4 DEF PID_Access, Goto, shared, TypeOK, PortIsHeld, Starting
  <2>2. NobodyInterferes'
    BY <1>4 DEF PID_Access, Goto, shared, TypeOK, PortIsHeld, NobodyInterferes,
        Disturbed, Starting, Cleaning
  <2>3. RecordsAreKept'
    BY <1>4 DEF PID_Access, Goto, shared, TypeOK, PortIsHeld, NobodyInterferes,
        RecordsAreKept, Starting, Cleaning
  <2> QED
    BY <2>1, <2>2, <2>3
<1>5. CASE PID_Fails(p) /\ UNCHANGED <<cpc, kind, target>>
  <2>1. PortIsHeld'
    BY <1>5 DEF PID_Fails, Goto, Release, TypeOK, PortIsHeld, Starting
  <2>2. NobodyInterferes'
    BY <1>5 DEF PID_Fails, Goto, Release, TypeOK, PortIsHeld, NobodyInterferes,
        Disturbed, Starting, Cleaning
  <2>3. RecordsAreKept'
    BY <1>5 DEF PID_Fails, Goto, Release, TypeOK, PortIsHeld, NobodyInterferes,
        RecordsAreKept, Starting, Cleaning
  <2> QED
    BY <2>1, <2>2, <2>3
<1>6. CASE PID_Create(p) /\ UNCHANGED <<cpc, kind, target>>
  <2>1. PortIsHeld'
    BY <1>6 DEF PID_Create, Goto, TypeOK, PortIsHeld, Starting
  <2>2. NobodyInterferes'
    BY <1>6 DEF PID_Create, Goto, TypeOK, PortIsHeld, NobodyInterferes,
        Disturbed, Starting, Cleaning
  <2>3. RecordsAreKept'
    BY <1>6 DEF PID_Create, Goto, TypeOK, PortIsHeld, NobodyInterferes,
        RecordsAreKept, Starting, Cleaning
  <2> QED
    BY <2>1, <2>2, <2>3
<1>7. CASE Config_Open(p) /\ UNCHANGED <<cpc, kind, target>>
  <2>1. PortIsHeld'
    BY <1>7 DEF Config_Open, Goto, Empty, TypeOK, PortIsHeld, Starting
  <2>2. NobodyInterferes'
    BY <1>7 DEF Config_Open, Goto, Empty, TypeOK, PortIsHeld, NobodyInterferes,
        Disturbed, Starting, Cleaning
  <2>3. RecordsAreKept'
    BY <1>7 DEF Config_Open, Goto, Empty, TypeOK, PortIsHeld, NobodyInterferes,
        RecordsAreKept, Starting, Cleaning
  <2> QED
    BY <2>1, <2>2, <2>3
<1>8. CASE Config_Size(p) /\ UNCHANGED <<cpc, kind, target>>
  <2>1. PortIsHeld'
    BY <1>8 DEF Config_Size, Goto, Zeros, TypeOK, PortIsHeld, Starting
  <2>2. NobodyInterferes'
    BY <1>8 DEF Config_Size, Goto, Zeros, TypeOK, PortIsHeld, NobodyInterferes,
        Disturbed, Starting, Cleaning
  <2>3. RecordsAreKept'
    BY <1>8 DEF Config_Size, Goto, Zeros, TypeOK, PortIsHeld, NobodyInterferes,
        RecordsAreKept, Starting, Cleaning
  <2> QED
    BY <2>1, <2>2, <2>3
<1>9. CASE Config_Copy(p) /\ UNCHANGED <<cpc, kind, target>>
  <2>1. PortIsHeld'
    BY <1>9 DEF Config_Copy, Goto, TypeOK, PortIsHeld, Starting
  <2>2. NobodyInterferes'
    BY <1>9 DEF Config_Copy, Goto, TypeOK, PortIsHeld, NobodyInterferes,
        Disturbed, Starting, Cleaning
  <2>3. RecordsAreKept'
    BY <1>9 DEF Config_Copy, Goto, TypeOK, PortIsHeld, NobodyInterferes,
        RecordsAreKept, Starting, Cleaning
  <2> QED
    BY <2>1, <2>2, <2>3
<1>10. CASE Config_Fails(p) /\ UNCHANGED <<cpc, kind, target>>
  <2>1. PortIsHeld'
    BY <1>10 DEF Config_Fails, Goto, shared, TypeOK, PortIsHeld, Starting
  <2>2. NobodyInterferes'
    BY <1>10 DEF Config_Fails, Goto, shared, TypeOK, PortIsHeld,
        NobodyInterferes, Disturbed, Starting, Cleaning
  <2>3. RecordsAreKept'
    BY <1>10 DEF Config_Fails, Goto, shared, TypeOK, PortIsHeld,
        NobodyInterferes, RecordsAreKept, Starting, Cleaning
  <2> QED
    BY <2>1, <2>2, <2>3
<1>11. CASE Server_Run(p) /\ UNCHANGED <<cpc, kind, target>>
  <2>1. PortIsHeld'
    BY <1>11 DEF Server_Run, Goto, shared, TypeOK, PortIsHeld, Starting
  <2>2. NobodyInterferes'
    BY <1>11 DEF Server_Run, Goto, shared, TypeOK, PortIsHeld,
        NobodyInterferes, Disturbed, Starting, Cleaning
  <2>3. RecordsAreKept'
    BY <1>11 DEF Server_Run, Goto, shared, TypeOK, PortIsHeld,
        NobodyInterferes, RecordsAreKept, Starting, Cleaning
  <2> QED
    BY <2>1, <2>2, <2>3
<1>12. CASE Server_Close(p) /\ UNCHANGED <<cpc, kind, target>>
  <2>1. PortIsHeld'
    BY <1>12 DEF Server_Close, Goto, Release, TypeOK, PortIsHeld, Starting
  <2>2. NobodyInterferes'
    BY <1>12 DEF Server_Close, Goto, Release, TypeOK, PortIsHeld,
        NobodyInterferes, Disturbed, Starting, Cleaning
  <2>3. RecordsAreKept'
    BY <1>12 DEF Server_Close, Goto, Release, TypeOK, PortIsHeld,
        NobodyInterferes, RecordsAreKept, Starting, Cleaning
  <2> QED
    BY <2>1, <2>2, <2>3
<1>13. CASE Server_Fatal(p) /\ UNCHANGED <<cpc, kind, target>>
  <2>1. PortIsHeld'
    BY <1>13 DEF Server_Fatal, Goto, shared, TypeOK, PortIsHeld, Starting
  <2>2. NobodyInterferes'
    BY <1>13 DEF Server_Fatal, Goto, shared, TypeOK, PortIsHeld,
        NobodyInterferes, Disturbed, Starting, Cleaning
  <2>3. RecordsAreKept'
    BY <1>13 DEF Server_Fatal, Goto, shared, TypeOK, PortIsHeld,
        NobodyInterferes, RecordsAreKept, Starting, Cleaning
  <2> QED
    BY <2>1, <2>2, <2>3
<1>14. CASE Clean_PID(p) /\ UNCHANGED <<cpc, kind, target>>
  <2>1. PortIsHeld'
    BY <1>14 DEF Clean_PID, Goto, TypeOK, PortIsHeld, Starting
  <2>2. NobodyInterferes'
    BY <1>14 DEF Clean_PID, Goto, TypeOK, PortIsHeld, NobodyInterferes,
        Disturbed, Starting, Cleaning
  <2>3. RecordsAreKept'
    BY <1>14 DEF Clean_PID, Goto, TypeOK, PortIsHeld, NobodyInterferes,
        RecordsAreKept, Starting, Cleaning
  <2> QED
    BY <2>1, <2>2, <2>3
<1>15. CASE Clean_Shm(p) /\ UNCHANGED <<cpc, kind, target>>
  <2>1. PortIsHeld'
    BY <1>15 DEF Clean_Shm, Goto, Release, TypeOK, PortIsHeld, Starting
  <2>2. NobodyInterferes'
    BY <1>15 DEF Clean_Shm, Goto, Release, TypeOK, PortIsHeld,
        NobodyInterferes, Disturbed, Starting, Cleaning
  <2>3. RecordsAreKept'
    BY <1>15 DEF Clean_Shm, Goto, Release, TypeOK, PortIsHeld,
        NobodyInterferes, RecordsAreKept, Starting, Cleaning
  <2> QED
    BY <2>1, <2>2, <2>3
<1>16. CASE Crash(p) /\ UNCHANGED <<cpc, kind, target>>
  <2>1. PortIsHeld'
    BY <1>16 DEF Crash, Die, Goto, Release, Dead, TypeOK, PortIsHeld, Starting
  <2>2. NobodyInterferes'
    BY <1>16 DEF Crash, Die, Goto, Release, Dead, TypeOK, PortIsHeld,
        NobodyInterferes, Disturbed, Starting, Cleaning
  <2>3. RecordsAreKept'
    BY <1>16 DEF Crash, Die, Goto, Release, Dead, TypeOK, PortIsHeld,
        NobodyInterferes, RecordsAreKept, Starting, Cleaning
  <2> QED
    BY <2>1, <2>2, <2>3
<1>17. CASE Signal(p) /\ UNCHANGED <<cpc, kind, target>>
  <2>1. PortIsHeld'
    BY <1>17 DEF Signal, Die, Goto, Release, shared, Starting, Cleaning,
        TypeOK, PortIsHeld
  <2>2. NobodyInterferes'
    BY <1>17 DEF Signal, Die, Goto, Release, shared, Starting, Cleaning,
        TypeOK, PortIsHeld, NobodyInterferes, Disturbed
  <2>3. RecordsAreKept'
    BY <1>17 DEF Signal, Die, Goto, Release, shared, Starting, Cleaning,
        TypeOK, PortIsHeld, NobodyInterferes, RecordsAreKept
  <2> QED
    BY <2>1, <2>2, <2>3
<1> QED
  BY <1>1, <1>2, <1>3, <1>4, <1>5, <1>6, <1>7, <1>8, <1>9, <1>10, <1>11, <1>12,
      <1>13, <1>14, <1>15, <1>16, <1>17 DEF ServerStep

\* Neither do those of a command (CMD_runStop, CMD_runStatus, cleanup): it
\* removes records only after it has found their server dead.
LEMMA CommandStepKeeps ==
  ASSUME ControlInvariant, NEW c \in Commands, CommandStep(c),
         overlap' = overlap \cup Disturbed'
  PROVE  PortIsHeld' /\ NobodyInterferes' /\ RecordsAreKept'
<1> USE NoneAssumption DEF ControlInvariant
<1>1. CASE Command_Start(c)
  <2>1. PortIsHeld'
    BY <1>1 DEF Command_Start, CommandGoto, Looks, shared, TypeOK, PortIsHeld,
        Starting
  <2>2. NobodyInterferes'
    BY <1>1 DEF Command_Start, CommandGoto, Looks, shared, TypeOK, PortIsHeld,
        NobodyInterferes, Disturbed, Starting, Cleaning
  <2>3. RecordsAreKept'
    BY <1>1 DEF Command_Start, CommandGoto, Looks, shared, TypeOK, PortIsHeld,
        NobodyInterferes, RecordsAreKept, Starting, Cleaning
  <2> QED
    BY <2>1, <2>2, <2>3
<1>2. CASE Load_Size(c)
  <2>1. PortIsHeld'
    BY <1>2 DEF Load_Size, CommandGoto, Looks, shared, TypeOK, PortIsHeld,
        Starting
  <2>2. NobodyInterferes'
    BY <1>2 DEF Load_Size, CommandGoto, Looks, shared, TypeOK, PortIsHeld,
        NobodyInterferes, Disturbed, Starting, Cleaning
  <2>3. RecordsAreKept'
    BY <1>2 DEF Load_Size, CommandGoto, Looks, shared, TypeOK, PortIsHeld,
        NobodyInterferes, RecordsAreKept, Starting, Cleaning
  <2> QED
    BY <2>1, <2>2, <2>3
<1>3. CASE Load_Data(c)
  <2>1. PortIsHeld'
    BY <1>3 DEF Load_Data, CommandGoto, Looks, shared, TypeOK, PortIsHeld,
        Starting, RecordsAreKept
  <2>2. NobodyInterferes'
    BY <1>3 DEF Load_Data, CommandGoto, Looks, shared, TypeOK, PortIsHeld,
        NobodyInterferes, Disturbed, Starting, Cleaning, RecordsAreKept
  <2>3. RecordsAreKept'
    BY <1>3 DEF Load_Data, CommandGoto, Looks, shared, TypeOK, PortIsHeld,
        NobodyInterferes, RecordsAreKept, Starting, Cleaning
  <2> QED
    BY <2>1, <2>2, <2>3
<1>4. CASE Check(c)
  <2>1. PortIsHeld'
    BY <1>4 DEF Check, CommandGoto, Looks, shared, AfterCheck, Dead, TypeOK,
        PortIsHeld, Starting
  <2>2. NobodyInterferes'
    BY <1>4 DEF Check, CommandGoto, Looks, shared, AfterCheck, Dead, TypeOK,
        PortIsHeld, NobodyInterferes, Disturbed, Starting, Cleaning
  <2>3. RecordsAreKept'
    BY <1>4 DEF Check, CommandGoto, Looks, shared, AfterCheck, Dead, TypeOK,
        PortIsHeld, NobodyInterferes, RecordsAreKept, Starting, Cleaning
  <2> QED
    BY <2>1, <2>2, <2>3
<1>5. CASE Kill(c)
  <2>1. PortIsHeld'
    BY <1>5 DEF Kill, CommandGoto, Looks, shared, Dead, Signal, Die, Goto,
        Release, Starting, Cleaning, TypeOK, PortIsHeld
  <2>2. NobodyInterferes'
    BY <1>5 DEF Kill, CommandGoto, Looks, shared, Dead, Signal, Die, Goto,
        Release, Starting, Cleaning, TypeOK, PortIsHeld, NobodyInterferes,
        Disturbed
  <2>3. RecordsAreKept'
    BY <1>5 DEF Kill, CommandGoto, Looks, shared, Dead, Signal, Die, Goto,
        Release, Starting, Cleaning, TypeOK, PortIsHeld, NobodyInterferes,
        RecordsAreKept
  <2> QED
    BY <2>1, <2>2, <2>3
<1>6. CASE Command_Clean_PID(c)
  <2>1. PortIsHeld'
    BY <1>6 DEF Command_Clean_PID, CommandGoto, TypeOK, PortIsHeld, Starting
  <2>2. NobodyInterferes'
    BY <1>6 DEF Command_Clean_PID, CommandGoto, TypeOK, PortIsHeld,
        NobodyInterferes, Disturbed, Starting, Cleaning
  <2>3. RecordsAreKept'
    BY <1>6 DEF Command_Clean_PID, CommandGoto, TypeOK, PortIsHeld,
        NobodyInterferes, RecordsAreKept, Starting, Cleaning
  <2> QED
    BY <2>1, <2>2, <2>3
<1>7. CASE Command_Clean_Shm(c)
  <2>1. PortIsHeld'
    BY <1>7 DEF Command_Clean_Shm, CommandGoto, TypeOK, PortIsHeld, Starting
  <2>2. NobodyInterferes'
    BY <1>7 DEF Command_Clean_Shm, CommandGoto, TypeOK, PortIsHeld,
        NobodyInterferes, Disturbed, Starting, Cleaning
  <2>3. RecordsAreKept'
    BY <1>7 DEF Command_Clean_Shm, CommandGoto, TypeOK, PortIsHeld,
        NobodyInterferes, RecordsAreKept, Starting, Cleaning
  <2> QED
    BY <2>1, <2>2, <2>3
<1> QED
  BY <1>1, <1>2, <1>3, <1>4, <1>5, <1>6, <1>7 DEF CommandStep

-----------------------------------------------------------------------------
(* The theorems. *)

\* The invariant of starting and stopping holds for any number of servers and
\* commands.  RunningIsRecorded is not inductive: that nobody takes away the
\* records of a running server needs the port to be held from Server_init on,
\* so that no other server comes to own records that it would remove, and
\* needs every command in flight to have found this server's PID.
THEOREM ControlInvariantHolds == Spec => []ControlInvariant
<1>1. Init => ControlInvariant
  BY NoneAssumption
     DEF Init, ControlInvariant, TypeOK, PortIsHeld, NobodyInterferes,
         RecordsAreKept, Starting
<1>2. ControlInvariant /\ [Next]_vars => ControlInvariant'
  <2> SUFFICES ASSUME ControlInvariant, [Next]_vars
               PROVE  ControlInvariant'
    OBVIOUS
  <2>1. CASE Next
    <3>1. overlap' = overlap \cup Disturbed'
      BY <2>1 DEF Next
    <3>2. CASE \E p \in Servers : ServerStep(p)
      BY <3>1, <3>2, ServerStepTypes, ServerStepKeeps DEF ControlInvariant
    <3>3. CASE \E c \in Commands : CommandStep(c)
      BY <3>1, <3>3, CommandStepTypes, CommandStepKeeps DEF ControlInvariant
    <3> QED
      BY <2>1, <3>2, <3>3 DEF Next
  <2>2. CASE UNCHANGED vars
    BY <2>2
       DEF vars, shared, ControlInvariant, TypeOK, PortIsHeld,
           NobodyInterferes, RecordsAreKept
  <2> QED
    BY <2>1, <2>2
<1> QED
  BY <1>1, <1>2, PTL DEF Spec

\* The variables of the servers, the commands and their files keep their types.
THEOREM ControlTypesHold == Spec => []TypeOK
BY ControlInvariantHolds, PTL DEF ControlInvariant

\* Nothing but the port keeps two servers from creating the PID file and the
\* shared memory together, and it is enough.
THEOREM StartsAreExclusive == Spec => []StartIsExclusive
<1>1. ControlInvariant => StartIsExclusive
  BY DEF ControlInvariant, PortIsHeld, StartIsExclusive
<1> QED
  BY <1>1, ControlInvariantHolds, PTL

\* A running server that was not disturbed while it started has its PID file
\* and its settings in the shared memory.
THEOREM RunningServersAreRecorded == Spec => []RunningIsRecorded
<1>1. ControlInvariant => RunningIsRecorded
  BY DEF ControlInvariant, RecordsAreKept, RunningIsRecorded
<1> QED
  BY <1>1, ControlInvariantHolds, PTL

-----------------------------------------------------------------------------
(* Nothing is left behind. *)

\* A server removes what it has made before it ends, and others can only remove
\* it earlier.
LEMMA ServerKeepsOwners ==
  ASSUME TypeOK, RecordsHaveOwners, NEW p \in Servers, ServerStep(p)
  PROVE  RecordsHaveOwners'
<1> USE NoneAssumption DEF RecordsHaveOwners, TypeOK, Goto, shared, Cleaning
<1>1. CASE Start(p) \/ Server_InitFails(p) \/ Server_Listen(p) \/ PID_Access(p)
  BY <1>1 DEF Start, Server_InitFails, Server_Listen, PID_Access
<1>2. CASE PID_Fails(p)
  BY <1>2 DEF PID_Fails
<1>3. CASE PID_Create(p)
  BY <1>3 DEF PID_Create
<1>4. CASE Config_Open(p)
  BY <1>4 DEF Config_Open
<1>5. CASE Config_Size(p)
  BY <1>5 DEF Config_Size
<1>6. CASE Config_Copy(p)
  BY <1>6 DEF Config_Copy
<1>7. CASE Config_Fails(p) \/ Server_Run(p) \/ Server_Close(p) \/ Server_Fatal(p)
  BY <1>7 DEF Config_Fails, Server_Run, Server_Close, Server_Fatal
<1>8. CASE Clean_PID(p)
  BY <1>8 DEF Clean_PID
<1>9. CASE Clean_Shm(p)
  BY <1>9 DEF Clean_Shm
<1>10. ASSUME Die(p) PROVE RecordsHaveOwners'
  BY <1>10 DEF Die
<1>11. CASE Crash(p) \/ Signal(p)
  BY <1>10, <1>11 DEF Crash, Signal
<1> QED
  BY <1>1, <1>2, <1>3, <1>4, <1>5, <1>6, <1>7, <1>8, <1>9, <1>11 DEF ServerStep

\* A command makes no record; it removes them or kills.
LEMMA CommandKeepsOwners ==
  ASSUME TypeOK, RecordsHaveOwners, NEW c \in Commands, CommandStep(c)
  PROVE  RecordsHaveOwners'
<1> USE NoneAssumption DEF RecordsHaveOwners, TypeOK, shared
<1>1. CASE Command_Start(c) \/ Load_Size(c) \/ Load_Data(c) \/ Check(c)
  BY <1>1 DEF Command_Start, Load_Size, Load_Data, Check, Looks
<1>2. CASE Kill(c)
  <2>1. target[c] \in Servers
    BY <1>2 DEF Kill
  <2>2. CASE Die(target[c])
    BY <2>1, <2>2 DEF Die
  <2> QED
    BY <1>2, <2>2 DEF Kill, Signal, Looks
<1>3. CASE Command_Clean_PID(c)
  BY <1>3 DEF Command_Clean_PID
<1>4. CASE Command_Clean_Shm(c)
  BY <1>4 DEF Command_Clean_Shm
<1> QED
  BY <1>1, <1>2, <1>3, <1>4 DEF CommandStep

\* If no process has died without its clean-up, neither the PID file nor the
\* shared memory is there once all servers have ended, whatever commands have
\* removed in between.  NothingIsLeft is not inductive: it needs to know of
\* every record which living server made it.
THEOREM NothingIsLeftBehind == Spec => []NothingIsLeft
<1>1. Init => RecordsHaveOwners
  BY NoneAssumption DEF Init, RecordsHaveOwners
<1>2. TypeOK /\ RecordsHaveOwners /\ [Next]_vars => RecordsHaveOwners'
  <2> SUFFICES ASSUME TypeOK, RecordsHaveOwners, [Next]_vars
               PROVE  RecordsHaveOwners'
    OBVIOUS
  <2>1. CASE Next
    BY <2>1, ServerKeepsOwners, CommandKeepsOwners DEF Next
  <2>2. CASE UNCHANGED vars
    BY <2>2 DEF vars, shared, RecordsHaveOwners
  <2> QED
    BY <2>1, <2>2
<1>3. TypeOK /\ RecordsHaveOwners => NothingIsLeft
  <2> SUFFICES ASSUME TypeOK, RecordsHaveOwners, ~crashed,
                      \A p \in Servers : pc[p] \in {"idle", "exited"}
               PROVE  pidFile = None /\ shm = None
    BY DEF NothingIsLeft
  <2>1. pidFile \in Servers \cup {None} /\ fd \in Servers \cup {None}
    BY DEF TypeOK
  <2>2. pidFile \notin Servers /\ fd \notin Servers
    BY DEF RecordsHaveOwners, Cleaning
  <2> QED
    BY <2>1, <2>2 DEF RecordsHaveOwners
<1> QED
  BY <1>1, <1>2, <1>3, ControlTypesHold, PTL DEF Spec
=============================================================================
