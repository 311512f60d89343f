------------------------------ MODULE Dhrystone ------------------------------
(***************************************************************************)
(* The Dhrystone program (legacy/dhrystone/dhry_1.c and dhry_2.c), built   *)
(* with TIME and RISCV as the Makefile does: main as a sequence of steps,  *)
(* a step for every loop iteration, and the procedures as operators on the *)
(* global variables and the heap.                                          *)
(*                                                                         *)
(* Strings are named by the word they differ in: they all begin with       *)
(* "DHRYSTONE PROGRAM, " and the first letter of the next word decides a   *)
(* comparison.  strcpy and strcmp are used as module CLibrary shows them.  *)
(*                                                                         *)
(* A behaviour is an execution of the program or one call of the library.  *)
(***************************************************************************)
EXTENDS CLibrary

CONSTANTS
  Number_Of_Runs,    \* 100 in the code
  SignBit,           \* value of the top bit of an int and of rdcycle (2^31 in the code)
  Cycles,            \* the cycles a run may take
  Starts             \* values of the cycle counter when the measurement begins

VARIABLES
  pc,                \* the statement of main that is next
  glob,              \* the global variables and the heap
  loc,               \* the local variables of main, and those of Func_2
  clock,             \* the cycle counter
  spent              \* the cycles a run takes in this execution

mainVars == <<pc, glob, loc, clock, spent>>

Ident_1 == 0
Ident_2 == 1
Ident_3 == 2
Ident_4 == 3
Ident_5 == 4

Letter == [A |-> 65, B |-> 66, C |-> 67, R |-> 82, W |-> 87, Y |-> 89, Z |-> 90]
FirstLetter(str) ==
  CASE str = "1'ST" -> 49 [] str = "2'ND" -> 50 [] str = "3'RD" -> 51 [] str = "SOME" -> 83
\* faulty: the two strings are compared at a place where they are equal
SameChar(str, i) == Letter.R

\* "DHRYSTONE PROGRAM, ..."[i] for the two indices the program uses.
CharAt(str, i) == IF i = 2 THEN Letter.R ELSE Letter.Y
Greater(str1, str2) == FirstLetter(str1) > FirstLetter(str2)

\* A measurement takes less cycles than an int can count.
ASSUME RunsAssumption ==
  /\ Number_Of_Runs \in Nat \ {0} /\ SignBit \in Nat \ {0}
  /\ Starts \subseteq 0 .. 2 * SignBit - 1
  /\ \A c \in Cycles : c \in Nat /\ Number_Of_Runs * c < SignBit

(***************************************************************************)
(* dhry_2.c                                                                *)
(***************************************************************************)
Func_3(Enum_Par_Val) == Enum_Par_Val = Ident_3

\* What *Enum_Ref_Par becomes.
Proc_6(g, Enum_Val_Par) ==
  CASE Enum_Val_Par = Ident_1 -> Ident_1
    [] Enum_Val_Par = Ident_2 -> IF g.Int_Glob > 100 THEN Ident_1 ELSE Ident_4
    [] Enum_Val_Par = Ident_3 -> Ident_2
    [] Enum_Val_Par = Ident_4 -> IF Func_3(Enum_Val_Par) THEN Enum_Val_Par ELSE Ident_4
    [] Enum_Val_Par = Ident_5 -> Ident_3

\* What *Int_Par_Ref becomes.
Proc_7(Int_1_Par_Val, Int_2_Par_Val) == Int_2_Par_Val + (Int_1_Par_Val + 2)

\* faulty: the counting element is assigned and not incremented
Proc_8Assigns(g, Int_1_Par_Val, Int_2_Par_Val) ==
  LET i == Int_1_Par_Val + 5
      arr1 == [g.Arr_1_Glob EXCEPT ![i] = Int_2_Par_Val, ![i + 1] = Int_2_Par_Val, ![i + 30] = i]
      row == [g.Arr_2_Glob[i] EXCEPT ![i] = i, ![i + 1] = i, ![i - 1] = 11]
  IN  [g EXCEPT !.Arr_1_Glob = arr1,
                !.Arr_2_Glob = [g.Arr_2_Glob EXCEPT ![i] = row, ![i + 20][i] = arr1[i]],
                !.Int_Glob = 5]

Proc_8(g, Int_1_Par_Val, Int_2_Par_Val) ==
  LET i == Int_1_Par_Val + 5
      arr1 == [g.Arr_1_Glob EXCEPT ![i] = Int_2_Par_Val, ![i + 1] = Int_2_Par_Val, ![i + 30] = i]
      row == [g.Arr_2_Glob[i] EXCEPT ![i] = i, ![i + 1] = i, ![i - 1] = @ + 1]
  IN  [g EXCEPT !.Arr_1_Glob = arr1,
                !.Arr_2_Glob = [g.Arr_2_Glob EXCEPT ![i] = row, ![i + 20][i] = arr1[i]],
                !.Int_Glob = 5]

\* The result; Ch_1_Glob is changed when the two characters are equal.
Func_1(Ch_1_Par_Val, Ch_2_Par_Val) == IF Ch_1_Par_Val # Ch_2_Par_Val THEN Ident_1 ELSE Ident_2
Func_1Ch_1_Glob(g, Ch_1_Par_Val, Ch_2_Par_Val) ==
  [g EXCEPT !.Ch_1_Glob = IF Ch_1_Par_Val # Ch_2_Par_Val THEN @ ELSE Ch_1_Par_Val]

(***************************************************************************)
(* dhry_1.c, the procedures                                                *)
(***************************************************************************)
Null == 0

\* faulty: the second parameter is taken for the first
Proc_3Swapped(g, next) ==
  [g EXCEPT !.Heap = [[@ EXCEPT ![next].Ptr_Comp = g.Heap[g.Ptr_Glob].Ptr_Comp]
                        EXCEPT ![next].Int_Comp = Proc_7(10, g.Int_Glob)]]

Proc_3(g, next) ==
  LET h == IF g.Ptr_Glob # Null
           THEN [g.Heap EXCEPT ![next].Ptr_Comp = g.Heap[g.Ptr_Glob].Ptr_Comp] ELSE g.Heap
  IN  [g EXCEPT !.Heap = [h EXCEPT ![g.Ptr_Glob].Int_Comp = Proc_7(10, g.Int_Glob)]]

\* Ptr_Val_Par and Ptr_Glob may be the same record, and its Ptr_Comp the other.
Proc_1(g, Ptr_Val_Par) ==
  LET next == g.Heap[Ptr_Val_Par].Ptr_Comp
      copied == [[g.Heap EXCEPT ![next] = g.Heap[g.Ptr_Glob]] EXCEPT ![Ptr_Val_Par].Int_Comp = 5]
      linked == Proc_3([g EXCEPT !.Heap = [copied EXCEPT
                                   ![next].Int_Comp = copied[Ptr_Val_Par].Int_Comp,
                                   ![next].Ptr_Comp = copied[Ptr_Val_Par].Ptr_Comp]], next)
      h == linked.Heap
  IN  [linked EXCEPT !.Heap =
         IF h[next].Discr = Ident_1
         THEN [h EXCEPT ![next] = [@ EXCEPT !.Enum_Comp = Proc_6(g, h[Ptr_Val_Par].Enum_Comp),
                                            !.Ptr_Comp = h[g.Ptr_Glob].Ptr_Comp,
                                            !.Int_Comp = Proc_7(6, 10)]]
         ELSE [h EXCEPT ![Ptr_Val_Par] = h[h[Ptr_Val_Par].Ptr_Comp]]]

Proc_4(g) ==
  [g EXCEPT !.Bool_Glob = IF g.Ch_1_Glob = Letter.A THEN 1 ELSE @, !.Ch_2_Glob = Letter.B]

Proc_5(g) == [g EXCEPT !.Ch_1_Glob = Letter.A, !.Bool_Glob = 0]

(***************************************************************************)
(* main                                                                    *)
(***************************************************************************)
Record(next, enum, int, str) ==
  [Ptr_Comp |-> next, Discr |-> Ident_1, Enum_Comp |-> enum, Int_Comp |-> int, Str_Comp |-> str]

RecordBytes == 48
HeapBytes == 1024

\* malloc hands out the heap from its beginning and stops the program with an
\* ebreak when it is used up.
malloc(used, size) == [used |-> used + size, fits |-> used + size <= HeapBytes]

Initialize ==
  /\ pc = "start"
  /\ LET first == malloc(0, RecordBytes)
         second == malloc(first.used, RecordBytes)
     IN  pc' = IF first.fits /\ second.fits THEN "begin" ELSE "trap"
  /\ glob' = [glob EXCEPT !.Next_Ptr_Glob = 1, !.Ptr_Glob = 2,
                          !.Heap[2] = Record(1, Ident_3, 40, "SOME"),
                          !.Arr_2_Glob[8][7] = 10]
  /\ loc' = [loc EXCEPT !.Str_1_Loc = "1'ST"]
  /\ UNCHANGED <<clock, spent>>

\* time() returns the cycle counter as a signed integer.
ClockRange == 2 * SignBit
Signed(v) == IF v % ClockRange < SignBit THEN v % ClockRange ELSE (v % ClockRange) - ClockRange
time == Signed(clock)

BeginMeasurement ==
  /\ pc = "begin"
  /\ loc' = [loc EXCEPT !.Begin_Time = time, !.Run_Index = 1]
  /\ pc' = "for"
  /\ UNCHANGED <<glob, clock, spent>>

\* The head of the loop over the runs, and the statements up to Func_2.
StartRun ==
  /\ pc = "for" /\ loc.Run_Index <= Number_Of_Runs
  /\ glob' = Proc_4(Proc_5(glob))
  /\ loc' = [loc EXCEPT !.Int_1_Loc = 2, !.Int_2_Loc = 3, !.Str_2_Loc = "2'ND",
                        !.Enum_Loc = Ident_2, !.Int_Loc = 2]
  /\ clock' = (clock + spent) % ClockRange
  /\ pc' = "Func_2"
  /\ UNCHANGED spent

\* An iteration of the loop of Func_2: it has no counter, and ends when Func_1
\* finds the two characters different.
Func_2Loop ==
  /\ pc = "Func_2" /\ loc.Int_Loc <= 2
  /\ LET ch1 == CharAt(loc.Str_1_Loc, loc.Int_Loc)
         ch2 == CharAt(loc.Str_2_Loc, loc.Int_Loc + 1)
     IN  /\ glob' = Func_1Ch_1_Glob(glob, ch1, ch2)
         /\ loc' = IF Func_1(ch1, ch2) = Ident_1
                   THEN [loc EXCEPT !.Ch_Loc = Letter.A, !.Int_Loc = @ + 1] ELSE loc
  /\ UNCHANGED <<pc, clock, spent>>

\* The rest of Func_2, and Bool_Glob = ! Func_2(...).
Func_2Return ==
  /\ pc = "Func_2" /\ loc.Int_Loc > 2
  /\ LET i == IF loc.Ch_Loc >= Letter.W /\ loc.Ch_Loc < Letter.Z THEN 7 ELSE loc.Int_Loc
         greater == loc.Ch_Loc # Letter.R /\ Greater(loc.Str_1_Loc, loc.Str_2_Loc)
     IN  glob' = [glob EXCEPT !.Int_Glob = IF greater THEN i + 7 ELSE @,
                              !.Bool_Glob = IF loc.Ch_Loc = Letter.R \/ greater THEN 0 ELSE 1]
  /\ pc' = "while"
  /\ UNCHANGED <<loc, clock, spent>>

WhileBody ==
  /\ pc = "while" /\ loc.Int_1_Loc < loc.Int_2_Loc
  /\ loc' = [loc EXCEPT !.Int_3_Loc = Proc_7(loc.Int_1_Loc, loc.Int_2_Loc), !.Int_1_Loc = @ + 1]
  /\ UNCHANGED <<pc, glob, clock, spent>>

AfterWhile ==
  /\ pc = "while" /\ loc.Int_1_Loc >= loc.Int_2_Loc
  /\ LET g == Proc_8(glob, loc.Int_1_Loc, loc.Int_3_Loc)
     IN  glob' = Proc_1(g, g.Ptr_Glob)
  /\ loc' = [loc EXCEPT !.Ch_Index = Letter.A]
  /\ pc' = "chars"
  /\ UNCHANGED <<clock, spent>>

\* An iteration of the loop over the characters up to Ch_2_Glob.
CharsBody ==
  /\ pc = "chars" /\ loc.Ch_Index <= glob.Ch_2_Glob
  /\ LET g == Func_1Ch_1_Glob(glob, loc.Ch_Index, Letter.C)
         taken == loc.Enum_Loc = Func_1(loc.Ch_Index, Letter.C)
         next == [loc EXCEPT !.Ch_Index = @ + 1]
     IN  /\ glob' = IF taken THEN [g EXCEPT !.Int_Glob = loc.Run_Index] ELSE g
         /\ loc' = IF taken THEN [next EXCEPT !.Enum_Loc = Proc_6(glob, Ident_1),
                                              !.Str_2_Loc = "3'RD", !.Int_2_Loc = loc.Run_Index]
                   ELSE next
  /\ UNCHANGED <<pc, clock, spent>>

\* The three assignments after the loop; all values are positive.
AfterChars ==
  /\ pc = "chars" /\ loc.Ch_Index > glob.Ch_2_Glob
  /\ LET product == loc.Int_2_Loc * loc.Int_1_Loc
         quotient == product \div loc.Int_3_Loc
     IN  loc' = [loc EXCEPT !.Int_1_Loc = quotient,
                            !.Int_2_Loc = 7 * (product - loc.Int_3_Loc) - quotient]
  /\ pc' = "Proc_2"
  /\ UNCHANGED <<glob, clock, spent>>

\* An iteration of the loop of Proc_2.  Its Enum_Loc is not initialized: when
\* the loop body does nothing, it may end or go on.
Proc_2Loop ==
  /\ pc = "Proc_2"
  /\ \E ends \in IF glob.Ch_1_Glob = Letter.A THEN {TRUE} ELSE BOOLEAN :
       /\ loc' = IF glob.Ch_1_Glob # Letter.A THEN loc
                 ELSE [loc EXCEPT !.Int_1_Loc = (@ + 10) - 1 - glob.Int_Glob]
       /\ pc' = IF ends THEN "next" ELSE pc
  /\ UNCHANGED <<glob, clock, spent>>

NextRun ==
  /\ pc = "next"
  /\ loc' = [loc EXCEPT !.Run_Index = @ + 1]
  /\ pc' = "for"
  /\ UNCHANGED <<glob, clock, spent>>

EndMeasurement ==
  /\ pc = "for" /\ loc.Run_Index > Number_Of_Runs
  /\ loc' = [loc EXCEPT !.User_Time = Signed(time - loc.Begin_Time)]
  /\ pc' = "done"
  /\ UNCHANGED <<glob, clock, spent>>

MainInit ==
  /\ pc = "start"
  /\ glob = [Int_Glob |-> 0, Bool_Glob |-> 0, Ch_1_Glob |-> 0, Ch_2_Glob |-> 0,
             Ptr_Glob |-> Null, Next_Ptr_Glob |-> Null,
             Arr_1_Glob |-> [i \in 0 .. 49 |-> 0],
             Arr_2_Glob |-> [i \in 0 .. 49 |-> [j \in 0 .. 49 |-> 0]],
             Heap |-> [p \in 1 .. 2 |-> Record(Null, Ident_1, 0, "")]]
  /\ loc = [Int_1_Loc |-> 0, Int_2_Loc |-> 0, Int_3_Loc |-> 0, Ch_Index |-> 0, Enum_Loc |-> 0,
            Str_1_Loc |-> "", Str_2_Loc |-> "", Run_Index |-> 0, Int_Loc |-> 0, Ch_Loc |-> 0,
            Begin_Time |-> 0, User_Time |-> 0]
  /\ clock \in Starts
  /\ spent \in Cycles

MainNext ==
  \/ Initialize \/ BeginMeasurement \/ StartRun \/ Func_2Loop \/ Func_2Return \/ WhileBody
  \/ AfterWhile \/ CharsBody \/ AfterChars \/ Proc_2Loop \/ NextRun \/ EndMeasurement

MainIdle == pc = "none" /\ glob = <<>> /\ loc = <<>> /\ clock = 0 /\ spent = 0

Init == (MainInit /\ LibIdle) \/ (MainIdle /\ LibInit)
Next == (MainNext /\ UNCHANGED libVars) \/ (LibNext /\ UNCHANGED mainVars)

vars == <<mainVars, libVars>>
Spec == Init /\ [][Next]_vars /\ WF_vars(Next)

(***************************************************************************)
(* What the program promises                                               *)
(***************************************************************************)

\* The values the comments in the loop of main state between its statements
\* (dhry_1.c:156-198), in every run and not only in the last one, with the link
\* Proc_1 leaves between the records and the count the report expects of Proc_8.
\* The comments at the heads of the procedures are not among them: two of those
\* are false of the program.  Proc_2 says its parameter "becomes 4" (dhry_1.c:359)
\* where it becomes 5, as main says and this property; Func_1 says its first call
\* gets an 'H' (dhry_2.c:112) where Func_2 passes 'R' and 'Y'.
MainCommentsHold ==
  /\ pc = "Func_2" => /\ glob.Ch_1_Glob = Letter.A
                      /\ glob.Ch_2_Glob = Letter.B
                      /\ glob.Bool_Glob = 1
  /\ pc = "while" => /\ glob.Bool_Glob = 1
                     /\ loc.Int_1_Loc = 3 => loc.Int_2_Loc = 3 /\ loc.Int_3_Loc = 7
  /\ pc = "chars" => /\ loc.Int_1_Loc = 3 /\ loc.Int_2_Loc = 3 /\ loc.Int_3_Loc = 7
                     /\ glob.Int_Glob = 5
                     /\ glob.Heap[glob.Next_Ptr_Glob].Ptr_Comp = glob.Heap[glob.Ptr_Glob].Ptr_Comp
  /\ pc = "Proc_2" => loc.Int_1_Loc = 1 /\ loc.Int_2_Loc = 13 /\ loc.Int_3_Loc = 7
  /\ pc = "next" => loc.Int_1_Loc = 5 /\ glob.Arr_2_Glob[8][7] = loc.Run_Index + 10

\* The values main prints at the end, each with the value it says it should be.
Printed ==
  LET ptr == glob.Heap[glob.Ptr_Glob]
      next == glob.Heap[glob.Next_Ptr_Glob]
  IN  << <<glob.Int_Glob, 5>>, <<glob.Bool_Glob, 1>>, <<glob.Ch_1_Glob, Letter.A>>,
         <<glob.Ch_2_Glob, Letter.B>>, <<glob.Arr_1_Glob[8], 7>>,
         <<glob.Arr_2_Glob[8][7], Number_Of_Runs + 10>>,
         <<ptr.Discr, 0>>, <<ptr.Enum_Comp, 2>>, <<ptr.Int_Comp, 17>>, <<ptr.Str_Comp, "SOME">>,
         <<next.Ptr_Comp, ptr.Ptr_Comp>>, <<next.Discr, 0>>, <<next.Enum_Comp, 1>>,
         <<next.Int_Comp, 18>>, <<next.Str_Comp, "SOME">>,
         <<loc.Int_1_Loc, 5>>, <<loc.Int_2_Loc, 13>>, <<loc.Int_3_Loc, 7>>, <<loc.Enum_Loc, 1>>,
         <<loc.Str_1_Loc, "1'ST">>, <<loc.Str_2_Loc, "2'ND">> >>

\* The program prints what it says it should print, and the time it reports is
\* the number of cycles the runs took, also when the cycle counter changes its
\* sign or wraps in between.
ReportIsRight ==
  pc = "done" =>
    /\ \A k \in DOMAIN Printed : Printed[k][1] = Printed[k][2]
    /\ loc.User_Time = Number_Of_Runs * spent

\* The program gets through its loops: those of Func_2 and Proc_2 have no counter
\* and end because of the values the other procedures left.  Every call of the
\* library returns, those of the loops that stop at a byte of the data too.
Terminates == <>(pc \in {"done", "none"}) /\ <>(ret # Running)
===============================================================================
