------------------------------ MODULE PyCpu24 -------------------------------
(***************************************************************************)
(* The 24-bit emulator cpu24.py: its class microcpu.  Operands are 16-bit  *)
(* offsets in the bank that is active for data, and a word must not cross  *)
(* the end of its bank.  The methods of the 16-bit instructions are those  *)
(* of cpu.py over that bank; those that cpu24.py changes have 24 in their  *)
(* names here.                                                             *)
(***************************************************************************)
EXTENDS PyCpu

physical_address(bank, offset) == bank * WordSize + offset

\* Mutant of active_data_segment: the ring is not asked.
active_data_segment_any_ring(m) ==
  IF m.seg.override # NoOverride THEN m.seg.override ELSE m.seg.ds

active_data_segment(m) ==
  CASE m.seg.ring = 0 -> 0
    [] m.seg.ring # 0 /\ m.seg.override # NoOverride -> m.seg.override
    [] OTHER -> m.seg.ds

\* The active bank as the memory of a 16-bit machine, and back.
Window(m) ==
  [m EXCEPT !.mem = [a \in WordSet |-> m.mem[physical_address(active_data_segment(m), a)]]]

Back(m, w) ==
  LET first == physical_address(active_data_segment(m), 0)
  IN  [w EXCEPT !.mem =
         [a \in DOMAIN m.mem |->
            IF a - first \in WordSet THEN w.mem[a - first] ELSE m.mem[a]]]

-----------------------------------------------------------------------------
(***************************************************************************)
(* The instructions that cpu.py has as well.                               *)
(***************************************************************************)

\* The offsets of the words that getwordat and putwordat are asked for.
Accessed(w, i) ==
  CASE i.mode = "I"  -> {i.arg}
    [] i.mode = "II" -> {i.arg, getwordat(w, i.arg)}
    [] i.mode = "S" /\ i.op \in {"PUSH", "POP"} /\ w.sp >= 1 -> {fetchStack(w, 0)}
    [] OTHER -> {}

\* None of them is at the end of the bank, where getwordat and putwordat raise errors.
InBank(w, i) == MAXMEMSP \notin Accessed(w, i)

optALU24(w, i)      == IF InBank(w, i) THEN optALU(w, i) ELSE {}
optOnTop24(w, i)    == optOnTop(w, i)
optJump24(w, i)     == IF InBank(w, i) THEN optJump(w, i) ELSE {}
optPushFrom24(w, i) == IF InBank(w, i) THEN optPushFrom(w, i) ELSE {}
optPopTo24(w, i)    == IF InBank(w, i) THEN optPopTo(w, i) ELSE {}
optPlain24(w, i)    == optPlain(w, i)

\* The word at the operand points to a word, or to the first of two.
Pointer(w, i) == getwordat(w, i.arg)

CastCommand(w, i) ==
  IF w.sp > 0 /\ RoomAt(i.arg) THEN Named(Casts, fetchStack(w, 0)) ELSE "none"

\* Both words must be in the bank; but the address of the second one, past the end of
\* its bank, is taken for a physical one, of bank 1.
castDoubles24(m, w, i) ==
  LET p    == Pointer(w, i)
      past == Double(getwordat(w, p), m.mem[WordSize] + Byte * m.mem[WordSize + 1])
  IN  IF CastCommand(w, i) # "Print32II" THEN optCAST(w, i.arg)
      ELSE CASE p \in {MAXMEMSP, MAXMEMSP - 2} -> {}
             [] p = MAXMEMSP - 1 -> {Prints([w EXCEPT !.sp = @ - 1], "number", past)}
             [] OTHER -> optCAST(w, i.arg)

optCAST24(m, w, i) ==
  IF CastCommand(w, i) = "PrintHexII" /\ Pointer(w, i) = MAXMEMSP THEN {}
  ELSE castDoubles24(m, w, i)

optPOLL24(w, i) == optPOLL(w, i.arg)

-----------------------------------------------------------------------------
(***************************************************************************)
(* Segments.                                                               *)
(***************************************************************************)
optADM(m) ==
  When(m.sp >= 1 /\ fetchStack(m, 0) \in {0, 1},
       [m EXCEPT !.sp = @ - 1, !.seg = Ring(@, fetchStack(m, 0))])

\* optCSO, optDSO, optESO.
optPrefix(m, i) ==
  LET bank == [CSO |-> m.seg.cs, DSO |-> m.seg.ds, ESO |-> m.seg.es][i.op]
  IN  {[m EXCEPT !.seg.override = IF m.seg.ring = 1 THEN bank ELSE 0]}

optSGET(m, selector) ==
  IF selector \notin 0 .. 2 THEN {}
  ELSE optPUSH(m, <<m.seg.cs, m.seg.ds, m.seg.es>>[selector + 1])

optSSET(m, selector) ==
  When(selector \in 1 .. 2 /\ m.sp >= 1 /\ fetchStack(m, 0) < Banks,
    IF selector = 1 THEN [m EXCEPT !.sp = @ - 1, !.seg.ds = fetchStack(m, 0)]
                    ELSE [m EXCEPT !.sp = @ - 1, !.seg.es = fetchStack(m, 0)])

optFJMPS(m) ==
  When(m.seg.ring = 1 /\ m.sp >= 2 /\ fetchStack(m, 1) < Banks,
       [m EXCEPT !.sp = @ - 2, !.seg.cs = fetchStack(m, 1), !.pc = fetchStack(m, 0)])

optSegments(m, i) ==
  CASE i.op = "ADM"      -> optADM(m)
    [] i.op \in Prefixes -> optPrefix(m, i)
    [] i.op = "SSO"      -> {}
    [] i.op = "SGET"     -> optSGET(m, i.arg)
    [] i.op = "SSET"     -> optSSET(m, i.arg)
    [] i.op = "FJMPS"    -> optFJMPS(m)

-----------------------------------------------------------------------------
\* An operand must not cross the end of the code's bank: the test refuses the last
\* place as well where it does not.
OperandInBank(m, i) == Size(i) = 1 \/ m.pc <= MAXMEMSP - 3

Method(m, i) ==
  LET w == Window(m)
      after == CASE i.op \in Arithmetic \cup Logic  -> optALU24(w, i)
                 [] i.op \in OnTop                  -> optOnTop24(w, i)
                 [] i.op \in CondJumps \cup {"JMP"} -> optJump24(w, i)
                 [] i.op = "PUSH"                   -> optPushFrom24(w, i)
                 [] i.op = "POP"                    -> optPopTo24(w, i)
                 [] i.op \in Plain                  -> optPlain24(w, i)
                 [] i.op = "CAST"                   -> optCAST24(m, w, i)
                 [] i.op = "POLL"                   -> optPOLL24(w, i)
  IN  IF i.op \in OfSegments THEN optSegments(m, i) ELSE {Back(m, n) : n \in after}

\* One turn of the loop of _evalpc_py.  An instruction that is not a prefix uses up
\* the one before it.
PyStep24(machine, i) ==
  IF ~ OperandInBank(machine, i) THEN {}
  ELSE LET after == Method([machine EXCEPT !.pc = (@ + Size(i)) % WordSize], i)
       IN  IF i.op \in Prefixes THEN after
           ELSE {[m EXCEPT !.seg.override = NoOverride] : m \in after}
=============================================================================
