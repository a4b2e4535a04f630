-------------------------- MODULE StructureMacros --------------------------
(***************************************************************************)
(* The structured macros of structure.asm as the assembler sees them: what *)
(* they do to the stack of unique numbers, and the labels and jumps they   *)
(* make.  Compares and other instructions are words of their own; counters *)
(* that nothing reads are left out.                                        *)
(***************************************************************************)
EXTENDS Integers

LOCAL INSTANCE TLC

Token(t, text, at) == [t |-> t, text |-> text, at |-> at]

\* At the frame on top of the stack, the one below, and that of the call itself.
LOCAL V == -1
LOCAL W == -2
LOCAL Zero == -3

Jump(text, at) == Token("ref", text, at)
Label_(text, at) == Token(":", text, at)
Push == Token("%S", "", 0)
Pop == Token("%P", "", 0)
Word == Token("raw", "", 0)
Semicolon == Token(";", "", 0)

IF_ZERO == <<Word, Jump("True", Zero), Push, Jump("ENDIF", V), Label_("True", Zero)>>
IF_NEQ_S == <<Word, Push, Jump("ENDIF", V)>>

\* Mutant of ELSE: it does not note that it was there.
ELSESilent == <<Jump("JustEnd", V), Label_("ENDIF", V), Semicolon>>

ELSE_ == <<Jump("JustEnd", V), Token("MF", "ELSEUSED", V), Label_("ENDIF", V), Semicolon>>
ENDIF == <<Label_("JustEnd", V), Token("IFNDEF", "ELSEUSED", V), Label_("ENDIF", V),
           Token("ENDBLOCK", "", 0), Pop, Semicolon>>

WHILE_ZERO == <<Push, Label_("LoopTop", V), Word, Jump("True", Zero), Jump("ExitLoop", V),
                Label_("True", Zero)>>
WHILEBREAK == <<Jump("ExitLoop", W)>>
WHILECONTINUE == <<Pop, Jump("LoopTop", W)>>
ENDWHILE == <<Jump("LoopTop", V), Label_("ExitLoop", V), Pop>>

WHEN == <<Push, Label_("LoopTop", V)>>
DO_ZERO == <<Word, Jump("True", V), Jump("ENDWHEN", V), Label_("True", V)>>
ENDWHEN == <<Jump("LoopTop", V), Label_("ENDWHEN", V), Pop>>

LOOP == <<Push, Label_("TopLoop", V)>>
UNTIL_ZERO == <<Word, Jump("TopLoop", V), Pop>>

ForIA2B == <<Push, Word, Label_("ForTop", V), Word, Jump("NextEnd", V)>>
FORBREAK == <<Jump("NextEnd", W)>>
Next_ == <<Word, Jump("ForTop", V), Label_("NextEnd", V), Pop>>

SWITCH == <<Push>>
CASE_ == <<Push, Word, Jump("DoCase1", Zero), Jump("NextCase", V), Label_("DoCase1", Zero)>>
CASE_RANGE_AA == <<Word, Push, Jump("NextCase", V), Word, Jump("NextCase", V)>>
CDEFAULT == <<Label_("NextCase", V), Push>>

CBREAK == <<Jump("EndCase", W), Label_("NextCase", V), Pop>>
CASE_FALLTHRU == <<Label_("NextCase", V), Pop>>
ENDCASE == <<Label_("EndCase", V), Pop>>

StructureMacros ==
  [IF_ZERO |-> IF_ZERO, IF_NEQ_S |-> IF_NEQ_S, ENDIF |-> ENDIF,
   WHILE_ZERO |-> WHILE_ZERO, WHILEBREAK |-> WHILEBREAK, WHILECONTINUE |-> WHILECONTINUE,
   ENDWHILE |-> ENDWHILE, WHEN |-> WHEN, DO_ZERO |-> DO_ZERO, ENDWHEN |-> ENDWHEN,
   LOOP |-> LOOP, UNTIL_ZERO |-> UNTIL_ZERO, ForIA2B |-> ForIA2B, FORBREAK |-> FORBREAK,
   Next |-> Next_, SWITCH |-> SWITCH, CASE_RANGE_AA |-> CASE_RANGE_AA,
   CDEFAULT |-> CDEFAULT, CBREAK |-> CBREAK, CASE_FALLTHRU |-> CASE_FALLTHRU,
   ENDCASE |-> ENDCASE] @@ "ELSE" :> ELSE_ @@ "CASE" :> CASE_
=============================================================================
