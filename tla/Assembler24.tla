---------------------------- MODULE Assembler24 ----------------------------
(***************************************************************************)
(* The assembler of cpu24.py, beside the one of cpu.py: code and data in   *)
(* banks, an entry point with its bank, and a copy of the first bank's     *)
(* code where a program's data are.                                        *)
(*                                                                         *)
(* A place is a physical address: a bank times AddressSize, and an offset. *)
(* What a word holds of a label is the offset alone.                       *)
(***************************************************************************)
EXTENDS Structured

CONSTANTS
  NextLines24(_, _)      \* as NextLines, with the commands about banks

VARIABLES
  banked,                \* which of the two assemblers runs
  CodeSegment, CodeAddresses, CodeLabelBanks, codehighaddress,
  EntryBank, EntryExplicit,
  LegacyEntry,           \* <<LegacyEntryBank, LegacyEntry>>, or <<>>
  InitialDS, DataCopyBank,
  entered                \* history: the name .ENTRY had last, as a use of it

code  == <<CodeSegment, CodeAddresses, codehighaddress>>
entry == <<EntryBank, EntryExplicit, LegacyEntry, entered>>
banks == <<code, CodeLabelBanks, entry, InitialDS, DataCopyBank>>

NoBank == 0

EndNames == IF banked THEN {"END__", "__CEND", "__DEND"} ELSE {"END__"}

Init24 ==
  /\ banked \in BOOLEAN /\ InitWith(EndNames)
  /\ CodeSegment = 0 /\ CodeAddresses = [b \in {0} |-> 0] /\ CodeLabelBanks = <<>>
  /\ codehighaddress = 0 /\ EntryBank = 0 /\ EntryExplicit = FALSE /\ LegacyEntry = <<>>
  /\ InitialDS = 0 /\ DataCopyBank = NoBank /\ entered = <<>>

physical(bank, offset) == bank * AddressSize + offset
bank_of(a) == a \div AddressSize
offset_of(a) == a % AddressSize

Get(f, x, else) == IF x \in DOMAIN f THEN f[x] ELSE else

-----------------------------------------------------------------------------
(***************************************************************************)
(* Labels.                                                                 *)
(***************************************************************************)
\* A value lasts to the end of its bank, or to the next one the name gets there.
UpdateVarHistory24(k, v, a) ==
  LET old   == Get(LocVarHist, k, <<>>)
      bank  == bank_of(a)
      last  == physical(bank, AddressSize - 1)
      here  == {i \in DOMAIN old : bank_of(old[i].start) = bank}
      ended == [i \in DOMAIN old |->
                  IF here # {} /\ i = Max(here) /\ old[i].end = last
                    THEN [old[i] EXCEPT !.end = a - 1] ELSE old[i]]
  IN  LocVarHist' = Set(LocVarHist, k, Append(ended, [value |-> v, start |-> a, end |-> last]))

\* A label at an address.
Defines(token, a, v) ==
  LET name == NameOf(token)
  IN  /\ NamesValue(name, v)
      /\ UpdateVarHistory24(IsLocalVar(name), v, address)
      /\ defs' = defs \cup {[name |-> name, file |-> top.file, key |-> IsLocalVar(name),
                             value |-> offset_of(a), bank |-> bank_of(a), code |-> token.t = ":"]}

Label24(token) ==
  /\ Defines(token, address, offset_of(address))
  /\ CodeLabelBanks' = Set(CodeLabelBanks, IsLocalVar(NameOf(token)), CodeSegment)
  /\ UNCHANGED <<place, refs, stop, defined, code, entry, InitialDS, DataCopyBank>>

\* "::name word", in the data bank or else where the code is.
DataLabel24(token) ==
  LET a == IF DataSegment = NoSegment THEN address ELSE dataaddress
  IN  /\ Defines(token, a, IF DataSegment = NoSegment THEN a ELSE offset_of(a))
      /\ highwater' = Bigger(highwater, a + 1)
      /\ IF DataSegment = NoSegment
           THEN /\ address' = a + 1 /\ codehighaddress' = Bigger(codehighaddress, a + 1)
                /\ UNCHANGED <<dataaddress, highaddress>>
           ELSE /\ dataaddress' = a + 1 /\ highaddress' = Bigger(highaddress, a + 1)
                /\ UNCHANGED <<address, codehighaddress>>
      /\ UNCHANGED <<DataSegment, Entry, refs, stop, defined, CodeSegment, CodeAddresses,
                     CodeLabelBanks, entry, InitialDS, DataCopyBank>>

-----------------------------------------------------------------------------
(***************************************************************************)
(* The commands.                                                           *)
(***************************************************************************)
Raw24(token) ==
  /\ DecodeStr(token)
  /\ highaddress' = Bigger(Bigger(highaddress, address), dataaddress)
  /\ codehighaddress' = Bigger(codehighaddress, address + 1)
  /\ UNCHANGED <<dataaddress, DataSegment, Entry, labels, stop, defined, CodeSegment,
                 CodeAddresses, CodeLabelBanks, entry, InitialDS, DataCopyBank>>

\* ". a" and ".ORG a", in the bank the code is in.  In a program without .ENTRY, the
\* last of them is where the program starts.
Org24(token, a) ==
  /\ address' = physical(CodeSegment, a)
  /\ CodeAddresses' = Set(CodeAddresses, CodeSegment, a)
  /\ LegacyEntry' = IF token.t = ".ORG" \/ Entry = 0 THEN <<CodeSegment, a>>
                                                     ELSE LegacyEntry
  /\ UNCHANGED <<dataaddress, DataSegment, highaddress, highwater, Entry, labels, refs, stop,
                 defined, CodeSegment, codehighaddress, CodeLabelBanks, EntryBank,
                 EntryExplicit, entered, InitialDS, DataCopyBank>>

\* Mutant of Leaving: the place in the bank that is left is not kept.
LeavingForgotten == CodeAddresses

\* Where each bank's code goes on.
Leaving == Set(CodeAddresses, CodeSegment, offset_of(address))

\* ".CODE b"
Code(b) ==
  /\ CodeAddresses' = Leaving
  /\ CodeSegment' = b
  /\ address' = physical(b, Get(Leaving, b, 0))
  /\ UNCHANGED <<dataaddress, DataSegment, highaddress, highwater, Entry, labels, refs, stop,
                 defined, codehighaddress, CodeLabelBanks, entry, InitialDS, DataCopyBank>>

\* Mutant of BankOf: the bank that the code is in.
BankOfHere(name) == CodeSegment

\* The bank of a label, as .ENTRY finds it.
BankOf(name) ==
  Get(CodeLabelBanks, IsLocalVar(name), Get(CodeLabelBanks, <<name, NoScope>>, CodeSegment))

\* ".ENTRY name", of a label that is known.
EntryPoint(token) ==
  LET name  == NameOf(token)
      found == decode_token(name, address)
  IN  /\ IF found = {}
           THEN stop' = "error" /\ UNCHANGED <<Entry, entry>>
           ELSE /\ \E v \in found : Entry' = v
                /\ EntryBank' = BankOf(name)
                /\ EntryExplicit' = TRUE
                /\ entered' = [name |-> name, file |-> top.file, seen |-> defs,
                               global |-> name \in GlobalDeclarations]
                /\ UNCHANGED <<stop, LegacyEntry>>
      /\ UNCHANGED <<address, dataaddress, DataSegment, highaddress, highwater, labels, refs,
                     defined, code, CodeLabelBanks, InitialDS, DataCopyBank>>

\* ".DATA b" starts at the bank's start, every time.
Data24(b) ==
  /\ DataSegment' = b /\ InitialDS' = b
  /\ dataaddress' = physical(b, 0)
  /\ UNCHANGED <<address, highaddress, highwater, Entry, labels, refs, stop, defined, code,
                 CodeLabelBanks, entry, DataCopyBank>>

\* ".DATACOPY b"
DataCopy(b) ==
  /\ IF b = 0
       THEN stop' = "error" /\ UNCHANGED <<DataCopyBank, InitialDS>>
       ELSE DataCopyBank' = b /\ InitialDS' = b /\ UNCHANGED stop
  /\ UNCHANGED <<place, labels, refs, defined, code, CodeLabelBanks, entry>>

\* "G name", and "MF name value".
Global24(token) == Global(token) /\ UNCHANGED banks
MF24(token) == MF(token) /\ UNCHANGED banks

\* "=name v"
Equate24(token, v) ==
  /\ Equate(token, v)
  /\ UpdateVarHistory24(IsLocalVar(NameOf(token)), v, address)
  /\ UNCHANGED banks

Evaluated24(token, v) ==
  CASE token.t = "=" -> Equate24(token, v)
    [] token.t \in {".", ".ORG"} -> Org24(token, v)
    [] token.t = ".CODE" -> Code(v)
    [] token.t = ".DATA" -> Data24(v)
    [] token.t = ".DATACOPY" -> DataCopy(v)

execute_assembler_command24(token) ==
  CASE token.t = ":" -> Label24(token)
    [] token.t = "::" -> DataLabel24(token)
    [] token.t \in {"=", ".", ".ORG", ".CODE", ".DATA", ".DATACOPY"} ->
         IF FirstPassVal(token) = {} THEN NoValue /\ UNCHANGED banks
         ELSE \E v \in FirstPassVal(token) : Evaluated24(token, v)
    [] token.t = ".ENTRY" -> EntryPoint(token)
    [] token.t = "G" -> Global24(token)
    [] token.t = "MF" -> MF24(token)
    [] OTHER -> Raw24(token)

-----------------------------------------------------------------------------
(***************************************************************************)
(* The loop of loadfile, as in cpu.py, and the end of the program.         *)
(***************************************************************************)
\* A file goes on in the bank where it is loaded, and may leave in another one.
Loads24 == LoadsFile /\ UNCHANGED banks
Skip24 == Skip /\ UNCHANGED banks
EndBlock24 == EndBlock /\ UNCHANGED banks
Condition24 == Condition /\ UNCHANGED banks
Execute24 ==
  \/ LoopExecutes /\ UNCHANGED banks
  \/ Loads24
  \/ TakesCommand /\ execute_assembler_command24(done.text[1])
read_next_source_command24 == ReadsOneOf(NextLines24(src, top.file)) /\ UNCHANGED banks

\* The offset after the last word, in the highest of the banks.
code_end == offset_of(Bigger(codehighaddress, address))
data_end == IF DataSegment = NoSegment THEN code_end ELSE offset_of(dataaddress)

\* What .DATACOPY copies, and where to.
Copied == {a \in 0 .. offset_of(codehighaddress) - 1 : DataCopyBank # NoBank}
CopiedOver == {physical(DataCopyBank, a) : a \in Copied}

copies_code(m) ==
  LET from(a) == IF a \in CopiedOver THEN offset_of(a) ELSE a
      words   == {a \in DOMAIN m \cup CopiedOver : from(a) \in DOMAIN m}
  IN  [a \in words |-> m[from(a)]]

resolve_all_forward_references24 ==
  /\ Publishes([END__ |-> code_end, __CEND |-> code_end, __DEND |-> data_end])
  /\ mem' = copies_code(PatchFrom(mem, FileLabels'))

EndOfFile24 == EndsFile(resolve_all_forward_references24) /\ UNCHANGED banks

\* CS and pc of the machine when the program starts.
starts_at ==
  IF EntryExplicit \/ LegacyEntry = <<>> THEN <<EntryBank, Entry>> ELSE LegacyEntry

NextOne ==
  ~ banked /\ Next /\ UNCHANGED <<banked, banks>>

\* Bound: the code of a bank ends in the bank.
WithinBank == bank_of(address') = CodeSegment'

NextBanked ==
  /\ banked /\ UNCHANGED banked
  /\ \/ read_next_source_command24 \/ EndOfFile24
     \/ Skip24 \/ EndBlock24 \/ Condition24 \/ Execute24
  /\ WithinBank

Next24 == NextOne \/ NextBanked

Spec24 == Init24 /\ [][Next24]_<<vars, banked, banks>>

-----------------------------------------------------------------------------
\* The names for the ends of the code, which a program may use.
Ends == {<<n, 0>> : n \in EndNames}

\* A reference to a name with a single definition that it may mean has its address
\* at the end, whether it was resolved where it stood or patched, from whichever of
\* the files and banks, and so has one to an end of the code; and the machine starts
\* at the label that .ENTRY names, in the bank that the label is in, wherever the
\* .ENTRY stands.
NamesResolve ==
  stop = "done" =>
    /\ \A u \in uses : Lonely(u) /\ ~ (banked /\ u.at \in CopiedOver) =>
         /\ DefinedOnce(u.name) /\ Visible(TheDef(u.name), u) /\ u.name \notin Ends
              => mem[u.at] = Str2Word(TheDef(u.name).value)
         /\ u.name \in Ends /\ (\A d \in defs : d.name # u.name)
              => mem[u.at] = Str2Word(GlobeLabels[u.name])
    /\ banked /\ EntryExplicit /\ DefinedOnce(entered.name) =>
         LET d == TheDef(entered.name)
         IN  "code" \in DOMAIN d /\ d.code /\ Visible(d, entered) => starts_at = <<d.bank, d.value>>

\* END__ is past every word that holds a label, though loading a file sets
\* highaddress back and .ORG and .DATA go anywhere; with banks, past those of the
\* highest bank.  A bank that is left and come back to goes on where it was: without
\* an .ORG no word is put over another.
EndPastWords ==
  stop = "done" =>
    /\ ~ banked => \A u \in uses : u.at < GlobeLabels[<<"END__", 0>>]
    /\ banked => \A u \in uses : bank_of(u.at) = bank_of(Bigger(codehighaddress, address))
                    => offset_of(u.at) < GlobeLabels[<<"END__", 0>>]
    /\ banked /\ ~ (\E i \in DOMAIN src : Moves(src[i].line)) => \A u \in uses : Lonely(u)

\* A program in banks finds in its data bank the words of its first bank, after
\* .DATACOPY.  The code fails this: how much it copies is an offset in the highest
\* bank that code was put in.
CopiesCode ==
  stop = "done" /\ banked /\ DataCopyBank # NoBank =>
    \A u \in uses : bank_of(u.at) = 0 => offset_of(u.at) \in Copied

\* END__ is past the words of every bank.  The code fails this too.
EndPastBanks ==
  stop = "done" /\ banked =>
    \A u \in uses : offset_of(u.at) < GlobeLabels[<<"END__", 0>>]

\* .ENTRY starts the machine in the bank of the label, whichever the file it is in
\* and however the label was made.  The code fails this.
EntersItsBank ==
  stop = "done" /\ banked /\ EntryExplicit =>
    \E d \in defs : d.name = entered.name /\ "bank" \in DOMAIN d /\ starts_at = <<d.bank, d.value>>

\* The data go past every label of their bank.  The code fails this: .DATA starts at
\* the bank's start each time, and code may be there.
DataGoOn ==
  banked /\ DataSegment # NoSegment =>
    \A d \in defs : "bank" \in DOMAIN d /\ d.bank = DataSegment => d.value < offset_of(dataaddress)
=============================================================================
