------------------------------- MODULE FileIO -------------------------------
(***************************************************************************)
(* readFile() of file.c and processFile() above it: the XML file of -x is   *)
(* measured, read into a block of that size and parsed up to the first NUL, *)
(* while the program that made the file may write it again. A byte is a      *)
(* model value.                                                            *)
(***************************************************************************)
EXTENDS SequencesExt, Integers

CONSTANTS
    Bytes, NUL,     \* the bytes of a file, NUL among them
    Unwritten,      \* a byte of a fresh block, as long as nobody writes it
    MaxLength       \* bound on the length of a file

FileAssumption == NUL \in Bytes /\ Unwritten \notin Bytes /\ MaxLength \in Nat

VARIABLES
    pc,             \* idle, opened, measured, read
    disk,           \* the bytes of the file
    fileLen,        \* as ftell() said
    buffer,         \* the block, <<>> for none
    measured        \* history: the file when it was measured

vars == <<pc, disk, fileLen, buffer, measured>>

Contents == BoundedSeq(Bytes, MaxLength)

Init == /\ pc = "idle" /\ disk \in Contents
        /\ fileLen = 0 /\ buffer = <<>> /\ measured = <<>>

-----------------------------------------------------------------------------

OpenToRead == /\ pc = "idle" /\ pc' = "opened"
              /\ UNCHANGED <<disk, fileLen, buffer, measured>>

Measure == /\ pc = "opened" /\ pc' = "measured"
           /\ fileLen' = Len(disk) /\ measured' = disk
           /\ UNCHANGED <<disk, buffer>>

Returned == /\ pc' = "idle"
            /\ fileLen' = 0 /\ buffer' = <<>> /\ measured' = <<>>
            /\ UNCHANGED disk

\* The file cannot be opened or there is no block for it: nothing is parsed.
CannotRead == pc \in {"opened", "measured"} /\ Returned

\* The first n elements, or as many as there are.
Upto(s, n) == SubSeq(s, 1, Min({n, Len(s)}))

\* Mutant: the NUL is written behind the bytes that could be read.
ReadShort ==
    /\ pc = "measured" /\ pc' = "read"
    /\ LET got == Upto(disk, fileLen)
       IN  buffer' = Append(got, NUL) \o [i \in 1 .. fileLen - Len(got) |-> Unwritten]
    /\ UNCHANGED <<disk, fileLen, measured>>

\* fread() answers less if the file has become shorter, and nobody looks.
Block(got, n) == Append(got \o [i \in 1 .. n - Len(got) |-> Unwritten], NUL)

Read == /\ pc = "measured" /\ pc' = "read"
        /\ buffer' = Block(Upto(disk, fileLen), fileLen)
        /\ UNCHANGED <<disk, fileLen, measured>>

\* strlen(), parse_xmldata() and the end of processFile(). The text of a block:
TextOf(block) == SubSeq(block, 1, SelectInSeq(block, LAMBDA b : b = NUL) - 1)

Processed == pc = "read" /\ Returned

\* Another program writes the file anew.
Rewrite == /\ pc \in {"opened", "measured"}
           /\ disk' \in Contents
           /\ UNCHANGED <<pc, fileLen, buffer, measured>>

Next == OpenToRead \/ Measure \/ CannotRead \/ Read \/ Processed \/ Rewrite

Spec == Init /\ [][Next]_vars

-----------------------------------------------------------------------------
(* Properties.                                                             *)

\* The variables have their types.
TypeOK == /\ pc \in {"idle", "opened", "measured", "read"}
          /\ {disk, measured} \subseteq Contents /\ fileLen \in 0 .. MaxLength
          /\ buffer \in Seq(Bytes \cup {Unwritten})

\* The block that is parsed is closed by a NUL at its end and holds the file as far as it had been
\* measured, whatever was written meanwhile: only a file that became shorter in between puts bytes
\* into the text that nobody wrote. A file that stands still is parsed whole, up to its first NUL.
ReadWhole ==
    pc = "read" =>
        /\ Len(buffer) = fileLen + 1 /\ Last(buffer) = NUL
        /\ IsPrefix(Upto(disk, fileLen), buffer)
        /\ Unwritten \in ToSet(TextOf(buffer)) => Len(disk) < fileLen
        /\ disk = measured => IsPrefix(TextOf(buffer), disk)
                              /\ (NUL \notin ToSet(disk) => TextOf(buffer) = disk)

=============================================================================
