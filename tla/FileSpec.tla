------------------------------ MODULE FileSpec -----------------------------
(* What the inode layer promises its callers: a file is a sequence of bytes *)
(* that a write overwrites and extends, and a directory a finite map from   *)
(* names to inode numbers.                                                  *)
EXTENDS Integers, Sequences, FiniteSets

CONSTANTS FileInos, FileNames, FileBytes

VARIABLES content,     \* inode -> its bytes
          entriesOf    \* the directory: name -> inode number, for the names it has

FileSpecInit == content = [i \in FileInos |-> <<>>] /\ entriesOf = <<>>

\* Byte k of s after bytes were written at offset (0 for the first byte).
Overwrite(s, offset, bytes) ==
    [k \in 1 .. (IF offset + Len(bytes) > Len(s) THEN offset + Len(bytes) ELSE Len(s)) |->
        IF k > offset /\ k <= offset + Len(bytes) THEN bytes[k - offset] ELSE s[k]]

\* The bytes written are the ones the file has there afterwards.
Write(i) ==
    \E offset \in 0 .. Len(content[i]) : \E k \in 1 .. Len(content'[i]) - offset :
        LET bytes == SubSeq(content'[i], offset + 1, offset + k)
        IN  /\ bytes \in Seq(FileBytes)
            /\ content' = [content EXCEPT ![i] = Overwrite(@, offset, bytes)]

Clear(i) == content' = [content EXCEPT ![i] = <<>>]

Insert(name, ino) ==
    /\ name \notin DOMAIN entriesOf
    /\ entriesOf' = [n \in DOMAIN entriesOf \cup {name} |->
                        IF n = name THEN ino ELSE entriesOf[n]]

Remove(name) ==
    /\ name \in DOMAIN entriesOf
    /\ entriesOf' = [n \in DOMAIN entriesOf \ {name} |-> entriesOf[n]]

FileSpecNext ==
    \/ \E i \in FileInos : (Write(i) \/ Clear(i)) /\ UNCHANGED entriesOf
    \/ \E name \in FileNames :
          /\ (\E ino \in FileInos : Insert(name, ino)) \/ Remove(name)
          /\ UNCHANGED content

FileSpecification == FileSpecInit /\ [][FileSpecNext]_<<content, entriesOf>>
=============================================================================
