----------------------------- MODULE Installer -----------------------------
(***************************************************************************)
(* The installation of a pinned build in the data directory: Chromium      *)
(* (browser/chromium/install.go, called by ensureChromium and              *)
(* fetch-chromium) and the Tor bundle (routing/tor/install.go, called by   *)
(* Local.ensureBinary), which work alike: an archive is downloaded to a    *)
(* fixed path, compared with the pinned checksum and extracted in place,   *)
(* and a later start looks only for the binary.                            *)
(*                                                                         *)
(* Starts of the program overlap, fail and are killed; nothing locks the   *)
(* directory.  The archive at the path may be truncated, rewritten or      *)
(* removed by one start while another one reads it.                        *)
(***************************************************************************)
EXTENDS Naturals

CONSTANTS
  Starts,   \* starts of the program; each installs at most once
  Entries,  \* the archive has the files 1 .. Entries, in this order
  Binary,   \* the one that Find looks for
  NoFile    \* nothing at the archive's path, or no file open

VARIABLES
  pc,       \* where each start is
  path,     \* the file at the archive's path, by the start that created it
  content,  \* what a file created by a start holds: the pinned archive or not
  fd,       \* the file a start has open
  next,     \* the entry a start extracts
  tree,     \* the extracted files: "none", "part" or "whole"
  broken,   \* history: an extraction did not get to its end
  overlap   \* history: a start began while another one was installing

vars == <<pc, path, content, fd, next, tree, broken, overlap>>

Installing == {"download", "copy", "verify", "unzip", "entry", "writing"}

Init ==
  /\ pc = [p \in Starts |-> "idle"]
  /\ path = NoFile
  /\ content = [p \in Starts |-> "wrong"]
  /\ fd = [p \in Starts |-> NoFile]
  /\ next = [p \in Starts |-> 1]
  /\ tree = [e \in 1 .. Entries |-> "none"]
  /\ broken = FALSE /\ overlap = FALSE

Goto(p, from, to) ==
  /\ pc[p] = from
  /\ pc' = [pc EXCEPT ![p] = to]

\* Find, and the Stat at the head of Install: a binary that is there is used.
Find(p) ==
  /\ Goto(p, "idle", IF tree[Binary] # "none" THEN "run" ELSE "download")
  /\ overlap' = (overlap \/ \E q \in Starts : pc[q] \in Installing)
  /\ UNCHANGED <<path, content, fd, next, tree, broken>>

\* download: os.Create makes the archive, or truncates the one that is there ...
Download(p) ==
  /\ \/ /\ Goto(p, "download", "copy")
        /\ path' = IF path = NoFile THEN p ELSE path
        /\ content' = [content EXCEPT ![path'] = "wrong"]
        /\ fd' = [fd EXCEPT ![p] = path']
     \/ Goto(p, "download", "error") /\ UNCHANGED <<path, content, fd>>
  /\ UNCHANGED <<next, tree, broken, overlap>>

\* ... and the body is copied into it, in full or not.
Copy(p) ==
  /\ \/ /\ Goto(p, "copy", "verify")
        /\ \E c \in {"wrong", "whole"} : content' = [content EXCEPT ![fd[p]] = c]
     \/ Goto(p, "copy", "error") /\ UNCHANGED content
  /\ fd' = [fd EXCEPT ![p] = NoFile]
  /\ UNCHANGED <<path, next, tree, broken, overlap>>

\* Mutant of Verify: the length is all that is compared.
VerifyLength(p) ==
  /\ Goto(p, "verify", IF path = NoFile THEN "error" ELSE "unzip")
  /\ UNCHANGED <<path, content, fd, next, tree, broken, overlap>>

\* sha256File of what is at the path by now; a mismatch removes it.
Verify(p) ==
  /\ \/ path = NoFile /\ Goto(p, "verify", "error") /\ UNCHANGED path
     \/ /\ path # NoFile /\ content[path] = "wrong"
        /\ Goto(p, "verify", "error")
        /\ path' = NoFile
     \/ /\ path # NoFile /\ content[path] = "whole"
        /\ Goto(p, "verify", "unzip")
        /\ UNCHANGED path
  /\ UNCHANGED <<content, fd, next, tree, broken, overlap>>

\* unzip and untar open the archive ...
OpenArchive(p) ==
  /\ \/ path # NoFile /\ Goto(p, "unzip", "entry")
     \/ Goto(p, "unzip", "error")
  /\ fd' = [fd EXCEPT ![p] = IF pc'[p] = "entry" THEN path ELSE NoFile]
  /\ UNCHANGED <<path, content, next, tree, broken, overlap>>

\* ... and write each entry over what is there: O_TRUNC, then io.Copy.
OpenEntry(p) ==
  /\ next[p] <= Entries
  /\ \/ Goto(p, "entry", "writing") /\ tree' = [tree EXCEPT ![next[p]] = "part"]
        /\ UNCHANGED broken
     \/ Goto(p, "entry", "error") /\ UNCHANGED tree /\ broken' = TRUE
  /\ UNCHANGED <<path, content, fd, next, overlap>>

CopyEntry(p) ==
  /\ \/ /\ Goto(p, "writing", "entry")
        /\ tree' = [tree EXCEPT ![next[p]] =
                      IF content[fd[p]] = "whole" THEN "whole" ELSE "part"]
        /\ next' = [next EXCEPT ![p] = @ + 1]
        /\ UNCHANGED broken
     \/ Goto(p, "writing", "error") /\ broken' = TRUE /\ UNCHANGED <<tree, next>>
  /\ UNCHANGED <<path, content, fd, overlap>>

\* The archive is removed, the binary looked for and made executable.
Finish(p) ==
  /\ next[p] > Entries
  /\ \E to \in {"run", "error"} :
       /\ to = "run" => tree[Binary] # "none"
       /\ Goto(p, "entry", to)
  /\ path' = NoFile
  /\ fd' = [fd EXCEPT ![p] = NoFile]
  /\ UNCHANGED <<content, next, tree, broken, overlap>>

\* The start is killed: before, in the middle of or after an extraction.
Killed(p) ==
  /\ pc[p] \in Installing
  /\ pc' = [pc EXCEPT ![p] = "error"]
  /\ fd' = [fd EXCEPT ![p] = NoFile]
  /\ broken' = (broken \/ pc[p] \in {"entry", "writing"})
  /\ UNCHANGED <<path, content, next, tree, overlap>>

Next ==
  \E p \in Starts :
    \/ Find(p) \/ Download(p) \/ Copy(p) \/ Verify(p) \/ OpenArchive(p)
    \/ OpenEntry(p) \/ CopyEntry(p) \/ Finish(p) \/ Killed(p)

Spec == Init /\ [][Next]_vars

-----------------------------------------------------------------------------
(* Properties *)

\* Types of the archive, the extracted files and the starts.
TypeOK ==
  /\ pc \in [Starts -> Installing \cup {"idle", "run", "error"}]
  /\ path \in Starts \cup {NoFile}
  /\ content \in [Starts -> {"wrong", "whole"}]
  /\ fd \in [Starts -> Starts \cup {NoFile}]
  /\ next \in [Starts -> 1 .. Entries + 1]
  /\ tree \in [1 .. Entries -> {"none", "part", "whole"}]
  /\ broken \in BOOLEAN /\ overlap \in BOOLEAN

\* What is run is the whole pinned build, after any sequence of failed, killed and
\* wrong downloads.  What it takes for another outcome is an extraction that was
\* interrupted (the next start finds the binary and looks no further) or a start
\* during the installation by another (it finds a binary still being written, or
\* rewrites the archive between the other one's checksum and its extraction).
OnlyWholeBuildsRun ==
  (\E p \in Starts : pc[p] = "run") =>
    \/ \A e \in 1 .. Entries : tree[e] = "whole"
    \/ broken \/ overlap
=============================================================================
