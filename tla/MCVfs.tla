-------------------------------- MODULE MCVfs --------------------------------
(* The VFS as an implementation of descriptors, and its instances for TLC. *)
EXTENDS Vfs, TLC

Symmetric == Permutations(UserProcs \ {init}) \cup Permutations(Paths)
             \cup Permutations(Handles) \cup Permutations(Files)

\* The file that each descriptor of a process leads to, and the path of each open file.
Table == [p \in Processes |-> [fd \in Fds |->
            IF files[p][fd] = NULL THEN NULL ELSE handle[files[p][fd]].file]]
Name  == [f \in Files |-> IF file[f] = FREED THEN NULL ELSE file[f].path]

D == INSTANCE Descriptors WITH
  Users <- Processes, Numbers <- Fds, Objects <- Files, NONE <- NULL,
  table <- Table, name <- Name

\* The tables and lists of the VFS implement descriptors: each refers to the file it
\* was opened for until it is closed, and files live exactly as long as they are
\* referred to.
ImplementsDescriptors == D!DescSpec
=============================================================================
