------------------------ MODULE MCFilesystemRequests ------------------------
(* A small instance of FilesystemRequests for TLC: a read of two chunks with  *)
(* a deadline and a background sync of the same file, an open of another.     *)
EXTENDS FilesystemRequests

CONSTANTS p1, file, directory

o1 == [process |-> p1, thread |-> 1]
o2 == [process |-> p1, thread |-> 2]
MCOwners == {o1, o2}
MCBackground == {o2}

Ask(owner, target, deadline, op, total) ==
    [submission |-> [owner |-> owner, target |-> target, device |-> None,
                     deadline |-> deadline, cost |-> 1],
     op |-> op, total |-> total]

MCPrepared == {Ask(o1, file, 1, "io", 2), Ask(o2, file, None, "sync", 0),
               Ask(o1, directory, None, "open", 0)}
MCSubmissions == {p.submission : p \in MCPrepared}
=============================================================================
