--------------------------- MODULE MCFolderFiles ---------------------------
EXTENDS FolderFiles, TLC

\* The items of done were downloaded from a server, which is in the cache.
Left(done, server) ==
    [files |-> done,
     disk |-> [state |-> [FreshState EXCEPT
                             !.items = [i \in Items |-> IF i \in done THEN server ELSE NoRecord]],
               config |-> [FreshConfig EXCEPT
                             !.servers = IF done = {} THEN {} ELSE {server}]]]

MCEarlierRuns ==
    {Left(done, server) : done \in {{Film}} \cup SUBSET Episodes, server \in Servers}

Symmetry == Permutations(Episodes) \cup Permutations(Servers)
=============================================================================
