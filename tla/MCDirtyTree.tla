---------------------------- MODULE MCDirtyTree -----------------------------
EXTENDS DirtyTree

\* Four keys give a node with two children, all three splice cases of
\* erase (case 3 with a right child under the successor) and dirty items
\* below clean ones.
MCKeys == {1, 2, 3, 4}

\* Every call.
AllTreeOps == {"populate", "create", "dirty", "delete", "evict", "delete_save",
               "restore"}
=============================================================================
