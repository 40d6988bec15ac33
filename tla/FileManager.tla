---------------------------- MODULE FileManager ----------------------------
(***************************************************************************)
(* FileManager: the recursive listing of a directory up to a limit, the    *)
(* sorted list it leaves and the cursor over it (storage/file_manager.cpp; *)
(* ConfManager::ls_dir in common/conf_manager.cpp is the same walk).       *)
(*                                                                         *)
(* A file is the place of its path in the order of paths, a directory a    *)
(* model value.  readdir gives the entries of a directory in any order.    *)
(***************************************************************************)
EXTENDS Arrangement, SequencesExt

CONSTANTS
    Dir,          \* the directories of the tree
    Root,         \* the one init is called with
    Trees,        \* the trees there may be: what each directory holds
    Unreadable,   \* the directories opendir fails for
    TableFile,    \* the files whose names end in "table"
    MaxFileNum    \* MAX_FILE_NUM

File == (UNION {UNION {tree[d] : d \in Dir} : tree \in Trees}) \ Dir

Openable == Dir \ Unreadable

ASSUME TreeAssumption ==
    /\ Root \in Dir /\ Unreadable \subseteq Dir
    /\ File \subseteq Nat /\ TableFile \subseteq File
    /\ MaxFileNum \in Nat \ {0}

\* An entry is in one directory, and Root in none of them.
ASSUME PathAssumption ==
    \A t \in Trees :
        /\ \A d \in Dir : Root \notin t[d]
        /\ \A d, e \in Dir : d # e => t[d] \intersect t[e] = {}

\* A directory lies in no directory below it: d_type does not follow links.
ASSUME AcyclicAssumption ==
    /\ IsFiniteSet(Dir)
    /\ \A t \in Trees : \E depth \in [Dir -> 0 .. Cardinality(Dir)] :
        \A d \in Dir : \A e \in t[d] \intersect Dir : depth[d] < depth[e]

VARIABLES
    tree,     \* tree[d]: the files and directories in d
    pc,       \* "idle", "listing", "listed", or where the manager's user is
    files,    \* file_vec_
    index,    \* index_, of the next file
    stack,    \* the calls of ls_dir: each one's directory and entries not read yet
    opened,   \* the descriptors of directories that are not closed
    depth     \* history: the calls under way when the limit was reached

listing == <<tree, files, stack, opened, depth>>

ListInit == /\ tree \in Trees
            /\ files = <<>> /\ index = 0
            /\ stack = <<>> /\ opened = 0 /\ depth = 0

Top == stack[Len(stack)]
LimitPassed(n) == MaxFileNum < n    \* mutant
Limit(n) == MaxFileNum <= n

\* The entry of ls_dir, from the calls in s.
Enter(s, d) ==
    IF Limit(Len(files)) \/ d \in Unreadable
    THEN stack' = s /\ UNCHANGED opened
    ELSE stack' = Append(s, [dir |-> d, left |-> tree[d]]) /\ opened' = opened + 1

\* FileManager::init.  The files of an earlier call stay in the list.
BeginListing ==
    /\ pc' = "listing"
    /\ Enter(<<>>, Root)
    /\ UNCHANGED <<tree, files, depth>>

\* The calls with entry e of the innermost one read.
Read(e) == [stack EXCEPT ![Len(stack)].left = @ \ {e}]

ReadDir ==
    /\ pc = "listing" /\ stack # <<>>
    /\ \E d \in Top.left \intersect Dir : Enter(Read(d), d)
    /\ UNCHANGED <<tree, pc, files, index, depth>>

\* At the limit the call returns at once, and its directory stays open.
ReadFile ==
    /\ pc = "listing" /\ stack # <<>>
    /\ \E f \in Top.left \ Dir :
        /\ files' = Append(files, f)
        /\ stack' = IF Limit(Len(files')) THEN Front(stack) ELSE Read(f)
        /\ depth' = IF Len(files') = MaxFileNum THEN Len(stack) ELSE depth
    /\ UNCHANGED <<tree, pc, index, opened>>

EndOfDirOpen ==    \* mutant: no closedir
    /\ pc = "listing" /\ stack # <<>>
    /\ Top.left = {}
    /\ stack' = Front(stack)
    /\ UNCHANGED <<tree, pc, files, index, opened, depth>>
EndOfDir ==
    /\ pc = "listing" /\ stack # <<>>
    /\ Top.left = {}
    /\ stack' = Front(stack)
    /\ opened' = opened - 1
    /\ UNCHANGED <<tree, pc, files, index, depth>>

\* std::sort; equal paths would keep their order.
Before == {p \in (DOMAIN files) \X (DOMAIN files) :
            files[p[1]] < files[p[2]] \/ (files[p[1]] = files[p[2]] /\ p[1] < p[2])}
Sorted ==
    LET order == Arranged(DOMAIN files, Before) IN [k \in DOMAIN files |-> files[order[k]]]

\* The sort at the end of init.
EndListingUnsorted ==    \* mutant
    /\ pc = "listing" /\ stack = <<>>
    /\ pc' = "listed"
    /\ UNCHANGED <<tree, files, index, stack, opened, depth>>
EndListing ==
    /\ pc = "listing" /\ stack = <<>>
    /\ pc' = "listed"
    /\ files' = Sorted
    /\ UNCHANGED <<tree, index, stack, opened, depth>>

Listing == ReadDir \/ ReadFile \/ EndOfDir \/ EndListing

\* TableConfFileManager::get_next: the place of the next table file, or 0.
NextFile == SelectInSubSeq(files, index + 1, Len(files), LAMBDA f : f \in TableFile)

-----------------------------------------------------------------------------
(* What the listing promises                                               *)

\* The directories that a listing comes to: Root and those in one it comes to, if
\* they can be opened.
Visited ==
    {d \in Dir : \A D \in SUBSET Dir :
        (/\ {Root} \ Unreadable \subseteq D
         /\ \A e \in D : (tree[e] \intersect Dir) \ Unreadable \subseteq D) => d \in D}

\* The limit is exceeded by one file at most for each directory that lies above the
\* one it was reached in, however many others the tree has: ls_dir checks it after a
\* file, not after a directory.
ListingBounded ==
    Len(files) >= MaxFileNum => Len(files) + Len(stack) < MaxFileNum + depth

\* While the list is short of the limit, every directory that was opened is closed
\* by the call that opened it; a listing that stays short of it leaves none open.
DirectoriesClosed == ~Limit(Len(files)) => opened = Len(stack)
=============================================================================
