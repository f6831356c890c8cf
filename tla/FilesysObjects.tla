--------------------------- MODULE FilesysObjects ---------------------------
(***************************************************************************)
(* The objects of a mounted host directory: the tree of a_inodes of one    *)
(* Unit (filesys.c), the locks and open files that refer to them, the scans *)
(* of directories (ExNext) and the cache of a_inodes nobody refers to.     *)
(* A packet is handled in one step: units have a thread each, and share    *)
(* nothing of this state.                                                  *)
(***************************************************************************)
EXTENDS Integers, SequencesExt

CONSTANTS
    Names,        \* names of objects within a directory
    HostObjects,  \* what the host directory holds at first: <<name, is a directory>>
    Limit,        \* unlocked a_inodes kept before some are reaped: 500
    Reap,         \* how many at least are reaped then: 50
    EXKEYS,       \* scans at a time: 100
    MaxUses,      \* uses counted: locks, open files and spares (a bound)
    MaxBusy,      \* uses counted and scans together (a bound)
    MaxAinos,     \* a_inodes in memory, the root not counted (a bound)
    MaxPhantoms,  \* a_inodes of objects that do not exist (a bound)
    MaxCounted,   \* children ever counted of a directory being scanned (a bound)
    MaxDepth      \* depth of the tree (a bound)

ASSUME NamesAssumption == IsFiniteSet(Names) /\ "" \notin Names
ASSUME HostAssumption == HostObjects \subseteq Names \X BOOLEAN
ASSUME CacheAssumption == Limit \in Nat /\ Reap \in 1..Limit
ASSUME BoundsAssumption ==
    /\ EXKEYS \in Nat \ {0}
    /\ {MaxUses, MaxBusy, MaxAinos, MaxPhantoms, MaxCounted, MaxDepth} \subseteq Nat

VARIABLES
    unit,   \* the Unit: tree, list of recyclable a_inodes, counters, ExKeys
    locks,  \* a bag: for each lock a program holds, whose uniq it stores
    keys,   \* a bag: for each open file, the a_inode its Key points to
    spares  \* not in the code, a bag: what shlock has counted twice

vars == <<unit, locks, keys, spares>>

(* An a_inode is known here by its path. Where the code has a pointer or   *)
(* the number uniq, which stay the same when a directory above is renamed,  *)
(* the path is changed with it (Renamed).                                   *)
Root == <<>>
Nil == <<"">>       \* the null pointer
parent(a) == Front(a)
aname(a) == Last(a)
Lineage(a) == {SubSeq(a, 1, n) : n \in 1..Len(a)}

(* Lists of siblings.                                                       *)
Place(s, a) == CHOOSE j \in DOMAIN s : s[j] = a
Unlinked(s, a) == RemoveAt(s, Place(s, a))
ToFront(s, a) == <<a>> \o Unlinked(s, a)
Without(s, S) ==
    LET rest[i \in 0..Len(s)] ==
            IF i = 0 THEN <<>>
            ELSE IF s[i] \in S THEN rest[i - 1] ELSE Append(rest[i - 1], s[i])
    IN rest[Len(s)]

(* What the emulator does not survive: pointers to freed memory remain, or  *)
(* undefined behaviour. Nothing is modelled of what comes after.            *)
Fatal == {"rename of an object in use", "delete of a directory being scanned",
          "use of a freed a_inode", "readdir without a directory"}
Lost(u) == u.logged \cap Fatal # {}
Logging(u, S) == [u EXCEPT !.logged = @ \cup S]

Live(u) == DOMAIN u.ino
Dirs(u) == {a \in Live(u) : u.ino[a].dir}

(* "real" and "unseen" are the host's side: whether the object exists       *)
(* there, and the objects in it that have no a_inode                        *)
Aino(dir, real) ==
    [dir |-> dir, child |-> <<>>, shlock |-> 0, elock |-> FALSE,
     locked_children |-> 0, exnext_count |-> 0, real |-> real, unseen |-> {}]

Bad_InUse(u, a) == u.ino[a].elock     \* only exclusive use counts
InUse(u, a) == u.ino[a].shlock > 0 \/ u.ino[a].elock

-----------------------------------------------------------------------------
(* The list of recyclable a_inodes.                                         *)

Bad_de_recycle_aino(u, a) ==     \* the size is forgotten
    [u EXCEPT !.chained = @ \ {a}]
de_recycle_aino(u, a) ==
    IF a \in u.chained
    THEN [u EXCEPT !.chained = @ \ {a}, !.aino_cache_size = @ - 1]
    ELSE u

(* the a_inode goes; a host object that still exists is unseen again        *)
dispose_aino(u, a) ==
    LET p == parent(a)
        seen == IF u.ino[a].real THEN {<<aname(a), u.ino[a].dir>>} ELSE {}
        v == [u EXCEPT !.ino[p].child = Unlinked(@, a), !.ino[p].unseen = @ \cup seen]
    IN [v EXCEPT !.ino = Restrict(@, Live(v) \ {a})]

Family(u, p) == {a \in u.chained : parent(a) = p}

(* dispose_aino for each of S: the order of the siblings that stay is kept  *)
reap_aino(u, S) ==
    LET Seen(p) == {<<aname(a), u.ino[a].dir>> : a \in {b \in S : parent(b) = p /\ u.ino[b].real}}
    IN [u EXCEPT
          !.ino = [p \in Live(u) \ S |-> [u.ino[p] EXCEPT !.child = Without(@, S),
                                                          !.unseen = @ \cup Seen(p)]],
          !.chained = @ \ S,
          !.aino_cache_size = @ - Cardinality(S),
          !.logged = @ \cup (IF \E a \in S : InUse(u, a)
                             THEN {"panic: freeing locked a_inode!"} ELSE {})]

(* Whole families go, of directories that are not being scanned, until      *)
(* there are enough; which come first depends on the order of the list,     *)
(* which is left open.                                                      *)
Reaped(u) ==
    LET open == {p \in Dirs(u) : u.ino[p].locked_children = 0}
        Of(F) == UNION {Family(u, p) : p \in F}
        Enough(F) == Cardinality(Of(F)) >= Reap
    IN {reap_aino(u, Of(F)) :
            F \in {G \in SUBSET open : Enough(G) /\ \E p \in G : ~Enough(G \ {p})}}

CacheFull(u) == u.aino_cache_size > Limit + u.total_locked_ainos

recycle_aino(u, a) ==
    IF u.ino[a].dir \/ InUse(u, a) \/ a = Root
    THEN {u}
    ELSE {[v EXCEPT !.chained = @ \cup {a}, !.aino_cache_size = @ + 1] :
              v \in IF CacheFull(u) THEN Reaped(u) ELSE {u}}

-----------------------------------------------------------------------------
(* Looking a_inodes up.                                                     *)

(* the walk of lookup_sub brings what leads to a to the front, except in    *)
(* directories that are being scanned                                       *)
Bad_lookup_sub(u, a) ==          \* to the front even during a scan
    LET Moves(p) == Len(p) < Len(a) /\ IsPrefix(p, a)
    IN [u EXCEPT !.ino =
            [p \in Live(u) |->
                IF Moves(p) THEN [u.ino[p] EXCEPT !.child = ToFront(@, SubSeq(a, 1, Len(p) + 1))]
                ELSE u.ino[p]]]
lookup_sub(u, a) ==
    LET Moves(p) == Len(p) < Len(a) /\ IsPrefix(p, a) /\ u.ino[p].locked_children = 0
    IN [u EXCEPT !.ino =
            [p \in Live(u) |->
                IF Moves(p) THEN [u.ino[p] EXCEPT !.child = ToFront(@, SubSeq(a, 1, Len(p) + 1))]
                ELSE u.ino[p]]]

(* The hash may spare the walk.                                             *)
lookup_aino(u, q) == {u, lookup_sub(u, q)}

(* A packet names an object by a lock, or none, and a path from there. The  *)
(* lock is looked up first; the path may lead to any directory.             *)
Found == {unit} \cup UNION {lookup_aino(unit, q) : q \in BagToSet(locks) \cap Live(unit)}

init_child_aino(u, base, a, dir, real) ==
    LET one == IF u.ino[base].exnext_count > 0 THEN 1 ELSE 0
        above == [u.ino[base] EXCEPT !.child = <<a>> \o @, !.locked_children = @ + one]
    IN [u EXCEPT !.ino = [p \in Live(u) \cup {a} |-> IF p = a THEN Aino(dir, real)
                                                   ELSE IF p = base THEN above ELSE @[p]],
                 !.total_locked_ainos = @ + one]

(* new_child_aino and create_child_aino: the new a_inode, and each unit     *)
(* that recycling it at once may lead to                                    *)
new_child_aino(u, base, name, dir, real) ==
    LET a == Append(base, name)
    IN {<<v, a>> : v \in recycle_aino(init_child_aino(u, base, a, dir, real), a)}

create_child_aino(u, base, name, dir) == new_child_aino(u, base, name, dir, FALSE)

lookup_child_aino(u, base, name) ==
    LET named == {a \in ToSet(u.ino[base].child) : aname(a) = name}
        host == {o \in u.ino[base].unseen : o[1] = name}
    IN IF named # {} THEN {<<u, a>> : a \in named}
       ELSE IF host = {} THEN {<<u, Nil>>}
       ELSE UNION {new_child_aino([u EXCEPT !.ino[base].unseen = @ \ {o}],
                                  base, o[1], o[2], TRUE) : o \in host}

(* the last component of a path, looked up in the directory it leads to     *)
Reached(d, name) == UNION {lookup_child_aino(u, d, name) : u \in Found}

-----------------------------------------------------------------------------
(* Scans.                                                                   *)

sibling(u, a) ==
    LET s == u.ino[parent(a)].child
        i == Place(s, a)
    IN IF i = Len(s) THEN Nil ELSE s[i + 1]

(* ExKeys are in the order of their age. "owed" is not in the code: what    *)
(* was in the directory when the scan began, is still there and has not     *)
(* been returned.                                                           *)
Bad_free_exkey(u, i) ==          \* unlocks although another scan goes on
    LET d == u.exkeys[i].aino
    IN [u EXCEPT !.ino[d].exnext_count = @ - 1,
                 !.ino[d].locked_children = 0,
                 !.total_locked_ainos = @ - u.ino[d].locked_children,
                 !.exkeys = RemoveAt(@, i)]
free_exkey(u, i) ==
    LET d == u.exkeys[i].aino
        n == u.ino[d]
        last == n.exnext_count = 1
    IN [u EXCEPT !.ino[d].exnext_count = @ - 1,
                 !.ino[d].locked_children = IF last THEN 0 ELSE @,
                 !.total_locked_ainos = IF last THEN @ - n.locked_children ELSE @,
                 !.exkeys = RemoveAt(@, i)]

new_exkey(u, d) ==
    LET v == IF Len(u.exkeys) = EXKEYS THEN free_exkey(u, 1) ELSE u
    IN [v EXCEPT !.exkeys = Append(@, [aino |-> d, curr_file |-> Nil, owed |-> {}])]

populate_directory(u, base) ==
    LET n == Len(u.ino[base].child)
        counted == [u EXCEPT !.ino[base].locked_children = @ + n,
                             !.total_locked_ainos = @ + n]
        Entry(v, o) == {r[1] : r \in lookup_child_aino(v, base, o[1])}
        Filled(order) ==
            LET units[i \in 0..Len(order)] ==
                    IF i = 0 THEN {counted}
                    ELSE UNION {Entry(v, order[i]) : v \in units[i - 1]}
            IN units[Len(order)]
    IN UNION {Filled(order) : order \in SetToSeqs(u.ino[base].unseen)}

(* the new scan of the last ExKey starts at the first child                 *)
start_scan(u) ==
    LET i == Len(u.exkeys)
        s == u.ino[u.exkeys[i].aino].child
    IN [u EXCEPT !.exkeys[i].curr_file = IF s = <<>> THEN Nil ELSE Head(s),
                 !.exkeys[i].owed = ToSet(s)]

do_examine(u, i) ==
    LET curr == u.exkeys[i].curr_file
    IN IF curr = Nil THEN free_exkey(u, i)
       ELSE [u EXCEPT !.exkeys[i].curr_file = sibling(u, curr),
                      !.exkeys[i].owed = @ \ {curr}]

move_exkeys(u, from, to) ==
    LET moved == {i \in DOMAIN u.exkeys : u.exkeys[i].aino = from}
        n == u.ino[from]
    IN [u EXCEPT
          !.exkeys = [i \in DOMAIN @ |-> IF i \in moved THEN [@[i] EXCEPT !.aino = to]
                                         ELSE @[i]],
          !.logged = @ \cup (IF Cardinality(moved) # n.exnext_count
                             THEN {"Bug in ExNext bookkeeping"} ELSE {}),
          !.ino[to].exnext_count = n.exnext_count,
          !.ino[to].locked_children = n.locked_children,
          !.ino[from].exnext_count = 0,
          !.ino[from].locked_children = 0]

(* what lies below from, and all that refers to it, moves to below to       *)
Moved(a, from, to) ==
    IF IsStrictPrefix(from, a) THEN to \o SubSeq(a, Len(from) + 1, Len(a)) ELSE a

move_aino_children(u, from, to) ==
    LET New(a) == Moved(a, from, to)
        Below(n) == [n EXCEPT !.child = [i \in DOMAIN @ |-> New(@[i])]]
        v == [u EXCEPT !.ino[to].child = u.ino[from].child,
                       !.ino[to].unseen = u.ino[from].unseen,
                       !.ino[from].child = <<>>, !.ino[from].unseen = {}]
    IN [v EXCEPT
          !.ino = [a \in {New(b) : b \in Live(v)} |->
                      Below(v.ino[CHOOSE b \in Live(v) : New(b) = a])],
          !.chained = {New(b) : b \in @},
          !.exkeys = [i \in DOMAIN @ |->
                         [aino |-> New(@[i].aino), curr_file |-> New(@[i].curr_file),
                          owed |-> {New(b) : b \in @[i].owed}]]]

delete_aino(u, a) ==
    LET p == parent(a)
        Advance(k) ==
            IF k.aino # p THEN k
            ELSE [k EXCEPT !.curr_file = IF @ = a THEN sibling(u, a) ELSE @,
                           !.owed = @ \ {a}]
        v == IF u.ino[p].exnext_count = 0 THEN u
             ELSE [u EXCEPT !.exkeys = [i \in DOMAIN @ |-> Advance(@[i])]]
    IN dispose_aino(de_recycle_aino(v, a), a)

-----------------------------------------------------------------------------
(* The packets.                                                             *)

Init ==
    /\ unit = [ino |-> [a \in {Root} |-> [Aino(TRUE, TRUE) EXCEPT !.unseen = HostObjects]],
               chained |-> {}, aino_cache_size |-> 0, total_locked_ainos |-> 0,
               exkeys |-> <<>>, logged |-> {}]
    /\ locks = EmptyBag
    /\ keys = EmptyBag
    /\ spares = EmptyBag

Modes == {"SHARED", "EXCLUSIVE"}

One(x) == SetToBag({x})
(* what packets name; nothing is said of packets that name a freed a_inode  *)
Held == BagToSet(locks) \cap Live(unit)
Opened == BagToSet(keys) \cap Live(unit)

(* the bounds of the model, which each packet keeps                         *)
Bounded ==
    /\ Cardinality(Live(unit)) <= MaxAinos + 1
    /\ Cardinality({a \in Live(unit) : ~unit.ino[a].real}) <= MaxPhantoms
    /\ \A d \in Dirs(unit) : unit.ino[d].locked_children <= MaxCounted
    /\ LET uses == BagCardinality(locks) + BagCardinality(keys) + BagCardinality(spares)
       IN uses <= MaxUses /\ uses + Len(unit.exkeys) <= MaxBusy

Bad_Take(u, a, mode) ==          \* what is taken stays in the list
    IF mode = "SHARED" THEN [u EXCEPT !.ino[a].shlock = @ + 1]
    ELSE [u EXCEPT !.ino[a].elock = TRUE]
(* a shared or exclusive use of a begins                                    *)
Take(u, a, mode) ==
    de_recycle_aino(IF mode = "SHARED" THEN [u EXCEPT !.ino[a].shlock = @ + 1]
                    ELSE [u EXCEPT !.ino[a].elock = TRUE], a)

(* and one ends                                                             *)
Release(u, a) ==
    recycle_aino(IF u.ino[a].elock THEN [u EXCEPT !.ino[a].elock = FALSE]
                 ELSE [u EXCEPT !.ino[a].shlock = @ - 1], a)

make_lock(a) == locks' = locks (+) One(a)

Bad_LockObject(u, a, mode) ==    \* shared locks do not keep an exclusive one out
    IF u.ino[a].elock
    THEN unit' = u /\ UNCHANGED locks
    ELSE unit' = Take(u, a, mode) /\ make_lock(a)
LockObject(u, a, mode) ==
    IF u.ino[a].elock \/ (mode # "SHARED" /\ u.ino[a].shlock > 0)
    THEN unit' = u /\ UNCHANGED locks      \* ERROR_OBJECT_IN_USE
    ELSE unit' = Take(u, a, mode) /\ make_lock(a)

(* A packet that names an object looks it up first. When it is then refused *)
(* (there is none, it is in use, protected, or the host says no), and in    *)
(* set_protect, set_comment and set_date, the look-up is all there is.      *)
looked_up(r) == unit' = r[1] /\ UNCHANGED <<locks, keys, spares>> /\ Bounded'

action_lock(r, mode) ==
    /\ r[2] # Nil
    /\ LockObject(r[1], r[2], mode)
    /\ UNCHANGED <<keys, spares>> /\ Bounded'

(* an empty name: the object of the lock itself, or the root                *)
action_lock_self(mode) ==
    /\ \E a \in Held \cup {Root} : \E u \in lookup_aino(unit, a) : LockObject(u, a, mode)
    /\ UNCHANGED <<keys, spares>> /\ Bounded'

action_free_lock(a) ==
    /\ \E u \in lookup_aino(unit, a) : unit' \in Release(u, a)
    /\ locks' = locks (-) One(a)
    /\ UNCHANGED <<keys, spares>> /\ Bounded'

action_dup_lock(a) ==
    /\ \E u \in lookup_aino(unit, a) : LockObject(u, a, "SHARED")
    /\ UNCHANGED <<keys, spares>> /\ Bounded'

(* of a lock, or of an open file (action_parent_fh); the root has none      *)
action_parent(a) ==
    /\ \E u \in lookup_aino(unit, a) :
           IF a = Root THEN unit' = u /\ UNCHANGED locks
           ELSE LockObject(u, parent(a), "SHARED")
    /\ UNCHANGED <<keys, spares>> /\ Bounded'

(* what is shared and is to be shared is counted once more                  *)
action_change_mode(a, mode) ==
    /\ \E u \in lookup_aino(unit, a) :
           LET v == IF mode = "SHARED"
                    THEN [u EXCEPT !.ino[a].elock = FALSE, !.ino[a].shlock = @ + 1]
                    ELSE [u EXCEPT !.ino[a].elock = TRUE, !.ino[a].shlock = 0]
           IN unit' = IF mode # "SHARED" /\ u.ino[a].shlock > 1 THEN u
                      ELSE de_recycle_aino(v, a)
    /\ spares' = IF mode = "SHARED" /\ ~unit.ino[a].elock THEN spares (+) One(a) ELSE spares
    /\ UNCHANGED <<locks, keys>> /\ Bounded'

(* do_find; create is 0, 1 or 2 (find input, write, output)                 *)
OpenAino(u, a, create) ==
    /\ unit' = Take([u EXCEPT !.ino[a].real = TRUE], a,
                    IF create = 2 THEN "EXCLUSIVE" ELSE "SHARED")
    /\ keys' = keys (+) One(a)

do_find(r, d, name) ==
    /\ \E create \in 0..2 :
          \/ LET n == r[1].ino[r[2]]
             IN /\ r[2] # Nil
                /\ ~n.dir /\ ~n.elock /\ (create = 2 => n.shlock = 0)
                /\ n.real \/ (create # 0 /\ r[1].ino[d].real)
                /\ OpenAino(r[1], r[2], create)
          \/ /\ r[2] = Nil /\ create # 0
             /\ \E s \in create_child_aino(r[1], d, name, FALSE) :
                   \/ unit' = delete_aino(s[1], s[2]) /\ UNCHANGED keys
                   \/ r[1].ino[d].real /\ OpenAino(s[1], s[2], create)
    /\ UNCHANGED <<locks, spares>> /\ Bounded'

(* the lock becomes the file handle's: DOS does not free it                 *)
action_fh_from_lock(a) ==
    /\ \E u \in lookup_aino(unit, a) : u.ino[a].real /\ unit' = de_recycle_aino(u, a)
    /\ keys' = keys (+) One(a)
    /\ locks' = locks (-) One(a) /\ UNCHANGED spares /\ Bounded'

action_end(a) ==
    /\ unit' \in Release(unit, a)
    /\ keys' = keys (-) One(a)
    /\ UNCHANGED <<locks, spares>> /\ Bounded'

(* when mkdir fails the a_inode stays                                       *)
action_create_dir(r, d, name) ==
    /\ Len(d) + 1 < MaxDepth /\ r[2] = Nil
    /\ \E s \in create_child_aino(r[1], d, name, TRUE) :
          \/ unit' = s[1] /\ UNCHANGED locks
          \/ /\ r[1].ino[d].real
             /\ unit' = Take([s[1] EXCEPT !.ino[s[2]].real = TRUE], s[2], "SHARED")
             /\ make_lock(s[2])
    /\ UNCHANGED <<keys, spares>> /\ Bounded'

Empty(u, a) == /\ u.ino[a].unseen = {}
               /\ \A c \in ToSet(u.ino[a].child) : ~u.ino[c].real

action_delete_object(r) ==
    /\ LET a == r[2]
           gone == [r[1] EXCEPT !.ino[a].real = FALSE]
       IN /\ a # Nil
          /\ ~InUse(r[1], a) /\ r[1].ino[a].real /\ Empty(r[1], a)
          /\ unit' = IF gone.ino[a].child # <<>> THEN Logging(gone, {"Serious error"})
                     ELSE Logging(delete_aino(gone, a),
                                  IF gone.ino[a].exnext_count = 0 THEN {}
                                  ELSE {"delete of a directory being scanned"})
    /\ UNCHANGED <<locks, keys, spares>> /\ Bounded'

(* The a_inode a2 takes over from a1 what refers to it by uniq or ExKey;    *)
(* Keys still point to a1.                                                  *)
Renamed(u, a1, a2) ==
    LET v == [u EXCEPT !.ino[a2].real = TRUE, !.ino[a1].real = FALSE]
    IN delete_aino(move_aino_children(move_exkeys(v, a1, a2), a1, a2), a1)

(* no two of them become the same: a2 has been made just now               *)
MovedBag(bag, New(_)) ==
    [a \in {New(b) : b \in BagToSet(bag)} |->
        bag[CHOOSE b \in BagToSet(bag) : New(b) = a]]

(* a1 may be what is reaped to make room for a2; when a1 is in use, what    *)
(* counted its uses goes with it                                            *)
RenameTo(u, a1, d2, name2) ==
    LET a2 == Append(d2, name2)
    IN \E s \in create_child_aino(u, d2, name2, u.ino[a1].dir) :
          \/ /\ a1 \notin Live(s[1])
             /\ unit' = Logging(s[1], {"use of a freed a_inode"})
             /\ UNCHANGED <<locks, keys, spares>>
          \/ /\ a1 \in Live(s[1])
             /\ unit' = s[1]      \* rename failed: a2 stays
             /\ UNCHANGED <<locks, keys, spares>>
          \/ /\ a1 \in Live(s[1]) \ Lineage(d2)
             /\ u.ino[a1].real /\ u.ino[d2].real
             /\ unit' = Logging(Renamed(s[1], a1, a2),
                                IF InUse(u, a1) THEN {"rename of an object in use"} ELSE {})
             /\ locks' = MovedBag(locks, LAMBDA b : IF b = a1 THEN a2 ELSE Moved(b, a1, a2))
             /\ keys' = MovedBag(keys, LAMBDA b : Moved(b, a1, a2))
             /\ spares' = MovedBag(spares, LAMBDA b : Moved(b, a1, a2))

action_rename_object(r) ==
    /\ r[2] # Nil
    /\ \E d2 \in Dirs(unit), name2 \in Names :
          \E r2 \in lookup_child_aino(r[1], d2, name2) :
             \/ /\ r2[2] = Nil
                /\ r[1].ino[r[2]].dir => Len(d2) + 1 < MaxDepth
                /\ RenameTo(r2[1], r[2], d2, name2)
             \/ /\ r2[2] # Nil     \* it exists, or is the same object
                /\ unit' = r2[1] /\ UNCHANGED <<locks, keys, spares>>
    /\ Bounded'

(* the first call for a directory, after Examine; opendir fails, perhaps    *)
(* because the host has no such directory                                   *)
action_examine_next(d) ==
    /\ unit.ino[d].dir
    /\ \E u \in lookup_aino(unit, d) :
           LET v == new_exkey(u, d)
               w == [v EXCEPT !.ino[d].exnext_count = @ + 1]
               first == v.ino[d].exnext_count = 0
           IN \/ /\ first => u.ino[d].real
                 /\ \E x \in IF first THEN populate_directory(w, d) ELSE {w} :
                       unit' = do_examine(start_scan(x), Len(x.exkeys))
              \/ first /\ unit' = Logging(w, {"readdir without a directory"})
    /\ UNCHANGED <<locks, keys, spares>> /\ Bounded'

(* a later one                                                              *)
action_examine_next_more(i) ==
    /\ \E u \in Found : unit' = do_examine(u, i)
    /\ UNCHANGED <<locks, keys, spares>> /\ Bounded'

handle_packet ==
    \/ \E d \in Dirs(unit), name \in Names : \E r \in Reached(d, name) :
          \/ looked_up(r)
          \/ \E mode \in Modes : action_lock(r, mode)
          \/ do_find(r, d, name)
          \/ action_create_dir(r, d, name)
          \/ action_delete_object(r)
          \/ action_rename_object(r)
    \/ \E mode \in Modes : action_lock_self(mode)
    \/ \E a \in Held : action_free_lock(a) \/ action_dup_lock(a)
                       \/ action_fh_from_lock(a)
    \/ \E d \in Held \cup {Root} : action_examine_next(d)
    \/ \E a \in Held \cup Opened :
          action_parent(a) \/ \E mode \in Modes : action_change_mode(a, mode)
    \/ \E a \in Opened : action_end(a)
    \/ \E i \in DOMAIN unit.exkeys : action_examine_next_more(i)

Next ==
    \/ ~Lost(unit) /\ handle_packet
    \/ Lost(unit) /\ UNCHANGED vars

Spec == Init /\ [][Next]_vars

-----------------------------------------------------------------------------
(* Properties.                                                              *)

Count(u, p) == Cardinality({i \in DOMAIN u.exkeys : u.exkeys[i].aino = p})
Counted(u) == UNION {{p} \X (1..u.ino[p].locked_children) : p \in Dirs(u)}
Copies(a, bag) == IF a \in BagToSet(bag) THEN bag[a] ELSE 0

(* The tree and what is counted of it: every a_inode but the root is a      *)
(* child of its parent, once; the cache's size is that of the list; and an  *)
(* a_inode in the list is a file.                                           *)
TypeOK ==
    /\ Root \in Dirs(unit)
    /\ \A p \in Live(unit) :
          /\ IsInjective(unit.ino[p].child)
          /\ ToSet(unit.ino[p].child) = {a \in Live(unit) \ {Root} : parent(a) = p}
          /\ unit.ino[p].child # <<>> => unit.ino[p].dir
    /\ unit.chained \subseteq Live(unit) \ Dirs(unit)
    /\ unit.aino_cache_size = Cardinality(unit.chained)

(* What a program may still name exists and stays: the a_inode of a lock,   *)
(* of an open file and of a scan has not been freed, and none of a lock or  *)
(* a file is in the list to be reaped (recycle_aino, delete_aino and the    *)
(* counts of every packet). It ends where the emulator is lost: there what  *)
(* was in use has been renamed, or what was being scanned deleted.          *)
InUseExists ==
    Lost(unit) \/
    /\ BagToSet(locks) \cup BagToSet(keys) \subseteq Live(unit) \ unit.chained
    /\ \A i \in DOMAIN unit.exkeys : unit.exkeys[i].aino \in Dirs(unit)

(* The counts are exact: an exclusive lock or file is the only one of its   *)
(* object, and otherwise shlock is how many locks and files there are, and  *)
(* once more for each change from a shared lock to a shared one; an object  *)
(* nobody holds can be deleted again if it has seen no such change.         *)
CountsExact ==
    \A a \in Live(unit) :
        LET refs == Copies(a, locks) + Copies(a, keys) + Copies(a, spares)
        IN IF unit.ino[a].elock THEN refs = 1 /\ unit.ino[a].shlock = 0
           ELSE unit.ino[a].shlock = refs

(* A scan returns each object that was in the directory when it began and   *)
(* still is under the same name, once, whatever is looked up, created,      *)
(* renamed, deleted or reaped between two ExNext packets: what lies ahead   *)
(* of curr_file is exactly what is owed. An object that is renamed counts   *)
(* as deleted: its new a_inode comes before curr_file, and a scan that has  *)
(* not returned it under the old name leaves it out.                        *)
ScanComplete ==
    Lost(unit) \/
    \A i \in DOMAIN unit.exkeys :
        LET k == unit.exkeys[i]
            s == unit.ino[k.aino].child
        IN k.owed = IF k.curr_file = Nil THEN {}
                    ELSE {s[j] : j \in {j \in DOMAIN s :
                              \E m \in 1..j : s[m] = k.curr_file}}

(* The tree, its counts and the counts of what programs hold, until the     *)
(* emulator is lost.                                                        *)
Inv == Lost(unit) \/ (TypeOK /\ CountsExact)

(* The reaper comes to an end: it loops until it has freed Reap a_inodes of *)
(* directories that are not being scanned, so there must be as many when it *)
(* is called. It relies on total_locked_ainos being at least the number of  *)
(* a_inodes in directories being scanned.                                   *)
ReaperEnds ==
    Lost(unit) \/
    /\ CacheFull(unit) =>
          Reap <= Cardinality({a \in unit.chained :
                      unit.ino[parent(a)].locked_children = 0})
    /\ \A p \in Dirs(unit) :
          /\ unit.ino[p].exnext_count = Count(unit, p)
          /\ unit.ino[p].exnext_count > 0 =>
                unit.ino[p].locked_children >= Len(unit.ino[p].child)
    /\ unit.total_locked_ainos = Cardinality(Counted(unit))

(* Of the code's own checks two never fail: no locked a_inode is reaped,    *)
(* and ExNext's bookkeeping agrees. The third, "Serious error in            *)
(* action_delete_object", does: a directory may have a child left that is   *)
(* the a_inode of an object a failed mkdir or rename did not make.          *)
ChecksHold ==
    Lost(unit) \/
    unit.logged \cap {"panic: freeing locked a_inode!", "Bug in ExNext bookkeeping"} = {}

=============================================================================
