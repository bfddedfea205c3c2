--------------------------- MODULE FilesystemProofs ---------------------------
(***************************************************************************)
(* Proofs about the file systems.  Of Vfs.tla, for all sizes of its        *)
(* tables and all processes, paths and addresses: the tables and lists     *)
(* that refer to open files and handles agree, and implement descriptors.  *)
(* Of Fat32.tla, for all volumes that are sound, all sizes of the caches   *)
(* and any number of threads: the caches hold what the disk holds.         *)
(***************************************************************************)
EXTENDS MCVfs, Fat32, SharedLemmas

-----------------------------------------------------------------------------
(* The tables of the VFS *)

\* The handles, and the open files, that a memory holds.
InUse(hd)    == {h \in Handles : hd[h] # FREED}
Members(f, hd) == {h \in InUse(hd) : hd[h].file = f}
Opened(fl)   == {f \in Files : fl[f] # FREED}

\* The list of the open file f has the elements of s in their order.
Lists(s, f, hd, fl) ==
  /\ s \in Seq(Handles) /\ Once(s) /\ s # <<>>
  /\ Range(s) = Members(f, hd)
  /\ fl[f].first_handle = s[1] /\ fl[f].last_handle = s[Len(s)]
  /\ \A k \in 1 .. Len(s) :
       /\ hd[s[k]].next = IF k = Len(s) THEN NULL ELSE s[k + 1]
       /\ hd[s[k]].prev = IF k = 1 THEN NULL ELSE s[k - 1]

AllListed(hd, fl) == \A f \in Opened(fl) : \E s : Lists(s, f, hd, fl)

\* The table of handles hs and the tables of the processes fs hold what the handles say.
Tabled(hs, fs, hd) ==
  /\ \A h \in InUse(hd) : hs[hd[h].handle_i] = h /\ fs[hd[h].proc][hd[h].procfd] = h
  /\ \A i \in 0 .. max_file_handles - 1 : hs[i] # NULL => hs[i] \in InUse(hd) /\ hd[hs[i]].handle_i = i
  /\ \A p \in Processes, fd \in Fds : fs[p][fd] # NULL =>
       fs[p][fd] \in InUse(hd) /\ hd[fs[p][fd]].proc = p /\ hd[fs[p][fd]].procfd = fd

\* The array of open files holds every open file once, at the place that the file knows.
Entered(os, fl) ==
  /\ \A f \in Opened(fl) : os[fl[f].file_i] = f
  /\ \A i \in 0 .. max_open_files - 1 : os[i] # NULL => os[i] \in Opened(fl) /\ fl[os[i]].file_i = i
  /\ \A f, g \in Opened(fl) : fl[f].path = fl[g].path => f = g \/ fl[f].path = PIPE

VfsShape ==
  /\ handles \in [0 .. max_file_handles - 1 -> Handles \cup {NULL}]
  /\ open_files \in [0 .. max_open_files - 1 -> Files \cup {NULL}]
  /\ files \in [Processes -> [Fds -> Handles \cup {NULL}]]
  /\ handle \in [Handles -> HandleType \cup {FREED}]
  /\ file \in [Files -> FileType \cup {FREED}]
  /\ alive \subseteq Processes /\ kernel_proc \in alive
  /\ closing \in [Processes -> {NULL} \cup 0 .. max_proc_files]
  /\ closer \in [Processes -> Processes]

\* Without SPAWN's error no handle stays locked; and a process that ends, which closes its
\* own descriptors, has closed all up to the next.
Undisturbed ==
  /\ locked = {} /\ panicked = FALSE
  /\ \A v \in Processes : closing[v] # NULL =>
       /\ v \in alive /\ closer[v] = v
       /\ \A fd \in Fds : fd < closing[v] => files[v][fd] = NULL

VfsInv ==
  /\ VfsShape
  /\ AllListed(handle, file)
  /\ \A h \in InUse(handle) : handle[h].file \in Opened(file) /\ handle[h].proc \in alive
  /\ Tabled(handles, files, handle)
  /\ Entered(open_files, file)
  /\ Undisturbed

-----------------------------------------------------------------------------
(* What the invariant says of walking a list *)

LEMMA WalkSteps ==
  ASSUME VfsShape, NEW f \in Files, file[f] # FREED
  PROVE  /\ Walk(f)[0] = file[f].first_handle
         /\ \A n \in Nat : Walk(f)[n + 1] = IF Walk(f)[n] \in Allocated THEN handle[Walk(f)[n]].next ELSE NULL
<1> DEFINE Ends == Handles \cup {NULL}
           x == file[f].first_handle
           g == [n \in Nat |-> [d \in Ends |-> IF d \in Allocated THEN handle[d].next ELSE NULL]]
           Steps(w) == [n \in Nat |-> IF n = 0 THEN x
                                      ELSE IF w[n - 1] \in Allocated THEN handle[w[n - 1]].next ELSE NULL]
           walk == CHOOSE w : w = Steps(w)
<1>1. x \in Ends
  BY DEF VfsShape, FileType
<1>2. \A d \in Allocated : handle[d].next \in Ends
  BY DEF VfsShape, Allocated, HandleType
<1>3. g \in [Nat -> [Ends -> Ends]]
  BY <1>2
<1>4. PICK w : Recurs(Ends, x, g, w)
  <2> HIDE DEF g, Ends, x
  <2> QED BY <1>1, <1>3, Recursion
<1> HIDE DEF x
<1>5. w = Steps(w)
  <2>1. ASSUME NEW n \in Nat
        PROVE  w[n] = IF n = 0 THEN x ELSE IF w[n - 1] \in Allocated THEN handle[w[n - 1]].next ELSE NULL
    <3>1. CASE n = 0
      BY <1>4, <3>1 DEF Recurs
    <3>2. CASE n # 0
      <4>1. n - 1 \in Nat /\ w[n - 1] \in Ends /\ w[n] = g[n][w[n - 1]]
        <5> HIDE DEF Ends, g
        <5> QED BY <1>4, <3>2 DEF Recurs
      <4>2. g[n][w[n - 1]] = IF w[n - 1] \in Allocated THEN handle[w[n - 1]].next ELSE NULL
        <5> HIDE DEF Ends
        <5> QED BY <4>1
      <4> QED BY <3>2, <4>1, <4>2
    <3> QED BY <3>1, <3>2
  <2>2. \A n \in Nat : w[n] = Steps(w)[n]
    BY <2>1
  <2> QED BY <1>4, <2>2 DEF Recurs
<1>6. walk = Steps(walk)
  <2> HIDE DEF Steps
  <2> QED BY <1>5
<1>7. Walk(f) = walk
  BY DEF Walk, x
<1> HIDE DEF walk
<1>8. walk[0] = x
  BY <1>6
<1>9. ASSUME NEW n \in Nat
      PROVE  walk[n + 1] = IF walk[n] \in Allocated THEN handle[walk[n]].next ELSE NULL
  <2>1. n + 1 \in Nat /\ n + 1 # 0 /\ (n + 1) - 1 = n
    OBVIOUS
  <2> QED BY <1>6, <2>1
<1> QED BY <1>7, <1>8, <1>9 DEF x

\* Walking along next goes through the list and ends behind it.
LEMMA WalkIsList ==
  ASSUME VfsShape, NEW f \in Opened(file), NEW s, Lists(s, f, handle, file)
  PROVE  \A n \in 0 .. Len(s) : Walk(f)[n] = IF n = Len(s) THEN NULL ELSE s[n + 1]
<1> DEFINE T == {n \in Nat : n <= Len(s) => Walk(f)[n] = IF n = Len(s) THEN NULL ELSE s[n + 1]}
<1>1. /\ s \in Seq(Handles) /\ s # <<>> /\ Range(s) = Members(f, handle)
      /\ file[f].first_handle = s[1] /\ f \in Files /\ file[f] # FREED
      /\ \A k \in 1 .. Len(s) : handle[s[k]].next = IF k = Len(s) THEN NULL ELSE s[k + 1]
  BY DEF Lists, Opened
<1>2. Len(s) \in Nat /\ Len(s) # 0 /\ \A k \in 1 .. Len(s) : s[k] \in Allocated
  <2>1. Len(s) \in Nat /\ \A k \in 1 .. Len(s) : s[k] \in Range(s)
    BY <1>1, RangeBySeq
  <2> QED BY <1>1, <2>1, EmptySeq DEF Members, InUse, Allocated
<1>3. /\ Walk(f)[0] = file[f].first_handle
      /\ \A n \in Nat : Walk(f)[n + 1] = IF Walk(f)[n] \in Allocated THEN handle[Walk(f)[n]].next ELSE NULL
  BY <1>1, WalkSteps
<1>4. 0 \in T
  BY <1>1, <1>2, <1>3
<1>5. ASSUME NEW n \in Nat, n \in T PROVE n + 1 \in T
  <2>1. CASE n + 1 <= Len(s)
    <3>1. n + 1 \in 1 .. Len(s) /\ n <= Len(s) /\ n # Len(s) /\ n + 1 \in Nat
      BY <1>2, <2>1
    <3>2. Walk(f)[n] = s[n + 1] /\ s[n + 1] \in Allocated
      BY <1>2, <1>5, <3>1
    <3>3. Walk(f)[n + 1] = handle[s[n + 1]].next
      BY <1>3, <3>2
    <3>4. Walk(f)[n + 1] = IF n + 1 = Len(s) THEN NULL ELSE s[(n + 1) + 1]
      BY <1>1, <3>1, <3>3
    <3> QED BY <3>1, <3>4
  <2>2. CASE ~(n + 1 <= Len(s))
    BY <2>2
  <2> QED BY <2>1, <2>2
<1>6. Nat \subseteq T
  <2> HIDE DEF T
  <2> QED BY <1>4, <1>5, AllNumbers
<1> QED BY <1>2, <1>6

LEMMA ListsAreSound ==
  ASSUME VfsShape, AllListed(handle, file)
  PROVE  HandleListsSound
<1> SUFFICES ASSUME NEW f \in Files, file[f] # FREED
             PROVE  LET n == Cardinality(HandlesOf(f))
                    IN  /\ {Walk(f)[k] : k \in 0 .. n - 1} = HandlesOf(f)
                        /\ Walk(f)[n] = NULL
                        /\ n > 0 /\ file[f].last_handle = Walk(f)[n-1]
                        /\ \A k \in 0 .. n - 1 :
                             handle[Walk(f)[k]].prev = IF k = 0 THEN NULL ELSE Walk(f)[k-1]
  BY DEF HandleListsSound
<1>1. f \in Opened(file)
  BY DEF Opened
<1>2. PICK s : Lists(s, f, handle, file)
  BY <1>1 DEF AllListed
<1>3. /\ s \in Seq(Handles) /\ Once(s) /\ s # <<>> /\ Range(s) = HandlesOf(f)
      /\ file[f].last_handle = s[Len(s)]
      /\ \A k \in 1 .. Len(s) : handle[s[k]].prev = IF k = 1 THEN NULL ELSE s[k - 1]
  BY <1>2 DEF Lists, Members, InUse, HandlesOf, Allocated
<1>4. /\ Cardinality(HandlesOf(f)) = Len(s) /\ Len(s) \in Nat /\ Len(s) # 0
      /\ \A h : h \in HandlesOf(f) <=> \E k \in 1 .. Len(s) : s[k] = h
  BY <1>3, OnceCounts, RangeBySeq, EmptySeq
<1>5. \A n \in 0 .. Len(s) : Walk(f)[n] = IF n = Len(s) THEN NULL ELSE s[n + 1]
  BY <1>1, <1>2, WalkIsList
<1> DEFINE N == Len(s)
<1>6. \A k \in 0 .. N - 1 : Walk(f)[k] = s[k + 1] /\ k + 1 \in 1 .. N
  BY <1>4, <1>5
<1>7. {Walk(f)[k] : k \in 0 .. N - 1} = HandlesOf(f)
  <2>1. ASSUME NEW k \in 0 .. N - 1 PROVE Walk(f)[k] \in HandlesOf(f)
    BY <1>4, <1>6
  <2>2. ASSUME NEW h \in HandlesOf(f) PROVE \E k \in 0 .. N - 1 : Walk(f)[k] = h
    <3>1. PICK k \in 1 .. N : s[k] = h
      BY <1>4
    <3>2. k - 1 \in 0 .. N - 1 /\ (k - 1) + 1 = k
      BY <1>4
    <3> QED BY <1>6, <3>1, <3>2
  <2> QED BY <2>1, <2>2
<1>8. Walk(f)[N] = NULL /\ N > 0
  BY <1>4, <1>5
<1>9. file[f].last_handle = Walk(f)[N - 1]
  <2>1. N - 1 \in 0 .. N - 1 /\ (N - 1) + 1 = N
    BY <1>4
  <2> QED BY <1>3, <1>6, <2>1
<1>10. ASSUME NEW k \in 0 .. N - 1
       PROVE  handle[Walk(f)[k]].prev = IF k = 0 THEN NULL ELSE Walk(f)[k - 1]
  <2>1. handle[s[k + 1]].prev = IF k + 1 = 1 THEN NULL ELSE s[(k + 1) - 1]
    BY <1>3, <1>6
  <2>2. k # 0 => k - 1 \in 0 .. N - 1 /\ (k - 1) + 1 = k /\ (k + 1) - 1 = k /\ k + 1 # 1
    BY <1>4
  <2>3. Walk(f)[k] = s[k + 1]
    BY <1>6
  <2>4. CASE k = 0
    <3>1. handle[s[k + 1]].prev = NULL
      BY <2>1, <2>4
    <3> QED BY <2>3, <2>4, <3>1
  <2>5. CASE k # 0
    <3>1. handle[s[k + 1]].prev = s[k]
      BY <2>1, <2>2, <2>5
    <3>2. Walk(f)[k - 1] = s[(k - 1) + 1]
      BY <1>6, <2>2, <2>5
    <3>3. s[(k - 1) + 1] = s[k]
      BY <2>2, <2>5
    <3> QED BY <2>3, <2>5, <3>1, <3>2, <3>3
  <2> QED BY <2>4, <2>5
<1> HIDE DEF N
<1> QED BY <1>4, <1>7, <1>8, <1>9, <1>10 DEF N

-----------------------------------------------------------------------------
(* What happens to the list of a file *)

LEMMA PlacesOfList ==
  ASSUME NEW s, NEW f, NEW hd, NEW fl, Lists(s, f, hd, fl)
  PROVE  /\ s \in Seq(Handles) /\ Len(s) \in Nat \ {0} /\ s # <<>>
         /\ \A k \in 1 .. Len(s) : s[k] \in Members(f, hd) /\ s[k] \in InUse(hd) /\ s[k] \in Handles
         /\ \A h \in Members(f, hd) : \E k \in 1 .. Len(s) : s[k] = h
         /\ \A m, n \in 1 .. Len(s) : s[m] = s[n] => m = n
         /\ fl[f].first_handle = s[1] /\ fl[f].last_handle = s[Len(s)]
<1>1. /\ s \in Seq(Handles) /\ s # <<>> /\ Range(s) = Members(f, hd) /\ Once(s)
      /\ fl[f].first_handle = s[1] /\ fl[f].last_handle = s[Len(s)]
  BY DEF Lists
<1>2. Len(s) \in Nat \ {0} /\ \A x : x \in Range(s) <=> \E k \in 1 .. Len(s) : s[k] = x
  BY <1>1, RangeBySeq, EmptySeq
<1> QED BY <1>1, <1>2 DEF Members, InUse, Once

\* A list stays as it is while its handles keep their neighbours.
LEMMA ListKept ==
  ASSUME NEW s, NEW f, NEW hd, NEW fl, NEW hd2, NEW fl2, Lists(s, f, hd, fl),
         Members(f, hd2) = Members(f, hd),
         \A h \in Members(f, hd) : hd2[h].next = hd[h].next /\ hd2[h].prev = hd[h].prev,
         fl2[f].first_handle = fl[f].first_handle, fl2[f].last_handle = fl[f].last_handle
  PROVE  Lists(s, f, hd2, fl2)
<1>1. \A k \in 1 .. Len(s) : s[k] \in Members(f, hd)
  BY PlacesOfList
<1> QED BY <1>1 DEF Lists

\* A handle enters the list at its end.
LEMMA ListGrows ==
  ASSUME NEW s, NEW f, NEW hd, NEW fl, NEW hd2, NEW fl2, Lists(s, f, hd, fl),
         NEW h \in Handles, h \notin InUse(hd), Members(f, hd2) = Members(f, hd) \cup {h},
         hd2[h].next = NULL, hd2[h].prev = fl[f].last_handle,
         \A x \in Members(f, hd) : /\ hd2[x].prev = hd[x].prev
                                   /\ hd2[x].next = IF x = fl[f].last_handle THEN h ELSE hd[x].next,
         fl2[f].first_handle = fl[f].first_handle, fl2[f].last_handle = h
  PROVE  Lists(Append(s, h), f, hd2, fl2)
<1> DEFINE r == Append(s, h)
<1>1. /\ s \in Seq(Handles) /\ Len(s) \in Nat \ {0}
      /\ \A k \in 1 .. Len(s) : s[k] \in Members(f, hd) /\ s[k] \in InUse(hd)
      /\ \A m, n \in 1 .. Len(s) : s[m] = s[n] => m = n
      /\ fl[f].first_handle = s[1] /\ fl[f].last_handle = s[Len(s)]
  BY PlacesOfList
<1>2. Once(s) /\ Range(s) = Members(f, hd) /\ h \notin Range(s)
  BY DEF Lists, Members
<1>3. r \in Seq(Handles) /\ Range(r) = Members(f, hd2) /\ Once(r)
  BY <1>1, <1>2, BackOfQueue
<1>4. Len(r) = Len(s) + 1 /\ r # <<>> /\ r[Len(s) + 1] = h /\ \A k \in 1 .. Len(s) : r[k] = s[k]
  BY <1>1, AppendProperties
<1> HIDE DEF r
<1>5. fl2[f].first_handle = r[1] /\ fl2[f].last_handle = r[Len(r)]
  BY <1>1, <1>4
<1>6. ASSUME NEW k \in 1 .. Len(r)
      PROVE  /\ hd2[r[k]].next = IF k = Len(r) THEN NULL ELSE r[k + 1]
             /\ hd2[r[k]].prev = IF k = 1 THEN NULL ELSE r[k - 1]
  <2>1. CASE k = Len(r)
    BY <1>1, <1>4, <2>1
  <2>2. CASE k # Len(r)
    <3>1. k \in 1 .. Len(s) /\ r[k] = s[k] /\ s[k] \in Members(f, hd)
      BY <1>1, <1>4, <2>2
    <3>2. /\ hd[s[k]].next = IF k = Len(s) THEN NULL ELSE s[k + 1]
          /\ hd[s[k]].prev = IF k = 1 THEN NULL ELSE s[k - 1]
      BY <3>1 DEF Lists
    <3>3. hd2[s[k]].prev = IF k = 1 THEN NULL ELSE r[k - 1]
      <4>1. k # 1 => k - 1 \in 1 .. Len(s)
        BY <1>1, <3>1
      <4> QED BY <1>4, <3>1, <3>2, <4>1
    <3>4. hd2[s[k]].next = r[k + 1]
      <4>1. CASE k = Len(s)
        BY <1>1, <1>4, <3>1, <4>1
      <4>2. CASE k # Len(s)
        <5>1. s[k] # fl[f].last_handle /\ k + 1 \in 1 .. Len(s)
          BY <1>1, <3>1, <4>2
        <5> QED BY <1>4, <3>1, <3>2, <4>2, <5>1
      <4> QED BY <4>1, <4>2
    <3> QED BY <2>2, <3>1, <3>3, <3>4
  <2> QED BY <2>1, <2>2
<1> QED BY <1>3, <1>4, <1>5, <1>6 DEF Lists, r

\* A handle leaves the list, which has others.
LEMMA ListShrinks ==
  ASSUME NEW s, NEW f, NEW hd, NEW fl, NEW hd2, NEW fl2, Lists(s, f, hd, fl), NULL \notin Handles,
         NEW h \in Members(f, hd), ~(fl[f].first_handle = h /\ hd[h].next = NULL),
         Members(f, hd2) = Members(f, hd) \ {h},
         \A x \in Members(f, hd) \ {h} :
           /\ hd2[x].next = IF x = hd[h].prev THEN hd[h].next ELSE hd[x].next
           /\ hd2[x].prev = IF x = hd[h].next THEN hd[h].prev ELSE hd[x].prev,
         fl2[f].first_handle = IF fl[f].first_handle = h THEN hd[h].next ELSE fl[f].first_handle,
         fl2[f].last_handle = IF fl[f].last_handle = h THEN hd[h].prev ELSE fl[f].last_handle
  PROVE  \E r : Lists(r, f, hd2, fl2)
<1> DEFINE N == Len(s)
<1>1. /\ s \in Seq(Handles) /\ N \in Nat \ {0}
      /\ \A k \in 1 .. N : s[k] \in Members(f, hd) /\ s[k] \in Handles
      /\ \A x \in Members(f, hd) : \E k \in 1 .. N : s[k] = x
      /\ \A m, n \in 1 .. N : s[m] = s[n] => m = n
      /\ fl[f].first_handle = s[1] /\ fl[f].last_handle = s[N]
  BY PlacesOfList
<1>2. \A k \in 1 .. N : /\ hd[s[k]].next = IF k = N THEN NULL ELSE s[k + 1]
                        /\ hd[s[k]].prev = IF k = 1 THEN NULL ELSE s[k - 1]
  BY DEF Lists
<1>3. PICK n \in 1 .. N : s[n] = h
  BY <1>1
<1> HIDE DEF N
<1>4. /\ hd[h].next = IF n = N THEN NULL ELSE s[n + 1]
      /\ hd[h].prev = IF n = 1 THEN NULL ELSE s[n - 1]
  BY <1>2, <1>3
<1>5. N - 1 \in Nat /\ N - 1 # 0
  BY <1>1, <1>3, <1>4
<1> DEFINE r == [k \in 1 .. N - 1 |-> IF k < n THEN s[k] ELSE s[k + 1]]
<1>6. \A k \in 1 .. N - 1 : k \in 1 .. N /\ k + 1 \in 1 .. N
  BY <1>1
<1>7. /\ \A k \in 1 .. N - 1 : r[k] = IF k < n THEN s[k] ELSE s[k + 1]
      /\ r \in [1 .. N - 1 -> Handles]
  BY <1>1, <1>6
<1> HIDE DEF r
<1>8. r \in Seq(Handles) /\ Len(r) = N - 1
  BY <1>5, <1>7, TableIsSeq
<1>9. \A m, k \in 1 .. N - 1 : r[m] = r[k] => m = k
  <2> SUFFICES ASSUME NEW m \in 1 .. N - 1, NEW k \in 1 .. N - 1, r[m] = r[k]
               PROVE  m = k
    OBVIOUS
  <2> DEFINE a == IF m < n THEN m ELSE m + 1  b == IF k < n THEN k ELSE k + 1
  <2>1. a \in 1 .. N /\ b \in 1 .. N /\ r[m] = s[a] /\ r[k] = s[b]
    BY <1>6, <1>7
  <2>2. a = b
    <3>1. s[a] = s[b]
      BY <2>1
    <3> HIDE DEF a, b
    <3> QED BY <1>1, <2>1, <3>1
  <2> QED BY <1>3, <2>2
<1>10. Once(r)
  BY <1>8, <1>9 DEF Once
<1>11. Range(r) = Members(f, hd2)
  <2>1. \A x : x \in Range(r) <=> \E k \in 1 .. N - 1 : r[k] = x
    BY <1>8, RangeBySeq
  <2>2. ASSUME NEW k \in 1 .. N - 1 PROVE r[k] \in Members(f, hd) \ {h}
    <3> DEFINE a == IF k < n THEN k ELSE k + 1
    <3>1. a \in 1 .. N /\ r[k] = s[a] /\ a # n
      BY <1>3, <1>6, <1>7
    <3> HIDE DEF a
    <3> QED BY <1>1, <1>3, <3>1
  <2>3. ASSUME NEW x \in Members(f, hd) \ {h} PROVE \E k \in 1 .. N - 1 : r[k] = x
    <3>1. PICK a \in 1 .. N : s[a] = x
      BY <1>1
    <3>2. a # n
      BY <1>3, <3>1
    <3>3. CASE a < n
      <4>1. a \in 1 .. N - 1
        BY <1>1, <1>3, <3>3
      <4>2. r[a] = s[a]
        BY <1>7, <3>3, <4>1
      <4> QED BY <3>1, <4>1, <4>2
    <3>4. CASE a > n
      <4>1. a - 1 \in 1 .. N - 1 /\ ~(a - 1 < n) /\ (a - 1) + 1 = a
        BY <1>1, <1>3, <3>4
      <4>2. r[a - 1] = s[a]
        BY <1>7, <4>1
      <4> QED BY <3>1, <4>1, <4>2
    <3> QED BY <1>3, <3>1, <3>2, <3>3, <3>4
  <2> QED BY <2>1, <2>2, <2>3
<1>12. /\ fl2[f].first_handle = r[1] /\ fl2[f].last_handle = r[Len(r)]
  <2>1. 1 \in 1 .. N - 1 /\ N - 1 \in 1 .. N - 1 /\ 1 \in 1 .. N /\ N \in 1 .. N
    BY <1>1, <1>5
  <2>2. s[1] = h <=> n = 1
    BY <1>1, <1>3, <2>1
  <2>3. s[N] = h <=> n = N
    BY <1>1, <1>3, <2>1
  <2>4. r[1] = IF n = 1 THEN s[2] ELSE s[1]
    <3>1. 1 < n <=> n # 1
      BY <1>3
    <3> QED BY <1>7, <2>1, <3>1
  <2>5. r[N - 1] = IF n = N THEN s[N - 1] ELSE s[N]
    <3>1. (N - 1 < n <=> n = N) /\ (N - 1) + 1 = N
      BY <1>1, <1>3
    <3> QED BY <1>7, <2>1, <3>1
  <2>6. N # 1
    BY <1>5
  <2> QED BY <1>1, <1>4, <1>8, <2>2, <2>3, <2>4, <2>5, <2>6
<1>13. ASSUME NEW k \in 1 .. N - 1
       PROVE  /\ hd2[r[k]].next = IF k = N - 1 THEN NULL ELSE r[k + 1]
              /\ hd2[r[k]].prev = IF k = 1 THEN NULL ELSE r[k - 1]
  <2>1. k \in 1 .. N /\ k + 1 \in 1 .. N
    BY <1>6
  <2>2. k # N - 1 => k + 1 \in 1 .. N - 1 /\ (k + 1) + 1 = k + 2
    BY <1>1
  <2>3. k # 1 => k - 1 \in 1 .. N - 1 /\ (k - 1) + 1 = k
    BY <1>1
  <2>4. CASE k < n
    <3>1. r[k] = s[k] /\ s[k] # h /\ s[k] \in Members(f, hd)
      BY <1>1, <1>3, <1>7, <2>1, <2>4
    <3>2. s[k] = hd[h].prev <=> k = n - 1
      <4>1. n # 1 /\ n - 1 \in 1 .. N
        BY <1>1, <1>3, <2>4
      <4> QED BY <1>1, <1>4, <2>1, <4>1
    <3>3. s[k] # hd[h].next
      <4>1. n # N => n + 1 \in 1 .. N /\ n + 1 # k
        BY <1>1, <1>3, <2>4
      <4>2. s[k] # NULL
        BY <1>1, <2>1
      <4> QED BY <1>1, <1>4, <2>1, <4>1, <4>2
    <3>4. hd2[r[k]].prev = IF k = 1 THEN NULL ELSE r[k - 1]
      <4>1. hd2[r[k]].prev = IF k = 1 THEN NULL ELSE s[k - 1]
        BY <1>2, <2>1, <3>1, <3>3
      <4>2. k # 1 => r[k - 1] = s[k - 1]
        <5>1. k - 1 < n
          BY <1>3, <2>4
        <5> QED BY <1>7, <2>3, <5>1
      <4> QED BY <4>1, <4>2
    <3>5. hd2[r[k]].next = IF k = N - 1 THEN NULL ELSE r[k + 1]
      <4>1. CASE k = n - 1
        <5>1. hd2[r[k]].next = IF n = N THEN NULL ELSE s[n + 1]
          BY <1>4, <3>1, <3>2, <4>1
        <5>2. n = N <=> k = N - 1
          BY <1>1, <1>3, <4>1
        <5>3. k # N - 1 => r[k + 1] = s[n + 1]
          <6>1. k + 1 = n /\ ~(k + 1 < n)
            BY <1>3, <4>1
          <6> QED BY <1>7, <2>2, <6>1
        <5> QED BY <5>1, <5>2, <5>3
      <4>2. CASE k # n - 1
        <5>1. k # N /\ k # N - 1 /\ k + 1 < n
          BY <1>1, <1>3, <2>4, <4>2
        <5>2. hd2[r[k]].next = s[k + 1]
          BY <1>2, <2>1, <3>1, <3>2, <4>2, <5>1
        <5>3. r[k + 1] = s[k + 1]
          BY <1>7, <2>2, <5>1
        <5> QED BY <5>1, <5>2, <5>3
      <4> QED BY <4>1, <4>2
    <3> QED BY <3>4, <3>5
  <2>5. CASE ~(k < n)
    <3>1. r[k] = s[k + 1] /\ s[k + 1] # h /\ s[k + 1] \in Members(f, hd)
      <4>1. k + 1 # n
        BY <1>3, <2>5
      <4> QED BY <1>1, <1>3, <1>7, <2>1, <2>5, <4>1
    <3>2. s[k + 1] # hd[h].prev
      <4>1. n # 1 => n - 1 \in 1 .. N /\ n - 1 # k + 1
        BY <1>1, <1>3, <2>5
      <4>2. s[k + 1] # NULL
        BY <1>1, <2>1
      <4> QED BY <1>1, <1>4, <2>1, <4>1, <4>2
    <3>3. n # N /\ n + 1 \in 1 .. N
      BY <1>1, <1>3, <2>5
    <3>4. s[k + 1] = hd[h].next <=> k = n
      <4>1. hd[h].next = s[n + 1]
        BY <1>4, <3>3
      <4>2. k = n <=> k + 1 = n + 1
        BY <1>3
      <4> QED BY <1>1, <2>1, <3>3, <4>1, <4>2
    <3>5. hd2[r[k]].next = IF k = N - 1 THEN NULL ELSE r[k + 1]
      <4>1. hd2[r[k]].next = IF k + 1 = N THEN NULL ELSE s[(k + 1) + 1]
        BY <1>2, <2>1, <3>1, <3>2
      <4>2. k # N - 1 => r[k + 1] = s[(k + 1) + 1]
        <5>1. ~(k + 1 < n)
          BY <1>3, <2>5
        <5> QED BY <1>7, <2>2, <5>1
      <4>3. k + 1 = N <=> k = N - 1
        BY <1>1
      <4> QED BY <4>1, <4>2, <4>3
    <3>6. hd2[r[k]].prev = IF k = 1 THEN NULL ELSE r[k - 1]
      <4>1. CASE k = n
        <5>1. hd2[r[k]].prev = IF n = 1 THEN NULL ELSE s[n - 1]
          BY <1>4, <3>1, <3>4, <4>1
        <5>2. k # 1 => r[k - 1] = s[k - 1]
          <6>1. k - 1 < n
            BY <4>1
          <6> QED BY <1>7, <2>3, <6>1
        <5> QED BY <4>1, <5>1, <5>2
      <4>2. CASE k # n
        <5>1. k # 1 /\ k + 1 # 1 /\ (k + 1) - 1 = k /\ ~(k - 1 < n)
          BY <1>3, <2>5, <4>2
        <5>2. hd2[r[k]].prev = s[k]
          BY <1>2, <2>1, <3>1, <3>4, <4>2, <5>1
        <5>3. r[k - 1] = s[k]
          BY <1>7, <2>3, <5>1
        <5> QED BY <5>1, <5>2, <5>3
      <4> QED BY <4>1, <4>2
    <3> QED BY <3>5, <3>6
  <2> QED BY <2>4, <2>5
<1>14. r # <<>>
  BY <1>5, <1>8
<1>15. Lists(r, f, hd2, fl2)
  BY <1>8, <1>10, <1>11, <1>12, <1>13, <1>14 DEF Lists
<1> QED BY <1>15

-----------------------------------------------------------------------------
(* What happens to the tables *)

\* The handle x refers to the same file, at the same places.
Same(x, hd, hd2) ==
  /\ hd2[x].handle_i = hd[x].handle_i /\ hd2[x].file = hd[x].file
  /\ hd2[x].proc = hd[x].proc /\ hd2[x].procfd = hd[x].procfd

\* A handle knows places that the tables have.
Placed(x, hd) ==
  hd[x].handle_i \in 0 .. max_file_handles - 1 /\ hd[x].proc \in Processes /\ hd[x].procfd \in Fds

\* The new handle h is written to the places that it knows, which were empty.
HandleEnters(hs, fs, hd, hs2, fs2, hd2, h) ==
  /\ h \in Handles \ InUse(hd) /\ InUse(hd2) = InUse(hd) \cup {h} /\ Placed(h, hd2)
  /\ \A x \in InUse(hd) : Same(x, hd, hd2) /\ Placed(x, hd)
  /\ hs[hd2[h].handle_i] = NULL /\ fs[hd2[h].proc][hd2[h].procfd] = NULL
  /\ \A j \in 0 .. max_file_handles - 1 : hs2[j] = IF j = hd2[h].handle_i THEN h ELSE hs[j]
  /\ \A q \in Processes, e \in Fds :
       fs2[q][e] = IF q = hd2[h].proc /\ e = hd2[h].procfd THEN h ELSE fs[q][e]

LEMMA TablesGrow ==
  ASSUME NEW hs, NEW fs, NEW hd, NEW hs2, NEW fs2, NEW hd2, NEW h,
         Tabled(hs, fs, hd), HandleEnters(hs, fs, hd, hs2, fs2, hd2, h), NULL \notin Handles
  PROVE  Tabled(hs2, fs2, hd2)
<1> DEFINE i == hd2[h].handle_i  p == hd2[h].proc  fd == hd2[h].procfd
<1>1. /\ h \in Handles /\ h \notin InUse(hd) /\ InUse(hd2) = InUse(hd) \cup {h}
      /\ i \in 0 .. max_file_handles - 1 /\ p \in Processes /\ fd \in Fds
      /\ \A x \in InUse(hd) : Same(x, hd, hd2) /\ Placed(x, hd)
      /\ hs[i] = NULL /\ fs[p][fd] = NULL
      /\ \A j \in 0 .. max_file_handles - 1 : hs2[j] = IF j = i THEN h ELSE hs[j]
      /\ \A q \in Processes, e \in Fds : fs2[q][e] = IF q = p /\ e = fd THEN h ELSE fs[q][e]
  BY DEF HandleEnters, Placed
<1>2. ASSUME NEW x \in InUse(hd2)
      PROVE  hs2[hd2[x].handle_i] = x /\ fs2[hd2[x].proc][hd2[x].procfd] = x
  <2>1. CASE x = h
    BY <1>1, <2>1
  <2>2. CASE x # h
    <3>1. x \in InUse(hd) /\ x # NULL
      BY <1>2, <1>1, <2>2 DEF InUse
    <3>2. hs[hd[x].handle_i] = x /\ fs[hd[x].proc][hd[x].procfd] = x
      BY <3>1 DEF Tabled
    <3> QED BY <1>1, <3>1, <3>2 DEF Same, Placed
  <2> QED BY <2>1, <2>2
<1>3. ASSUME NEW j \in 0 .. max_file_handles - 1, hs2[j] # NULL
      PROVE  hs2[j] \in InUse(hd2) /\ hd2[hs2[j]].handle_i = j
  <2>1. CASE j = i
    BY <1>1, <2>1
  <2>2. CASE j # i
    <3>1. hs2[j] = hs[j] /\ hs[j] \in InUse(hd) /\ hd[hs[j]].handle_i = j
      BY <1>3, <1>1, <2>2 DEF Tabled
    <3> QED BY <1>1, <3>1 DEF Same
  <2> QED BY <2>1, <2>2
<1>4. ASSUME NEW q \in Processes, NEW e \in Fds, fs2[q][e] # NULL
      PROVE  fs2[q][e] \in InUse(hd2) /\ hd2[fs2[q][e]].proc = q /\ hd2[fs2[q][e]].procfd = e
  <2>1. CASE q = p /\ e = fd
    BY <1>1, <2>1
  <2>2. CASE ~(q = p /\ e = fd)
    <3>1. fs2[q][e] = fs[q][e] /\ fs[q][e] \in InUse(hd) /\ hd[fs[q][e]].proc = q /\ hd[fs[q][e]].procfd = e
      BY <1>4, <1>1, <2>2 DEF Tabled
    <3> QED BY <1>1, <3>1 DEF Same
  <2> QED BY <2>1, <2>2
<1> QED BY <1>2, <1>3, <1>4 DEF Tabled

\* The handle h is wiped from the places that it knows.
HandleLeaves(hs, fs, hd, hs2, fs2, hd2, h) ==
  /\ h \in InUse(hd) /\ InUse(hd2) = InUse(hd) \ {h}
  /\ \A x \in InUse(hd) : Placed(x, hd)
  /\ \A x \in InUse(hd2) : Same(x, hd, hd2)
  /\ \A j \in 0 .. max_file_handles - 1 : hs2[j] = IF j = hd[h].handle_i THEN NULL ELSE hs[j]
  /\ \A q \in Processes, e \in Fds :
       fs2[q][e] = IF q = hd[h].proc /\ e = hd[h].procfd THEN NULL ELSE fs[q][e]

LEMMA TablesShrink ==
  ASSUME NEW hs, NEW fs, NEW hd, NEW hs2, NEW fs2, NEW hd2, NEW h,
         Tabled(hs, fs, hd), HandleLeaves(hs, fs, hd, hs2, fs2, hd2, h), NULL \notin Handles
  PROVE  Tabled(hs2, fs2, hd2)
<1>1. /\ \A x \in InUse(hd) : hs[hd[x].handle_i] = x /\ fs[hd[x].proc][hd[x].procfd] = x
      /\ h \in InUse(hd) /\ InUse(hd2) = InUse(hd) \ {h}
      /\ \A x \in InUse(hd) : Placed(x, hd)
      /\ \A x \in InUse(hd2) : Same(x, hd, hd2)
      /\ \A j \in 0 .. max_file_handles - 1 : hs2[j] = IF j = hd[h].handle_i THEN NULL ELSE hs[j]
      /\ \A q \in Processes, e \in Fds :
           fs2[q][e] = IF q = hd[h].proc /\ e = hd[h].procfd THEN NULL ELSE fs[q][e]
  BY DEF Tabled, HandleLeaves
<1>2. ASSUME NEW x \in InUse(hd2)
      PROVE  hs2[hd2[x].handle_i] = x /\ fs2[hd2[x].proc][hd2[x].procfd] = x
  <2>1. x \in InUse(hd) /\ x # h
    BY <1>1, <1>2
  <2>2. hd[x].handle_i # hd[h].handle_i /\ ~(hd[x].proc = hd[h].proc /\ hd[x].procfd = hd[h].procfd)
    BY <1>1, <2>1
  <2> QED BY <1>1, <1>2, <2>1, <2>2 DEF Same, Placed
<1>3. ASSUME NEW j \in 0 .. max_file_handles - 1, hs2[j] # NULL
      PROVE  hs2[j] \in InUse(hd2) /\ hd2[hs2[j]].handle_i = j
  <2>1. j # hd[h].handle_i /\ hs2[j] = hs[j] /\ hs[j] \in InUse(hd) /\ hd[hs[j]].handle_i = j
    BY <1>1, <1>3 DEF Tabled
  <2> QED BY <1>1, <2>1 DEF Same
<1>4. ASSUME NEW q \in Processes, NEW e \in Fds, fs2[q][e] # NULL
      PROVE  fs2[q][e] \in InUse(hd2) /\ hd2[fs2[q][e]].proc = q /\ hd2[fs2[q][e]].procfd = e
  <2>1. /\ ~(q = hd[h].proc /\ e = hd[h].procfd) /\ fs2[q][e] = fs[q][e]
        /\ fs[q][e] \in InUse(hd) /\ hd[fs[q][e]].proc = q /\ hd[fs[q][e]].procfd = e
    BY <1>1, <1>4 DEF Tabled
  <2> QED BY <1>1, <2>1 DEF Same
<1> QED BY <1>2, <1>3, <1>4 DEF Tabled

\* A file f is opened, of which no path but that of a pipe is open already.
LEMMA FileEnters ==
  ASSUME NEW os, NEW fl, NEW os2, NEW fl2, Entered(os, fl), NULL \notin Files,
         NEW f \in Files, f \notin Opened(fl), Opened(fl2) = Opened(fl) \cup {f},
         NEW n \in 0 .. max_open_files - 1, os[n] = NULL, fl2[f].file_i = n,
         \A g \in Opened(fl) : /\ fl2[g].file_i = fl[g].file_i /\ fl2[g].path = fl[g].path
                               /\ fl[g].file_i \in 0 .. max_open_files - 1,
         \A g \in Opened(fl) : fl[g].path = fl2[f].path => fl2[f].path = PIPE,
         \A j \in 0 .. max_open_files - 1 : os2[j] = IF j = n THEN f ELSE os[j]
  PROVE  Entered(os2, fl2)
<1>1. ASSUME NEW g \in Opened(fl2) PROVE os2[fl2[g].file_i] = g
  <2>1. CASE g = f
    BY <2>1
  <2>2. CASE g # f
    <3>1. g \in Opened(fl) /\ g # NULL /\ os[fl[g].file_i] = g
      BY <1>1, <2>2 DEF Entered, Opened
    <3> QED BY <3>1
  <2> QED BY <2>1, <2>2
<1>2. ASSUME NEW i \in 0 .. max_open_files - 1, os2[i] # NULL
      PROVE  os2[i] \in Opened(fl2) /\ fl2[os2[i]].file_i = i
  BY <1>2 DEF Entered
<1>3. ASSUME NEW g1 \in Opened(fl2), NEW g2 \in Opened(fl2), fl2[g1].path = fl2[g2].path
      PROVE  g1 = g2 \/ fl2[g1].path = PIPE
  <2>1. CASE g1 \in Opened(fl) /\ g2 \in Opened(fl)
    BY <1>3, <2>1 DEF Entered
  <2>2. CASE g1 = f \/ g2 = f
    BY <1>3, <2>2
  <2> QED BY <2>1, <2>2
<1> QED BY <1>1, <1>2, <1>3 DEF Entered

\* A file that is not open any more leaves the array.
LEMMA FileLeaves ==
  ASSUME NEW os, NEW fl, NEW os2, NEW fl2, Entered(os, fl),
         NEW f \in Opened(fl), Opened(fl2) = Opened(fl) \ {f},
         \A g \in Opened(fl) : fl[g].file_i \in 0 .. max_open_files - 1,
         \A g \in Opened(fl2) : fl2[g].file_i = fl[g].file_i /\ fl2[g].path = fl[g].path,
         \A j \in 0 .. max_open_files - 1 : os2[j] = IF j = fl[f].file_i THEN NULL ELSE os[j]
  PROVE  Entered(os2, fl2)
<1>1. ASSUME NEW g \in Opened(fl2) PROVE os2[fl2[g].file_i] = g
  BY <1>1 DEF Entered
<1>2. ASSUME NEW i \in 0 .. max_open_files - 1, os2[i] # NULL
      PROVE  os2[i] \in Opened(fl2) /\ fl2[os2[i]].file_i = i
  BY <1>2 DEF Entered
<1>3. \A g1, g2 \in Opened(fl2) : fl2[g1].path = fl2[g2].path => g1 = g2 \/ fl2[g1].path = PIPE
  BY DEF Entered
<1> QED BY <1>1, <1>2, <1>3 DEF Entered

LEMMA EnteredKept ==
  ASSUME NEW os, NEW fl, NEW fl2, Entered(os, fl), Opened(fl2) = Opened(fl),
         \A g \in Opened(fl) : fl2[g].file_i = fl[g].file_i /\ fl2[g].path = fl[g].path
  PROVE  Entered(os, fl2)
BY DEF Entered

-----------------------------------------------------------------------------
(* What the calls do to handles and lists *)

LEMMA Marks ==
  /\ NULL \notin Handles /\ NULL \notin Files /\ NULL \notin Processes /\ NULL \notin Nat
  /\ FREED \notin HandleType /\ FREED \notin FileType /\ PIPE \notin Paths
  /\ NULL \notin Paths /\ NULL # PIPE
BY VfsAssumption, MarksAssumption

LEMMA HandleKnown ==
  ASSUME VfsShape, NEW x \in InUse(handle)
  PROVE  /\ x \in Handles /\ handle[x] \in HandleType /\ Placed(x, handle) /\ handle[x].file \in Files
         /\ handle[x].next \in Handles \cup {NULL} /\ handle[x].prev \in Handles \cup {NULL}
<1>1. x \in Handles /\ handle[x] \in HandleType
  BY DEF InUse, VfsShape
<1> QED BY <1>1 DEF HandleType, Placed

LEMMA FileKnown ==
  ASSUME VfsShape, NEW f \in Opened(file)
  PROVE  /\ f \in Files /\ file[f] \in FileType /\ file[f].file_i \in 0 .. max_open_files - 1
         /\ file[f].path \in Paths \cup {PIPE}
         /\ file[f].first_handle \in Handles \cup {NULL} /\ file[f].last_handle \in Handles \cup {NULL}
<1>1. f \in Files /\ file[f] \in FileType
  BY DEF Opened, VfsShape
<1> QED BY <1>1 DEF FileType

\* What a call that makes a handle h of the open file f leaves as it was.
Joined(h, f) ==
  /\ handle' \in [Handles -> HandleType \cup {FREED}] /\ file' \in [Files -> FileType \cup {FREED}]
  /\ InUse(handle') = InUse(handle) \cup {h}
  /\ \A x \in InUse(handle) : Same(x, handle, handle')
  /\ Opened(file') = Opened(file) \cup {f}
  /\ \A g \in Opened(file) : file'[g].file_i = file[g].file_i /\ file'[g].path = file[g].path
  /\ AllListed(handle', file')

LEMMA EnterKeeps ==
  ASSUME VfsShape, AllListed(handle, file), NEW h \in Handles, handle[h] = FREED,
         NEW f \in Opened(file), NEW r \in HandleType, r.file = f, r.next = NULL, Enter(h, r, f)
  PROVE  /\ Joined(h, f)
         /\ handle'[h].handle_i = r.handle_i /\ handle'[h].file = f
         /\ handle'[h].proc = r.proc /\ handle'[h].procfd = r.procfd
<1> DEFINE last == file[f].last_handle
           r2 == [r EXCEPT !.prev = last]
<1>1. PICK s : Lists(s, f, handle, file)
  BY DEF AllListed
<1>2. last \in Members(f, handle) /\ last \in InUse(handle) /\ last \in Handles
  BY <1>1, PlacesOfList DEF Members, InUse
<1>3. h \notin InUse(handle) /\ last # h
  BY <1>2 DEF InUse
<1>4. /\ handle \in [Handles -> HandleType \cup {FREED}] /\ file \in [Files -> FileType \cup {FREED}]
      /\ f \in Files /\ file[f] \in FileType /\ handle[last] \in HandleType
  BY <1>2, FileKnown, HandleKnown DEF VfsShape
<1>5. handle' = [handle EXCEPT ![h] = r2, ![last].next = h] /\ file' = [file EXCEPT ![f].last_handle = h]
  BY DEF Enter
<1> HIDE DEF last
<1>6. /\ r2 \in HandleType /\ r2.handle_i = r.handle_i /\ r2.file = f /\ r2.proc = r.proc
      /\ r2.procfd = r.procfd /\ r2.prev = last /\ r2.next = NULL
  BY <1>2 DEF HandleType
<1> HIDE DEF r2
<1>7. /\ \A x \in Handles : x # h /\ x # last => handle'[x] = handle[x]
      /\ handle'[h] = r2 /\ handle'[last] = [handle[last] EXCEPT !.next = h]
  BY <1>2, <1>3, <1>4, <1>5
<1>8. /\ handle'[last] \in HandleType /\ handle'[last].next = h
      /\ handle'[last].prev = handle[last].prev /\ Same(last, handle, handle')
  BY <1>4, <1>7 DEF HandleType, Same
<1>9. handle' \in [Handles -> HandleType \cup {FREED}]
  BY <1>2, <1>4, <1>5, <1>6, <1>7, <1>8
<1>10. /\ \A g \in Files : g # f => file'[g] = file[g]
       /\ file'[f] = [file[f] EXCEPT !.last_handle = h]
  BY <1>4, <1>5
<1>11. /\ file'[f] \in FileType /\ file'[f].last_handle = h /\ file'[f].first_handle = file[f].first_handle
       /\ file'[f].file_i = file[f].file_i /\ file'[f].path = file[f].path
  BY <1>4, <1>10 DEF FileType
<1>12. file' \in [Files -> FileType \cup {FREED}]
  BY <1>4, <1>5, <1>10, <1>11
<1>13. InUse(handle') = InUse(handle) \cup {h}
  BY <1>2, <1>6, <1>7, <1>8, Marks DEF InUse
<1>14. \A x \in InUse(handle) : Same(x, handle, handle')
  BY <1>3, <1>7, <1>8 DEF InUse, Same
<1>15. Opened(file') = Opened(file) \cup {f}
  BY <1>4, <1>10, <1>11, Marks DEF Opened
<1>16. \A g \in Opened(file) : file'[g].file_i = file[g].file_i /\ file'[g].path = file[g].path
  BY <1>10, <1>11 DEF Opened
<1>17. AllListed(handle', file')
  <2>1. Lists(Append(s, h), f, handle', file')
    <3>1. Members(f, handle') = Members(f, handle) \cup {h}
      BY <1>6, <1>7, <1>13, <1>14 DEF Members, Same
    <3>2. \A x \in Members(f, handle) :
            /\ handle'[x].prev = handle[x].prev
            /\ handle'[x].next = IF x = file[f].last_handle THEN h ELSE handle[x].next
      BY <1>3, <1>7, <1>8 DEF last, Members, InUse
    <3>3. handle'[h].next = NULL /\ handle'[h].prev = file[f].last_handle
      BY <1>6, <1>7 DEF last
    <3> QED BY <1>1, <1>3, <1>11, <3>1, <3>2, <3>3, ListGrows
  <2>2. ASSUME NEW g \in Opened(file), g # f PROVE \E t : Lists(t, g, handle', file')
    <3>1. PICK t : Lists(t, g, handle, file)
      BY DEF AllListed
    <3>2. Members(g, handle') = Members(g, handle)
      BY <1>6, <1>7, <1>13, <1>14, <2>2 DEF Members, Same
    <3>3. \A x \in Members(g, handle) : handle'[x].next = handle[x].next /\ handle'[x].prev = handle[x].prev
      BY <1>2, <1>3, <1>7, <2>2 DEF Members, InUse
    <3>4. g \in Files /\ file'[g] = file[g]
      BY <1>10, <2>2 DEF Opened
    <3>5. Lists(t, g, handle', file')
      BY <3>1, <3>2, <3>3, <3>4, ListKept
    <3> QED BY <3>5
  <2> QED BY <1>15, <2>1, <2>2 DEF AllListed
<1> QED BY <1>6, <1>7, <1>9, <1>12, <1>13, <1>14, <1>15, <1>16, <1>17 DEF Joined

\* A file is opened with one handle.
NewFile(h, r, f, q) ==
  /\ h \in Handles /\ handle[h] = FREED /\ f \in Files /\ file[f] = FREED
  /\ r \in HandleType /\ r.file = f /\ r.next = NULL /\ r.prev = NULL
  /\ q \in FileType /\ q.first_handle = h /\ q.last_handle = h
  /\ handle' = [handle EXCEPT ![h] = r] /\ file' = [file EXCEPT ![f] = q]

LEMMA NewFileListed ==
  ASSUME VfsShape, AllListed(handle, file), \A x \in InUse(handle) : handle[x].file \in Opened(file),
         NEW h, NEW r, NEW f, NEW q, NewFile(h, r, f, q)
  PROVE  Joined(h, f) /\ handle'[h] = r /\ file'[f] = q
<1>1. /\ h \in Handles /\ handle[h] = FREED /\ f \in Files /\ file[f] = FREED
       /\ r \in HandleType /\ r.file = f /\ r.next = NULL /\ r.prev = NULL
       /\ q \in FileType /\ q.first_handle = h /\ q.last_handle = h
       /\ handle' = [handle EXCEPT ![h] = r] /\ file' = [file EXCEPT ![f] = q]
  BY DEF NewFile
<1> USE <1>1
<1>2. handle \in [Handles -> HandleType \cup {FREED}] /\ file \in [Files -> FileType \cup {FREED}]
  BY DEF VfsShape
<1>3. /\ handle' \in [Handles -> HandleType \cup {FREED}] /\ file' \in [Files -> FileType \cup {FREED}]
      /\ handle'[h] = r /\ file'[f] = q
      /\ \A x \in Handles : x # h => handle'[x] = handle[x]
      /\ \A g \in Files : g # f => file'[g] = file[g]
  BY <1>2
<1>4. InUse(handle') = InUse(handle) \cup {h} /\ h \notin InUse(handle)
  BY <1>3, Marks DEF InUse
<1>5. Opened(file') = Opened(file) \cup {f} /\ f \notin Opened(file)
  BY <1>3, Marks DEF Opened
<1>6. \A x \in InUse(handle) : Same(x, handle, handle') /\ handle'[x] = handle[x]
  BY <1>3, <1>4 DEF InUse, Same
<1>7. \A g \in Opened(file) : file'[g] = file[g]
  BY <1>3, <1>5 DEF Opened
<1>8. /\ handle'[h].file = f /\ handle'[h].next = NULL /\ handle'[h].prev = NULL
       /\ file'[f].first_handle = h /\ file'[f].last_handle = h
  BY <1>3
<1>9. \A x \in InUse(handle) : handle'[x].file = handle[x].file /\ handle[x].file # f
  BY <1>5, <1>6
<1>10. Lists(<<h>>, f, handle', file')
  <2>1. Members(f, handle') = {h}
    BY <1>4, <1>8, <1>9 DEF Members
  <2> DEFINE s == <<h>>
  <2>2. s \in Seq(Handles) /\ Len(s) = 1 /\ s[1] = h /\ s # <<>>
    OBVIOUS
  <2> HIDE DEF s
  <2>3. Range(s) = {h}
    BY <2>2, RangeBySeq
  <2>4. Once(s)
    BY <2>2 DEF Once
  <2>5. \A k \in 1 .. Len(s) : k = 1
    BY <2>2
  <2>6. Lists(s, f, handle', file')
    BY <1>8, <2>1, <2>2, <2>3, <2>4, <2>5 DEF Lists
  <2> QED BY <2>6 DEF s
<1>11. ASSUME NEW g \in Opened(file) PROVE \E t : Lists(t, g, handle', file')
  <2>1. PICK t : Lists(t, g, handle, file)
    BY DEF AllListed
  <2>2. Members(g, handle') = Members(g, handle)
    <3>1. g # f
      BY <1>5
    <3> QED BY <1>4, <1>8, <1>9, <3>1 DEF Members
  <2>3. \A x \in Members(g, handle) : handle'[x].next = handle[x].next /\ handle'[x].prev = handle[x].prev
    BY <1>6 DEF Members
  <2>4. file'[g] = file[g]
    BY <1>7
  <2>5. Lists(t, g, handle', file')
    <3>1. file'[g].first_handle = file[g].first_handle /\ file'[g].last_handle = file[g].last_handle
      BY <2>4
    <3>2. \A k \in 1 .. Len(t) : t[k] \in Members(g, handle)
      BY <2>1, PlacesOfList
    <3>3. \A k \in 1 .. Len(t) : handle'[t[k]].next = handle[t[k]].next /\ handle'[t[k]].prev = handle[t[k]].prev
      BY <2>3, <3>2
    <3> QED BY <2>1, <2>2, <3>1, <3>3 DEF Lists
  <2> QED BY <2>5
<1>12. AllListed(handle', file')
  BY <1>5, <1>10, <1>11 DEF AllListed
<1> QED BY <1>3, <1>4, <1>5, <1>6, <1>7, <1>12 DEF Joined

\* A file is opened with two handles.
NewPipe(in, r1, out, r2, f, q) ==
  /\ in \in Handles /\ out \in Handles /\ in # out /\ handle[in] = FREED /\ handle[out] = FREED
  /\ f \in Files /\ file[f] = FREED
  /\ r1 \in HandleType /\ r1.file = f /\ r1.next = out /\ r1.prev = NULL
  /\ r2 \in HandleType /\ r2.file = f /\ r2.next = NULL /\ r2.prev = in
  /\ q \in FileType /\ q.first_handle = in /\ q.last_handle = out
  /\ handle' = [handle EXCEPT ![in] = r1, ![out] = r2] /\ file' = [file EXCEPT ![f] = q]

LEMMA PipeListed ==
  ASSUME VfsShape, AllListed(handle, file), \A x \in InUse(handle) : handle[x].file \in Opened(file),
         NEW in, NEW r1, NEW out, NEW r2, NEW f, NEW q, NewPipe(in, r1, out, r2, f, q)
  PROVE  /\ handle' \in [Handles -> HandleType \cup {FREED}] /\ file' \in [Files -> FileType \cup {FREED}]
         /\ InUse(handle') = InUse(handle) \cup {in, out} /\ in \notin InUse(handle) /\ out \notin InUse(handle)
         /\ \A x \in InUse(handle) : handle'[x] = handle[x]
         /\ Opened(file') = Opened(file) \cup {f} /\ f \notin Opened(file)
         /\ \A g \in Opened(file) : file'[g] = file[g]
         /\ AllListed(handle', file')
         /\ handle'[in] = r1 /\ handle'[out] = r2 /\ file'[f] = q
<1>1. /\ in \in Handles /\ out \in Handles /\ in # out /\ handle[in] = FREED /\ handle[out] = FREED
       /\ f \in Files /\ file[f] = FREED
       /\ r1 \in HandleType /\ r1.file = f /\ r1.next = out /\ r1.prev = NULL
       /\ r2 \in HandleType /\ r2.file = f /\ r2.next = NULL /\ r2.prev = in
       /\ q \in FileType /\ q.first_handle = in /\ q.last_handle = out
       /\ handle' = [handle EXCEPT ![in] = r1, ![out] = r2] /\ file' = [file EXCEPT ![f] = q]
  BY DEF NewPipe
<1> USE <1>1
<1>2. handle \in [Handles -> HandleType \cup {FREED}] /\ file \in [Files -> FileType \cup {FREED}]
  BY DEF VfsShape
<1>3. /\ handle' \in [Handles -> HandleType \cup {FREED}] /\ file' \in [Files -> FileType \cup {FREED}]
      /\ handle'[in] = r1 /\ handle'[out] = r2 /\ file'[f] = q
      /\ \A x \in Handles : x # in /\ x # out => handle'[x] = handle[x]
      /\ \A g \in Files : g # f => file'[g] = file[g]
  BY <1>2
<1>4. InUse(handle') = InUse(handle) \cup {in, out} /\ in \notin InUse(handle) /\ out \notin InUse(handle)
  BY <1>3, Marks DEF InUse
<1>5. Opened(file') = Opened(file) \cup {f} /\ f \notin Opened(file)
  BY <1>3, Marks DEF Opened
<1>6. \A x \in InUse(handle) : handle'[x] = handle[x]
  BY <1>3, <1>4 DEF InUse
<1>7. \A g \in Opened(file) : file'[g] = file[g]
  BY <1>3, <1>5 DEF Opened
<1>8. /\ handle'[in].file = f /\ handle'[in].next = out /\ handle'[in].prev = NULL
      /\ handle'[out].file = f /\ handle'[out].next = NULL /\ handle'[out].prev = in
      /\ file'[f].first_handle = in /\ file'[f].last_handle = out
  BY <1>3
<1>9. \A x \in InUse(handle) : handle'[x].file = handle[x].file /\ handle[x].file # f
  BY <1>5, <1>6
<1>10. Lists(<<in, out>>, f, handle', file')
  <2>1. Members(f, handle') = {in, out}
    BY <1>4, <1>8, <1>9 DEF Members
  <2> DEFINE s == <<in, out>>
  <2>2. s \in Seq(Handles) /\ Len(s) = 2 /\ s[1] = in /\ s[2] = out /\ s # <<>>
    OBVIOUS
  <2> HIDE DEF s
  <2>3. \A k \in 1 .. Len(s) : k = 1 \/ k = 2
    BY <2>2
  <2>4. Range(s) = {in, out}
    BY <2>2, <2>3, RangeBySeq
  <2>5. Once(s)
    BY <2>2, <2>3 DEF Once
  <2>6. \A k \in 1 .. Len(s) : /\ handle'[s[k]].next = IF k = Len(s) THEN NULL ELSE s[k + 1]
                               /\ handle'[s[k]].prev = IF k = 1 THEN NULL ELSE s[k - 1]
    BY <1>8, <2>2, <2>3
  <2>7. Lists(s, f, handle', file')
    BY <1>8, <2>1, <2>2, <2>4, <2>5, <2>6 DEF Lists
  <2> QED BY <2>7 DEF s
<1>11. ASSUME NEW g \in Opened(file) PROVE \E t : Lists(t, g, handle', file')
  <2>1. PICK t : Lists(t, g, handle, file)
    BY DEF AllListed
  <2>2. Members(g, handle') = Members(g, handle)
    <3>1. g # f
      BY <1>5
    <3> QED BY <1>4, <1>8, <1>9, <3>1 DEF Members
  <2>3. \A x \in Members(g, handle) : handle'[x].next = handle[x].next /\ handle'[x].prev = handle[x].prev
    BY <1>6 DEF Members
  <2>4. file'[g] = file[g]
    BY <1>7
  <2>5. \A k \in 1 .. Len(t) : t[k] \in Members(g, handle)
    BY <2>1, PlacesOfList
  <2>6. Lists(t, g, handle', file')
    BY <2>1, <2>2, <2>3, <2>4, <2>5 DEF Lists
  <2> QED BY <2>6
<1>12. AllListed(handle', file')
  BY <1>5, <1>10, <1>11 DEF AllListed
<1> QED BY <1>3, <1>4, <1>5, <1>6, <1>7, <1>12

\* A handle is closed, and with the last one its file.
LEMMA CloseKeeps ==
  ASSUME VfsShape, AllListed(handle, file), \A x \in InUse(handle) : handle[x].file \in Opened(file),
         NEW p \in Processes, NEW fd \in Fds, NEW h \in InUse(handle), files[p][fd] = h,
         NEW f, handle[h].file = f, CloseHandle(p, fd)
  PROVE  /\ handle' \in [Handles -> HandleType \cup {FREED}] /\ file' \in [Files -> FileType \cup {FREED}]
         /\ InUse(handle') = InUse(handle) \ {h}
         /\ \A x \in InUse(handle') : Same(x, handle, handle')
         /\ \A g \in Opened(file') : file'[g].file_i = file[g].file_i /\ file'[g].path = file[g].path
         /\ AllListed(handle', file')
         /\ \/ /\ Members(f, handle) = {h} /\ Opened(file') = Opened(file) \ {f}
               /\ open_files' = [open_files EXCEPT ![file[f].file_i] = NULL]
            \/ /\ Members(f, handle) # {h} /\ Opened(file') = Opened(file)
               /\ open_files' = open_files
<1> DEFINE r == handle[h]
           ends == [file[f] EXCEPT !.first_handle = IF @ = h THEN r.next ELSE @,
                                   !.last_handle  = IF @ = h THEN r.prev ELSE @]
<1>1. /\ handle \in [Handles -> HandleType \cup {FREED}] /\ file \in [Files -> FileType \cup {FREED}]
      /\ f \in Opened(file) /\ f \in Files /\ h \in Handles /\ h \in Members(f, handle)
  BY DEF VfsShape, Opened, InUse, Members
<1>2. PICK s : Lists(s, f, handle, file)
  BY <1>1 DEF AllListed
<1>3. /\ s \in Seq(Handles) /\ Len(s) \in Nat \ {0}
      /\ \A k \in 1 .. Len(s) : s[k] \in Members(f, handle) /\ s[k] \in Handles
      /\ \A x \in Members(f, handle) : \E k \in 1 .. Len(s) : s[k] = x
      /\ \A m, n \in 1 .. Len(s) : s[m] = s[n] => m = n
      /\ file[f].first_handle = s[1] /\ file[f].last_handle = s[Len(s)]
  BY <1>2, PlacesOfList
<1>4. \A k \in 1 .. Len(s) : /\ handle[s[k]].next = IF k = Len(s) THEN NULL ELSE s[k + 1]
                             /\ handle[s[k]].prev = IF k = 1 THEN NULL ELSE s[k - 1]
  BY <1>2 DEF Lists
<1>5. /\ r.next \in Members(f, handle) \cup {NULL} /\ r.prev \in Members(f, handle) \cup {NULL}
  <2>1. PICK k \in 1 .. Len(s) : s[k] = h
    BY <1>1, <1>3
  <2>2. k # Len(s) => k + 1 \in 1 .. Len(s)
    BY <1>3
  <2>3. k # 1 => k - 1 \in 1 .. Len(s)
    BY <1>3
  <2>4. r.next \in Members(f, handle) \cup {NULL}
    BY <1>3, <1>4, <2>1, <2>2
  <2>5. r.prev \in Members(f, handle) \cup {NULL}
    BY <1>3, <1>4, <2>1, <2>3
  <2> QED BY <2>4, <2>5
<1>6. \A x \in Handles :
        handle'[x] = IF x = h THEN FREED
                     ELSE IF x \notin {r.prev, r.next} THEN handle[x]
                     ELSE [handle[x] EXCEPT !.next = IF x = r.prev THEN r.next ELSE @,
                                            !.prev = IF x = r.next THEN r.prev ELSE @]
  BY DEF CloseHandle
<1>7. /\ IsLastHandle(h) \/ ~IsLastHandle(h)
      /\ IsLastHandle(h) => /\ open_files' = [open_files EXCEPT ![file[f].file_i] = NULL]
                            /\ file' = [file EXCEPT ![f] = FREED]
      /\ ~IsLastHandle(h) =>
           /\ file' = [file EXCEPT ![f] = ends]
           /\ open_files' = open_files
  BY DEF CloseHandle
<1>8. DOMAIN handle' = Handles /\ handle' = [x \in Handles |-> handle'[x]]
  BY DEF CloseHandle
<1> HIDE DEF r, ends
<1>9. ASSUME NEW x \in InUse(handle), x # h
      PROVE  /\ handle'[x] \in HandleType /\ Same(x, handle, handle')
             /\ handle'[x].next = IF x = r.prev THEN r.next ELSE handle[x].next
             /\ handle'[x].prev = IF x = r.next THEN r.prev ELSE handle[x].prev
  <2>1. /\ x \in Handles /\ handle[x] \in HandleType
        /\ r.next \in Handles \cup {NULL} /\ r.prev \in Handles \cup {NULL}
    BY HandleKnown DEF r
  <2>2. CASE x \notin {r.prev, r.next}
    BY <1>6, <1>9, <2>1, <2>2 DEF Same
  <2>3. CASE x \in {r.prev, r.next}
    <3>1. handle'[x] = [handle[x] EXCEPT !.next = IF x = r.prev THEN r.next ELSE @,
                                         !.prev = IF x = r.next THEN r.prev ELSE @]
      BY <1>6, <1>9, <2>1, <2>3
    <3> QED BY <2>1, <3>1 DEF HandleType, Same
  <2> QED BY <2>2, <2>3
<1>10. ASSUME NEW x \in Handles, x \notin InUse(handle) PROVE handle'[x] = FREED
  <2>1. x # h /\ x \notin {r.prev, r.next}
    BY <1>5, <1>10, Marks DEF Members
  <2> QED BY <1>6, <1>10, <2>1 DEF InUse
<1>11. handle'[h] = FREED
  BY <1>1, <1>6
<1>12. handle' \in [Handles -> HandleType \cup {FREED}]
  <2>1. \A x \in Handles : handle'[x] \in HandleType \cup {FREED}
    BY <1>9, <1>10, <1>11
  <2> QED BY <1>8, <2>1
<1>13. InUse(handle') = InUse(handle) \ {h}
  <2>1. \A x \in Handles : handle'[x] # FREED <=> x \in InUse(handle) /\ x # h
    BY <1>9, <1>10, <1>11, Marks
  <2> QED BY <2>1 DEF InUse
<1>14. \A x \in InUse(handle') : Same(x, handle, handle')
  BY <1>9, <1>13
<1>15. \A g : Members(g, handle') = Members(g, handle) \ {h}
  BY <1>13, <1>14 DEF Members, Same
<1>16. \A g \in Files : g # f => file'[g] = file[g]
  BY <1>1, <1>7
<1>17. ASSUME NEW g \in Opened(file), g # f PROVE \E t : Lists(t, g, handle', file')
  <2>1. PICK t : Lists(t, g, handle, file)
    BY DEF AllListed
  <2>2. \A x \in Members(g, handle) : x \in InUse(handle) /\ x # h /\ x # r.prev /\ x # r.next
    BY <1>1, <1>5, <1>17, Marks DEF Members, InUse
  <2>3. Members(g, handle') = Members(g, handle)
    BY <1>15, <2>2
  <2>4. \A x \in Members(g, handle) : handle'[x].next = handle[x].next /\ handle'[x].prev = handle[x].prev
    BY <1>9, <2>2
  <2>5. file'[g] = file[g]
    BY <1>16, <1>17 DEF Opened
  <2>6. Lists(t, g, handle', file')
    BY <2>1, <2>3, <2>4, <2>5, ListKept
  <2> QED BY <2>6
<1>18. CASE IsLastHandle(h)
  <2>1. s[1] = h /\ handle[h].next = NULL
    BY <1>3, <1>18 DEF IsLastHandle
  <2>2. Len(s) = 1
    <3> DEFINE n == Len(s)
    <3>1. n \in Nat \ {0}
      BY <1>3
    <3> HIDE DEF n
    <3>2. 1 \in 1 .. n /\ (1 # n => 2 \in 1 .. n)
      BY <3>1
    <3>3. 1 \in 1 .. Len(s) /\ (1 # Len(s) => 2 \in 1 .. Len(s))
      BY <3>2 DEF n
    <3>4. 1 # Len(s) => handle[h].next = s[2] /\ s[2] # NULL
      BY <1>3, <1>4, <2>1, <3>3, Marks
    <3> QED BY <2>1, <3>4
  <2>3. Members(f, handle) = {h}
    <3>1. \A x \in Members(f, handle) : x = h
      BY <1>3, <2>1, <2>2
    <3> QED BY <1>1, <3>1
  <2>4. file' = [file EXCEPT ![f] = FREED] /\ open_files' = [open_files EXCEPT ![file[f].file_i] = NULL]
    BY <1>7, <1>18
  <2>5. file' \in [Files -> FileType \cup {FREED}] /\ Opened(file') = Opened(file) \ {f}
    BY <1>1, <2>4 DEF Opened
  <2>6. \A g \in Opened(file') : file'[g] = file[g]
    BY <1>16, <2>5 DEF Opened
  <2>7. AllListed(handle', file')
    BY <1>17, <2>5 DEF AllListed
  <2> QED BY <1>12, <1>13, <1>14, <2>3, <2>4, <2>5, <2>6, <2>7
<1>19. CASE ~IsLastHandle(h)
  <2>1. ~(file[f].first_handle = h /\ handle[h].next = NULL)
    BY <1>19 DEF IsLastHandle
  <2>2. file' = [file EXCEPT ![f] = ends] /\ open_files' = open_files
    BY <1>7, <1>19
  <2>3. file[f] \in FileType /\ r.next \in Handles \cup {NULL} /\ r.prev \in Handles \cup {NULL}
    BY <1>1, FileKnown, HandleKnown DEF r
  <2>4. file'[f] = ends
    BY <1>1, <2>2
  <2>5. /\ file'[f] \in FileType /\ file'[f].file_i = file[f].file_i /\ file'[f].path = file[f].path
        /\ file'[f].first_handle = IF file[f].first_handle = h THEN r.next ELSE file[f].first_handle
        /\ file'[f].last_handle = IF file[f].last_handle = h THEN r.prev ELSE file[f].last_handle
    BY <2>3, <2>4 DEF FileType, ends
  <2>6. file' \in [Files -> FileType \cup {FREED}]
    BY <1>1, <2>2, <2>4, <2>5
  <2>7. Opened(file') = Opened(file)
    BY <1>1, <1>16, <2>5, Marks DEF Opened
  <2>8. \A g \in Opened(file') : file'[g].file_i = file[g].file_i /\ file'[g].path = file[g].path
    BY <1>16, <2>5 DEF Opened
  <2>9. \E t : Lists(t, f, handle', file')
    <3>1. Members(f, handle') = Members(f, handle) \ {h}
      BY <1>15
    <3>2. \A x \in Members(f, handle) \ {h} :
            /\ handle'[x].next = IF x = handle[h].prev THEN handle[h].next ELSE handle[x].next
            /\ handle'[x].prev = IF x = handle[h].next THEN handle[h].prev ELSE handle[x].prev
      BY <1>9 DEF Members, r
    <3>3. /\ file'[f].first_handle = IF file[f].first_handle = h THEN handle[h].next ELSE file[f].first_handle
          /\ file'[f].last_handle = IF file[f].last_handle = h THEN handle[h].prev ELSE file[f].last_handle
      BY <2>5 DEF r
    <3> QED BY <1>1, <1>2, <2>1, <3>1, <3>2, <3>3, Marks, ListShrinks
  <2>10. AllListed(handle', file')
    BY <1>17, <2>7, <2>9 DEF AllListed
  <2>11. Members(f, handle) # {h}
    <3>1. SUFFICES ASSUME Members(f, handle) = {h} PROVE FALSE
      OBVIOUS
    <3>2. 1 \in 1 .. Len(s) /\ Len(s) \in 1 .. Len(s)
      BY <1>3
    <3>3. s[1] = h /\ s[Len(s)] = h
      BY <1>3, <3>1, <3>2
    <3>4. Len(s) = 1
      BY <1>3, <3>2, <3>3
    <3>5. handle[h].next = NULL
      BY <1>4, <3>2, <3>3
    <3> QED BY <1>3, <2>1, <3>3, <3>5
  <2> QED BY <1>12, <1>13, <1>14, <2>2, <2>6, <2>7, <2>8, <2>10, <2>11
<1> QED BY <1>18, <1>19

-----------------------------------------------------------------------------
(* Free places *)

LEMMA LowestIsOne ==
  ASSUME NEW S, S \subseteq Nat, S # {}
  PROVE  Lowest(S) \in S
<1>1. PICK n \in S : \A m \in S : n <= m
  BY LeastNumber
<1> QED BY <1>1 DEF Lowest

LEMMA FreePlaces ==
  ASSUME VfsShape
  PROVE  /\ Vacant(handles) = {i \in 0 .. max_file_handles - 1 : handles[i] = NULL}
         /\ Vacant(open_files) = {i \in 0 .. max_open_files - 1 : open_files[i] = NULL}
         /\ \A p \in Processes : Vacant(files[p]) = {fd \in Fds : files[p][fd] = NULL}
         /\ \A S : S \subseteq Vacant(handles) \/ S \subseteq Vacant(open_files) => S \subseteq Nat
         /\ \A p \in Processes : \A S : S \subseteq Vacant(files[p]) => S \subseteq Nat
<1>1. /\ DOMAIN handles = 0 .. max_file_handles - 1 /\ DOMAIN open_files = 0 .. max_open_files - 1
      /\ \A p \in Processes : DOMAIN files[p] = Fds
  BY DEF VfsShape
<1>2. /\ 0 .. max_file_handles - 1 \subseteq Nat /\ 0 .. max_open_files - 1 \subseteq Nat /\ Fds \subseteq Nat
  BY VfsAssumption DEF Fds
<1> QED BY <1>1, <1>2 DEF Vacant

LEMMA FdIsFree ==
  ASSUME VfsShape, NEW p \in Processes, NEW fd, FdGiven(p, fd)
  PROVE  fd \in Fds /\ files[p][fd] = NULL
BY FreePlaces DEF FdGiven

\* The first and the second free place, where there are two.
LEMMA TwoPlaces ==
  ASSUME NEW S, NEW n \in Nat, S \subseteq 0 .. n - 1, Cardinality(S) >= 2
  PROVE  /\ Lowest(S) \in S
         /\ Lowest(S \ {Lowest(S)}) \in S \ {Lowest(S)}
<1>1. IsFiniteSet(S) /\ S \subseteq Nat
  <2>1. IsFiniteSet(0 .. n - 1)
    BY FS_Interval
  <2>2. IsFiniteSet(S)
    BY <2>1, FS_Subset
  <2>3. 0 .. n - 1 \subseteq Nat
    OBVIOUS
  <2> QED BY <2>2, <2>3
<1>2. S # {}
  BY FS_EmptySet
<1>3. Lowest(S) \in S
  BY <1>1, <1>2, LowestIsOne
<1>4. S \ {Lowest(S)} # {}
  <2> SUFFICES ASSUME S = {Lowest(S)} PROVE FALSE
    BY <1>3
  <2>1. Cardinality({Lowest(S)}) = 1
    BY FS_Singleton
  <2> QED BY <2>1
<1>5. S \ {Lowest(S)} \subseteq Nat
  BY <1>1
<1> QED BY <1>3, <1>4, <1>5, LowestIsOne

-----------------------------------------------------------------------------
(* The tables and lists implement descriptors *)

LEMMA TableIs ==
  ASSUME NEW p \in Processes, NEW fd \in Fds
  PROVE  Table[p][fd] = IF files[p][fd] = NULL THEN NULL ELSE handle[files[p][fd]].file
BY DEF Table

LEMMA NameIs ==
  ASSUME NEW f \in Files
  PROVE  Name[f] = IF file[f] = FREED THEN NULL ELSE file[f].path
BY DEF Name

\* A descriptor leads to an open file; and every open file is led to.
LEMMA TableLeads ==
  ASSUME VfsInv
  PROVE  /\ \A p \in Processes, fd \in Fds : files[p][fd] # NULL =>
              /\ files[p][fd] \in InUse(handle) /\ Table[p][fd] = handle[files[p][fd]].file
              /\ Table[p][fd] \in Opened(file) /\ Table[p][fd] # NULL
         /\ \A p \in Processes, fd \in Fds : files[p][fd] = NULL <=> Table[p][fd] = NULL
         /\ D!Referred(Table) = Opened(file)
<1>1. VfsShape /\ Tabled(handles, files, handle)
      /\ \A x \in InUse(handle) : handle[x].file \in Opened(file) /\ handle[x].file # NULL
  BY Marks DEF VfsInv, Opened
<1>2. ASSUME NEW p \in Processes, NEW fd \in Fds, files[p][fd] # NULL
      PROVE  /\ files[p][fd] \in InUse(handle) /\ Table[p][fd] = handle[files[p][fd]].file
             /\ Table[p][fd] \in Opened(file) /\ Table[p][fd] # NULL
  <2>1. files[p][fd] \in InUse(handle)
    BY <1>1, <1>2 DEF Tabled
  <2> QED BY <1>1, <1>2, <2>1, TableIs
<1>3. \A p \in Processes, fd \in Fds : files[p][fd] = NULL <=> Table[p][fd] = NULL
  BY <1>2, TableIs
<1>4. ASSUME NEW f \in Opened(file)
      PROVE  \E p \in Processes, fd \in Fds : Table[p][fd] = f /\ f # NULL
  <2>1. PICK s : Lists(s, f, handle, file)
    BY DEF VfsInv, AllListed
  <2>2. s[1] \in Members(f, handle)
    <3>1. 1 \in 1 .. Len(s)
      BY <2>1, PlacesOfList
    <3> QED BY <2>1, <3>1, PlacesOfList
  <2> DEFINE x == s[1]
  <2>3. x \in InUse(handle) /\ handle[x].file = f
    BY <2>2 DEF Members
  <2> HIDE DEF x
  <2>4. Placed(x, handle) /\ files[handle[x].proc][handle[x].procfd] = x /\ x # NULL
    BY <1>1, <2>3, HandleKnown, Marks DEF Tabled
  <2>5. Table[handle[x].proc][handle[x].procfd] = f /\ f # NULL
    BY <1>2, <2>3, <2>4 DEF Placed
  <2> QED BY <2>4, <2>5 DEF Placed
<1>5. D!Referred(Table) = Opened(file)
  <2>1. ASSUME NEW f \in D!Referred(Table) PROVE f \in Opened(file)
    <3>1. PICK p \in Processes, fd \in Fds : f = Table[p][fd] /\ f # NULL
      BY <2>1 DEF D!Referred
    <3> QED BY <1>2, <1>3, <3>1
  <2>2. ASSUME NEW f \in Opened(file) PROVE f \in D!Referred(Table)
    BY <1>4 DEF D!Referred
  <2> QED BY <2>1, <2>2
<1> QED BY <1>2, <1>3, <1>5

LEMMA TableLeadsNext ==
  VfsInv' =>
    /\ \A p \in Processes, fd \in Fds : files'[p][fd] # NULL =>
         /\ files'[p][fd] \in InUse(handle') /\ Table'[p][fd] = handle'[files'[p][fd]].file
         /\ Table'[p][fd] \in Opened(file') /\ Table'[p][fd] # NULL
    /\ \A p \in Processes, fd \in Fds : files'[p][fd] = NULL <=> Table'[p][fd] = NULL
    /\ D!Referred(Table') = Opened(file')
<1>1. (VfsInv =>
         /\ \A p \in Processes, fd \in Fds : files[p][fd] # NULL =>
              /\ files[p][fd] \in InUse(handle) /\ Table[p][fd] = handle[files[p][fd]].file
              /\ Table[p][fd] \in Opened(file) /\ Table[p][fd] # NULL
         /\ \A p \in Processes, fd \in Fds : files[p][fd] = NULL <=> Table[p][fd] = NULL
         /\ D!Referred(Table) = Opened(file))'
  BY TableLeads, PTL
<1> QED BY <1>1

LEMMA TableIsNext ==
  /\ \A p \in Processes, fd \in Fds :
       Table'[p][fd] = IF files'[p][fd] = NULL THEN NULL ELSE handle'[files'[p][fd]].file
  /\ \A f \in Files : Name'[f] = IF file'[f] = FREED THEN NULL ELSE file'[f].path
BY DEF Table, Name

\* Two tables that agree on every descriptor, and two that agree but for one.
LEMMA TableKept ==
  ASSUME \A q \in Processes, e \in Fds : Table'[q][e] = Table[q][e]
  PROVE  Table' = Table
<1>1. /\ DOMAIN Table = Processes /\ DOMAIN Table' = Processes
      /\ \A q \in Processes : Table[q] = [e \in Fds |-> Table[q][e]] /\ Table'[q] = [e \in Fds |-> Table'[q][e]]
  BY DEF Table
<1>2. ASSUME NEW q \in Processes PROVE Table'[q] = Table[q]
  BY <1>1
<1>3. Table = [q \in Processes |-> Table[q]] /\ Table' = [q \in Processes |-> Table'[q]]
  BY DEF Table
<1> QED BY <1>2, <1>3

LEMMA TableEquals ==
  ASSUME NEW T, T = [q \in Processes |-> T[q]], \A q \in Processes : T[q] = [e \in Fds |-> T[q][e]],
         \A q \in Processes, e \in Fds : Table'[q][e] = T[q][e]
  PROVE  Table' = T
<1>1. /\ Table' = [q \in Processes |-> Table'[q]]
      /\ \A q \in Processes : Table'[q] = [e \in Fds |-> Table'[q][e]]
  BY DEF Table
<1>2. ASSUME NEW q \in Processes PROVE Table'[q] = T[q]
  BY <1>1
<1> QED BY <1>1, <1>2

LEMMA TableChanges ==
  ASSUME NEW p \in Processes, NEW fd \in Fds, NEW o,
         \A q \in Processes, e \in Fds : Table'[q][e] = IF q = p /\ e = fd THEN o ELSE Table[q][e]
  PROVE  Table' = [Table EXCEPT ![p][fd] = o]
<1> DEFINE T == [Table EXCEPT ![p][fd] = o]
<1>1. /\ Table = [q \in Processes |-> Table[q]]
      /\ \A q \in Processes : Table[q] = [e \in Fds |-> Table[q][e]] /\ DOMAIN Table[q] = Fds
  BY DEF Table
<1>2. /\ T = [q \in Processes |-> T[q]]
      /\ T[p] = [Table[p] EXCEPT ![fd] = o] /\ \A q \in Processes : q # p => T[q] = Table[q]
  BY <1>1
<1> HIDE DEF T
<1>3. T[p] = [e \in Fds |-> T[p][e]] /\ \A e \in Fds : T[p][e] = IF e = fd THEN o ELSE Table[p][e]
  BY <1>1, <1>2
<1>4. ASSUME NEW q \in Processes
      PROVE  T[q] = [e \in Fds |-> T[q][e]] /\ \A e \in Fds : Table'[q][e] = T[q][e]
  <2>1. CASE q = p
    BY <1>3, <2>1
  <2>2. CASE q # p
    BY <1>1, <1>2, <2>2
  <2> QED BY <2>1, <2>2
<1>5. Table' = T
  BY <1>2, <1>4, TableEquals
<1> QED BY <1>5 DEF T

\* The descriptor fd of p refers to the new handle h of the file f.
Refers(p, fd, h, f) ==
  /\ p \in Processes /\ fd \in Fds /\ h \in Handles
  /\ Joined(h, f) /\ handle'[h].file = f /\ files' = [files EXCEPT ![p][fd] = h]

LEMMA JoinedTable ==
  ASSUME VfsInv, NEW p, NEW fd, NEW h, NEW f, Refers(p, fd, h, f)
  PROVE  Table' = [Table EXCEPT ![p][fd] = f]
<1>1. files \in [Processes -> [Fds -> Handles \cup {NULL}]] /\ h # NULL
  BY Marks DEF VfsInv, VfsShape, Refers
<1>2. /\ p \in Processes /\ fd \in Fds /\ h \in Handles
      /\ Joined(h, f) /\ handle'[h].file = f /\ files' = [files EXCEPT ![p][fd] = h]
  BY DEF Refers
<1> USE <1>2
<1>3. ASSUME NEW q \in Processes, NEW e \in Fds
      PROVE  Table'[q][e] = IF q = p /\ e = fd THEN f ELSE Table[q][e]
  <2>1. files'[q][e] = IF q = p /\ e = fd THEN h ELSE files[q][e]
    BY <1>1
  <2>2. Table'[q][e] = IF files'[q][e] = NULL THEN NULL ELSE handle'[files'[q][e]].file
    BY TableIsNext
  <2>3. CASE q = p /\ e = fd
    BY <1>1, <2>1, <2>2, <2>3
  <2>4. CASE ~(q = p /\ e = fd)
    <3>1. files[q][e] # NULL => files[q][e] \in InUse(handle)
      BY TableLeads
    <3>2. files[q][e] # NULL => handle'[files[q][e]].file = handle[files[q][e]].file
      BY <3>1 DEF Joined, Same
    <3> QED BY <2>1, <2>2, <2>4, <3>2, TableIs
  <2> QED BY <2>3, <2>4
<1> QED BY <1>3, TableChanges

LEMMA NameKept ==
  ASSUME Opened(file') = Opened(file), \A g \in Opened(file) : file'[g].path = file[g].path
  PROVE  Name' = Name
<1>1. ASSUME NEW g \in Files PROVE Name'[g] = Name[g]
  BY TableIsNext, NameIs DEF Opened
<1>2. Name = [g \in Files |-> Name[g]] /\ Name' = [g \in Files |-> Name'[g]]
  BY DEF Name
<1> QED BY <1>1, <1>2

LEMMA NameGiven ==
  ASSUME NEW f \in Files, NEW path, f \notin Opened(file), Opened(file') = Opened(file) \cup {f},
         \A g \in Opened(file) : file'[g].path = file[g].path, file'[f].path = path
  PROVE  Name[f] = NULL /\ Name' = [Name EXCEPT ![f] = path]
<1>1. ASSUME NEW g \in Files PROVE Name'[g] = IF g = f THEN path ELSE Name[g]
  <2>1. CASE g = f
    BY <2>1, TableIsNext DEF Opened
  <2>2. CASE g # f
    BY <2>2, TableIsNext, NameIs DEF Opened
  <2> QED BY <2>1, <2>2
<1>2. Name = [g \in Files |-> Name[g]] /\ Name' = [g \in Files |-> Name'[g]]
  BY DEF Name
<1>3. Name[f] = NULL
  BY NameIs DEF Opened
<1> QED BY <1>1, <1>2, <1>3


-----------------------------------------------------------------------------
(* The calls keep the invariant *)

\* A descriptor fd of p gets a new handle h.
LEMMA HandleAdded ==
  ASSUME VfsInv, NEW p \in Processes, Running(p), NEW fd \in Fds, files[p][fd] = NULL,
         NEW i \in 0 .. max_file_handles - 1, handles[i] = NULL,
         NEW h \in Handles, handle[h] = FREED, NEW f, Joined(h, f),
         handle'[h].handle_i = i, handle'[h].file = f, handle'[h].proc = p, handle'[h].procfd = fd,
         handles' = [handles EXCEPT ![i] = h], files' = [files EXCEPT ![p][fd] = h],
         open_files' \in [0 .. max_open_files - 1 -> Files \cup {NULL}], Entered(open_files', file'),
         locked' = locked, UNCHANGED exitVars
  PROVE  VfsInv'
<1>1. VfsShape /\ Tabled(handles, files, handle) /\ Undisturbed
  BY DEF VfsInv
<1>2. /\ handles \in [0 .. max_file_handles - 1 -> Handles \cup {NULL}]
      /\ files \in [Processes -> [Fds -> Handles \cup {NULL}]]
  BY <1>1 DEF VfsShape
<1>3. /\ handles' \in [0 .. max_file_handles - 1 -> Handles \cup {NULL}]
      /\ \A j \in 0 .. max_file_handles - 1 : handles'[j] = IF j = i THEN h ELSE handles[j]
  BY <1>2
<1>4. /\ files' \in [Processes -> [Fds -> Handles \cup {NULL}]]
      /\ \A q \in Processes, e \in Fds : files'[q][e] = IF q = p /\ e = fd THEN h ELSE files[q][e]
  BY <1>2
<1>5. VfsShape'
  BY <1>1, <1>3, <1>4 DEF VfsShape, Joined, exitVars
<1>6. AllListed(handle', file')
  BY DEF Joined
<1>7. \A x \in InUse(handle') : handle'[x].file \in Opened(file') /\ handle'[x].proc \in alive'
  BY DEF VfsInv, Joined, Same, Running, exitVars
<1>8. Tabled(handles', files', handle')
  <2>1. h \notin InUse(handle) /\ NULL \notin Handles
    BY Marks DEF InUse
  <2>2. InUse(handle') = InUse(handle) \cup {h} /\ \A x \in InUse(handle) : Same(x, handle, handle')
    BY DEF Joined
  <2>3. \A x \in InUse(handle) : Same(x, handle, handle') /\ Placed(x, handle)
    BY <1>1, <2>2, HandleKnown
  <2>4. HandleEnters(handles, files, handle, handles', files', handle', h)
    BY <1>3, <1>4, <2>1, <2>2, <2>3 DEF HandleEnters, Placed
  <2> QED BY <1>1, <2>1, <2>4, TablesGrow
<1>9. Undisturbed'
  <2>1. \A v \in Processes : closing[v] # NULL => v # p
    BY <1>1 DEF Running, Undisturbed
  <2> QED BY <1>1, <1>4, <2>1 DEF Undisturbed, exitVars
<1> QED BY <1>5, <1>6, <1>7, <1>8, <1>9 DEF VfsInv

LEMMA OpenStep ==
  ASSUME VfsInv, NEW p \in Processes, NEW path \in Paths, NEW fd \in Fds, Open(p, path, fd)
  PROVE  VfsInv' /\ D!OpenPath(p, fd, path)
<1>1. VfsShape /\ AllListed(handle, file) /\ Entered(open_files, file)
  BY DEF VfsInv
<1>2. /\ Running(p) /\ FdGiven(p, fd) /\ Vacant(handles) # {} /\ locked' = locked /\ UNCHANGED exitVars
  BY DEF Open
<1>3. files[p][fd] = NULL
  BY <1>1, <1>2, FdIsFree
<1> DEFINE i == Lowest(Vacant(handles))
           n == Lowest(Vacant(open_files))
<1>4. PICK h \in Handles, f \in Files :
        /\ handle[h] = FREED
        /\ handles' = [handles EXCEPT ![i] = h]
        /\ files' = [files EXCEPT ![p][fd] = h]
        /\ \/ f \in Found(path) /\ Enter(h, NewHandle(i, f, p, fd), f) /\ UNCHANGED open_files
           \/ /\ Found(path) = {} /\ file[f] = FREED /\ Vacant(open_files) # {}
              /\ handle' = [handle EXCEPT ![h] = NewHandle(i, f, p, fd)]
              /\ open_files' = [open_files EXCEPT ![n] = f]
              /\ file' = [file EXCEPT ![f] =
                   [file_i |-> n, path |-> path, first_handle |-> h, last_handle |-> h]]
  BY DEF Open
<1>5. i \in 0 .. max_file_handles - 1 /\ handles[i] = NULL
  BY <1>1, <1>2, FreePlaces, LowestIsOne
<1> HIDE DEF i
<1> DEFINE r == NewHandle(i, f, p, fd)
<1>6. /\ r \in HandleType /\ r.handle_i = i /\ r.file = f /\ r.proc = p /\ r.procfd = fd
      /\ r.prev = NULL /\ r.next = NULL
  BY <1>5 DEF NewHandle, HandleType
<1> HIDE DEF r
<1>7. Table[p][fd] = NULL /\ \A g \in Files : Name[g] = path <=> g \in Found(path)
  BY <1>3, TableLeads, NameIs, Marks DEF Found
<1>8. CASE f \in Found(path) /\ Enter(h, r, f) /\ UNCHANGED open_files
  <2>1. f \in Opened(file)
    BY <1>8 DEF Found, Opened
  <2>2. /\ Joined(h, f)
        /\ handle'[h].handle_i = r.handle_i /\ handle'[h].file = f
        /\ handle'[h].proc = r.proc /\ handle'[h].procfd = r.procfd
    BY <1>1, <1>4, <1>6, <1>8, <2>1, EnterKeeps
  <2>3. Opened(file') = Opened(file)
    BY <2>1, <2>2 DEF Joined
  <2>4. Entered(open_files', file')
    BY <1>1, <1>8, <2>2, <2>3, EnteredKept DEF Joined
  <2>5. open_files' \in [0 .. max_open_files - 1 -> Files \cup {NULL}]
    BY <1>1, <1>8 DEF VfsShape
  <2>6. VfsInv'
    BY <1>2, <1>3, <1>4, <1>5, <1>6, <2>2, <2>4, <2>5, HandleAdded
  <2>7. Table' = [Table EXCEPT ![p][fd] = f]
    <3>1. Refers(p, fd, h, f)
      BY <1>4, <2>2 DEF Refers
    <3> QED BY <3>1, JoinedTable
  <2>8. Name' = Name
    BY <2>2, <2>3, NameKept DEF Joined
  <2>9. D!OpenPath(p, fd, path)
    BY <1>8, <1>7, <2>7, <2>8 DEF D!OpenPath, D!Empty
  <2> QED BY <2>6, <2>9
<1>9. CASE /\ Found(path) = {} /\ file[f] = FREED /\ Vacant(open_files) # {}
           /\ handle' = [handle EXCEPT ![h] = r]
           /\ open_files' = [open_files EXCEPT ![n] = f]
           /\ file' = [file EXCEPT ![f] =
                [file_i |-> n, path |-> path, first_handle |-> h, last_handle |-> h]]
  <2>1. n \in 0 .. max_open_files - 1 /\ open_files[n] = NULL
    BY <1>1, <1>9, FreePlaces, LowestIsOne
  <2> HIDE DEF n
  <2> DEFINE q == [file_i |-> n, path |-> path, first_handle |-> h, last_handle |-> h]
  <2>2. q \in FileType /\ q.first_handle = h /\ q.last_handle = h /\ q.file_i = n /\ q.path = path
    BY <2>1 DEF FileType
  <2>3. handle' = [handle EXCEPT ![h] = r] /\ file' = [file EXCEPT ![f] = q]
    BY <1>9
  <2> HIDE DEF q
  <2>4. \A x \in InUse(handle) : handle[x].file \in Opened(file)
    BY DEF VfsInv
  <2>5. Joined(h, f) /\ handle'[h] = r /\ file'[f] = q
    <3>1. NewFile(h, r, f, q)
      BY <1>4, <1>6, <1>9, <2>2, <2>3 DEF NewFile
    <3> QED BY <1>1, <2>4, <3>1, NewFileListed
  <2>6. open_files' \in [0 .. max_open_files - 1 -> Files \cup {NULL}]
        /\ \A j \in 0 .. max_open_files - 1 : open_files'[j] = IF j = n THEN f ELSE open_files[j]
    BY <1>1, <1>9 DEF VfsShape
  <2>7. Entered(open_files', file')
    <3>1. f \notin Opened(file) /\ Opened(file') = Opened(file) \cup {f}
      BY <1>9, <2>5 DEF Joined, Opened
    <3>2. \A g \in Opened(file) : file'[g].file_i = file[g].file_i /\ file'[g].path = file[g].path
      BY <2>5 DEF Joined
    <3>3. \A g \in Opened(file) : file[g].path # path
      BY <1>9 DEF Found, Opened
    <3>4. \A g \in Opened(file) : /\ file'[g].file_i = file[g].file_i /\ file'[g].path = file[g].path
                                  /\ file[g].file_i \in 0 .. max_open_files - 1
      BY <1>1, <3>2, FileKnown
    <3>5. file'[f].file_i = n /\ file'[f].path = path
      BY <2>2, <2>5
    <3>6. \A g \in Opened(file) : file[g].path = file'[f].path => file'[f].path = PIPE
      BY <3>3, <3>5
    <3>7. Entered(open_files, file) /\ NULL \notin Files
      BY <1>1, Marks
    <3>8. \A j \in 0 .. max_open_files - 1 : open_files'[j] = IF j = n THEN f ELSE open_files[j]
      BY <2>6
    <3> QED BY <2>1, <3>1, <3>4, <3>5, <3>6, <3>7, <3>8, FileEnters
  <2>8. handle'[h].handle_i = i /\ handle'[h].file = f /\ handle'[h].proc = p /\ handle'[h].procfd = fd
    BY <1>6, <2>5
  <2>9. VfsInv'
    BY <1>2, <1>3, <1>4, <1>5, <2>5, <2>6, <2>7, <2>8, HandleAdded
  <2>10. Table' = [Table EXCEPT ![p][fd] = f]
    <3>1. Refers(p, fd, h, f)
      BY <1>4, <2>5, <2>8 DEF Refers
    <3> QED BY <3>1, JoinedTable
  <2>11. Name[f] = NULL /\ Name' = [Name EXCEPT ![f] = path]
    <3>1. f \notin Opened(file) /\ Opened(file') = Opened(file) \cup {f} /\ file'[f].path = path
          /\ \A g \in Opened(file) : file'[g].path = file[g].path
      BY <1>9, <2>2, <2>5 DEF Joined, Opened
    <3> QED BY <3>1, NameGiven
  <2>12. ~ \E g \in Files : Name[g] = path
    BY <1>9, <1>7
  <2>13. D!OpenPath(p, fd, path)
    BY <1>7, <2>10, <2>11, <2>12 DEF D!OpenPath, D!Empty
  <2> QED BY <2>9, <2>13
<1> QED BY <1>4, <1>8, <1>9 DEF r

LEMMA DuplicateStep ==
  ASSUME VfsInv, NEW p \in UserProcs, NEW dest \in Fds, NEW fd \in Fds, DuplicateLast(p, dest, fd)
  PROVE  VfsInv' /\ D!Duplicate(p, fd, dest)
<1> DEFINE src == files[p][fd]
           i == Lowest(Vacant(handles))
           f == handle[src].file
           r == [handle[src] EXCEPT !.handle_i = i, !.procfd = dest]
<1>1. VfsShape /\ AllListed(handle, file) /\ Entered(open_files, file) /\ Tabled(handles, files, handle)
      /\ p \in Processes
  BY DEF VfsInv, Processes
<1>2. /\ Running(p) /\ FdGiven(p, dest) /\ Vacant(handles) # {} /\ src # NULL
      /\ UNCHANGED <<open_files, exitVars>> /\ handle[src].next = NULL
  BY DEF DuplicateLast, Duplicate
<1>3. files[p][dest] = NULL
  BY <1>1, <1>2, FdIsFree
<1>4. PICK h \in Handles :
        /\ handle[h] = FREED /\ Enter(h, r, f)
        /\ handles' = [handles EXCEPT ![i] = h]
        /\ files' = [files EXCEPT ![p][dest] = h]
        /\ locked' = IF src \in locked THEN locked \cup {h} ELSE locked
  BY DEF DuplicateLast, Duplicate
<1>5. i \in 0 .. max_file_handles - 1 /\ handles[i] = NULL
  BY <1>1, <1>2, FreePlaces, LowestIsOne
<1>6. src \in InUse(handle) /\ handle[src].proc = p
  BY <1>1, <1>2 DEF Tabled
<1>7. f \in Opened(file) /\ handle[src] \in HandleType
  BY <1>1, <1>6, HandleKnown DEF VfsInv
<1>8. locked' = locked
  BY <1>4 DEF VfsInv, Undisturbed
<1> HIDE DEF i, src
<1>9. /\ r \in HandleType /\ r.handle_i = i /\ r.file = f /\ r.proc = p /\ r.procfd = dest
      /\ r.next = NULL
  BY <1>2, <1>5, <1>6, <1>7 DEF HandleType
<1> HIDE DEF r, f
<1>10. /\ Joined(h, f)
       /\ handle'[h].handle_i = i /\ handle'[h].file = f
       /\ handle'[h].proc = p /\ handle'[h].procfd = dest
  BY <1>1, <1>4, <1>7, <1>9, EnterKeeps
<1>11. Opened(file') = Opened(file)
  BY <1>7, <1>10 DEF Joined
<1>12. Entered(open_files', file')
  BY <1>1, <1>2, <1>10, <1>11, EnteredKept DEF Joined
<1>13. open_files' \in [0 .. max_open_files - 1 -> Files \cup {NULL}] /\ UNCHANGED exitVars
  BY <1>1, <1>2 DEF VfsShape
<1>14. VfsInv'
  BY <1>1, <1>2, <1>3, <1>4, <1>5, <1>8, <1>10, <1>12, <1>13, HandleAdded
<1>15. Table' = [Table EXCEPT ![p][dest] = f] /\ Name' = Name
  <2>1. Refers(p, dest, h, f)
    BY <1>1, <1>4, <1>10 DEF Refers
  <2>2. Table' = [Table EXCEPT ![p][dest] = f]
    BY <2>1, JoinedTable
  <2>3. Name' = Name
    BY <1>10, <1>11, NameKept DEF Joined
  <2> QED BY <2>2, <2>3
<1>16. Table[p][fd] = f /\ Table[p][fd] # NULL /\ Table[p][dest] = NULL
  BY <1>1, <1>2, <1>3, TableLeads DEF f, src
<1>17. D!Duplicate(p, fd, dest)
  BY <1>15, <1>16 DEF D!Duplicate, D!Empty
<1> QED BY <1>14, <1>17

LEMMA MakePipeStep ==
  ASSUME VfsInv, NEW p \in UserProcs, MakePipe(p)
  PROVE  VfsInv' /\ \E n, m \in Fds : D!OpenPipe(p, n, m)
<1> DEFINE n   == Lowest(Vacant(open_files))
           i   == Lowest(Vacant(handles))
           o   == Lowest(Vacant(handles) \ {i})
           ifd == Lowest(Vacant(files[p]) \ Std)
           ofd == Lowest(Vacant(files[p]) \ (Std \cup {ifd}))
<1>1. VfsShape /\ AllListed(handle, file) /\ Entered(open_files, file) /\ Tabled(handles, files, handle)
      /\ p \in Processes /\ Undisturbed
  BY DEF VfsInv, Processes
<1>2. /\ Running(p) /\ Cardinality(Vacant(handles)) >= 2 /\ Cardinality(Vacant(files[p]) \ Std) >= 2
      /\ Vacant(open_files) # {} /\ locked' = locked /\ UNCHANGED exitVars
  BY DEF MakePipe
<1>3. i \in Vacant(handles) /\ o \in Vacant(handles) \ {i}
  <2>1. Vacant(handles) \subseteq 0 .. max_file_handles - 1
    BY <1>1, FreePlaces
  <2> QED BY <1>2, <2>1, VfsAssumption, TwoPlaces
<1>4. ifd \in Vacant(files[p]) \ Std /\ ofd \in (Vacant(files[p]) \ Std) \ {ifd}
  <2>1. Vacant(files[p]) \ Std \subseteq 0 .. max_proc_files - 1
    BY <1>1, FreePlaces DEF Fds
  <2>2. Vacant(files[p]) \ (Std \cup {ifd}) = (Vacant(files[p]) \ Std) \ {ifd}
    OBVIOUS
  <2>3. max_proc_files \in Nat
    BY VfsAssumption
  <2> QED BY <1>2, <2>1, <2>2, <2>3, TwoPlaces
<1>5. n \in Vacant(open_files)
  BY <1>1, <1>2, FreePlaces, LowestIsOne
<1>6. PICK in \in Handles, out \in Handles, f \in Files :
        /\ handle[in] = FREED /\ handle[out] = FREED /\ in # out /\ file[f] = FREED
        /\ handle' = [handle EXCEPT ![in]  = [NewHandle(i, f, p, ifd) EXCEPT !.next = out],
                                    ![out] = [NewHandle(o, f, p, ofd) EXCEPT !.prev = in]]
        /\ file' = [file EXCEPT ![f] = [file_i |-> n, path |-> PIPE,
                                        first_handle |-> in, last_handle |-> out]]
        /\ open_files' = [open_files EXCEPT ![n] = f]
        /\ handles' = [handles EXCEPT ![i] = in, ![o] = out]
        /\ files' = [files EXCEPT ![p] = [@ EXCEPT ![ifd] = in, ![ofd] = out]]
  BY DEF MakePipe
<1> HIDE DEF n, i, o, ifd, ofd
<1>7. /\ i \in 0 .. max_file_handles - 1 /\ handles[i] = NULL
      /\ o \in 0 .. max_file_handles - 1 /\ handles[o] = NULL /\ i # o
      /\ ifd \in Fds /\ files[p][ifd] = NULL /\ ofd \in Fds /\ files[p][ofd] = NULL /\ ifd # ofd
      /\ n \in 0 .. max_open_files - 1 /\ open_files[n] = NULL
  BY <1>1, <1>3, <1>4, <1>5, FreePlaces
<1> DEFINE r1 == [NewHandle(i, f, p, ifd) EXCEPT !.next = out]
           r2 == [NewHandle(o, f, p, ofd) EXCEPT !.prev = in]
           q == [file_i |-> n, path |-> PIPE, first_handle |-> in, last_handle |-> out]
<1>8. /\ r1 \in HandleType /\ r1.handle_i = i /\ r1.file = f /\ r1.proc = p /\ r1.procfd = ifd
      /\ r1.prev = NULL /\ r1.next = out
      /\ r2 \in HandleType /\ r2.handle_i = o /\ r2.file = f /\ r2.proc = p /\ r2.procfd = ofd
      /\ r2.prev = in /\ r2.next = NULL
      /\ q \in FileType /\ q.first_handle = in /\ q.last_handle = out /\ q.file_i = n /\ q.path = PIPE
  BY <1>1, <1>7 DEF NewHandle, HandleType, FileType
<1>9. handle' = [handle EXCEPT ![in] = r1, ![out] = r2] /\ file' = [file EXCEPT ![f] = q]
  BY <1>6
<1> HIDE DEF r1, r2, q
<1>10. /\ handle' \in [Handles -> HandleType \cup {FREED}] /\ file' \in [Files -> FileType \cup {FREED}]
       /\ InUse(handle') = InUse(handle) \cup {in, out} /\ in \notin InUse(handle) /\ out \notin InUse(handle)
       /\ \A x \in InUse(handle) : handle'[x] = handle[x]
       /\ Opened(file') = Opened(file) \cup {f} /\ f \notin Opened(file)
       /\ \A g \in Opened(file) : file'[g] = file[g]
       /\ AllListed(handle', file')
       /\ handle'[in] = r1 /\ handle'[out] = r2 /\ file'[f] = q
  <2>1. \A x \in InUse(handle) : handle[x].file \in Opened(file)
    BY DEF VfsInv
  <2>2. NewPipe(in, r1, out, r2, f, q)
    BY <1>6, <1>8, <1>9 DEF NewPipe
  <2> QED BY <1>1, <2>1, <2>2, PipeListed
<1>11. /\ handles' \in [0 .. max_file_handles - 1 -> Handles \cup {NULL}]
       /\ \A j \in 0 .. max_file_handles - 1 : handles'[j] = IF j = i THEN in ELSE IF j = o THEN out ELSE handles[j]
  BY <1>1, <1>6, <1>7 DEF VfsShape
<1>12. /\ files' \in [Processes -> [Fds -> Handles \cup {NULL}]]
       /\ \A x \in Processes, e \in Fds :
            files'[x][e] = IF x = p THEN IF e = ifd THEN in ELSE IF e = ofd THEN out ELSE files[x][e]
                           ELSE files[x][e]
  <2> DEFINE t == [files[p] EXCEPT ![ifd] = in, ![ofd] = out]
  <2>1. files \in [Processes -> [Fds -> Handles \cup {NULL}]] /\ files' = [files EXCEPT ![p] = t]
    BY <1>1, <1>6 DEF VfsShape
  <2>2. /\ t \in [Fds -> Handles \cup {NULL}]
        /\ \A e \in Fds : t[e] = IF e = ifd THEN in ELSE IF e = ofd THEN out ELSE files[p][e]
    BY <1>1, <1>7, <2>1
  <2> HIDE DEF t
  <2> QED BY <1>1, <2>1, <2>2
<1>13. /\ open_files' \in [0 .. max_open_files - 1 -> Files \cup {NULL}]
       /\ \A j \in 0 .. max_open_files - 1 : open_files'[j] = IF j = n THEN f ELSE open_files[j]
  BY <1>1, <1>6, <1>7 DEF VfsShape
<1>14. VfsShape'
  BY <1>1, <1>2, <1>10, <1>11, <1>12, <1>13 DEF VfsShape, exitVars
<1>15. \A x \in InUse(handle') : handle'[x].file \in Opened(file') /\ handle'[x].proc \in alive'
  BY <1>2, <1>8, <1>10 DEF VfsInv, Running, exitVars
<1>16. Tabled(handles', files', handle')
  <2> DEFINE hs1 == [handles EXCEPT ![i] = in]
             fs1 == [files EXCEPT ![p] = [@ EXCEPT ![ifd] = in]]
             hd1 == [handle EXCEPT ![in] = r1]
  <2>1. \A j \in 0 .. max_file_handles - 1 : hs1[j] = IF j = i THEN in ELSE handles[j]
    BY <1>1, <1>7 DEF VfsShape
  <2>2. \A x \in Processes, e \in Fds : fs1[x][e] = IF x = p /\ e = ifd THEN in ELSE files[x][e]
    BY <1>1, <1>7 DEF VfsShape
  <2>3. hd1[in] = r1 /\ \A x \in Handles : x # in => hd1[x] = handle[x]
    BY <1>1 DEF VfsShape
  <2> HIDE DEF hs1, fs1, hd1
  <2>4. InUse(hd1) = InUse(handle) \cup {in}
    BY <1>8, <2>3, Marks DEF InUse
  <2>5. in \notin InUse(handle) /\ NULL \notin Handles
    BY <1>10, Marks
  <2>6. \A x \in InUse(handle) : Same(x, handle, hd1) /\ Placed(x, handle)
    <3> SUFFICES ASSUME NEW x \in InUse(handle) PROVE Same(x, handle, hd1) /\ Placed(x, handle)
      OBVIOUS
    <3>1. x \in Handles /\ x # in /\ Placed(x, handle)
      BY <1>1, <2>5, HandleKnown
    <3> QED BY <2>3, <3>1 DEF Same
  <2>7. hd1[in].handle_i = i /\ hd1[in].proc = p /\ hd1[in].procfd = ifd
    BY <1>8, <2>3
  <2>8. Tabled(hs1, fs1, hd1)
    <3>1. HandleEnters(handles, files, handle, hs1, fs1, hd1, in)
      BY <1>1, <1>7, <2>1, <2>2, <2>4, <2>5, <2>6, <2>7 DEF HandleEnters, Placed
    <3> QED BY <1>1, <2>5, <3>1, TablesGrow
  <2>9. InUse(handle') = InUse(hd1) \cup {out} /\ out \notin InUse(hd1)
    BY <1>6, <1>10, <2>4
  <2>10. \A x \in InUse(hd1) : Same(x, hd1, handle') /\ Placed(x, hd1)
    <3> SUFFICES ASSUME NEW x \in InUse(hd1) PROVE Same(x, hd1, handle') /\ Placed(x, hd1)
      OBVIOUS
    <3>1. CASE x = in
      BY <1>1, <1>7, <1>8, <1>10, <2>3, <3>1 DEF Same, Placed
    <3>2. CASE x # in
      <4>1. x \in InUse(handle) /\ x \in Handles /\ Placed(x, handle)
        BY <1>1, <2>4, <3>2, HandleKnown
      <4> QED BY <1>10, <2>3, <3>2, <4>1 DEF Same, Placed
    <3> QED BY <3>1, <3>2
  <2>11. handle'[out].handle_i = o /\ handle'[out].proc = p /\ handle'[out].procfd = ofd
    BY <1>8, <1>10
  <2>12. hs1[o] = NULL /\ fs1[p][ofd] = NULL
    BY <1>1, <1>7, <2>1, <2>2
  <2>13. \A j \in 0 .. max_file_handles - 1 : handles'[j] = IF j = o THEN out ELSE hs1[j]
    BY <1>7, <1>11, <2>1
  <2>14. \A x \in Processes, e \in Fds : files'[x][e] = IF x = p /\ e = ofd THEN out ELSE fs1[x][e]
    BY <1>7, <1>12, <2>2
  <2>15. HandleEnters(hs1, fs1, hd1, handles', files', handle', out)
    BY <1>1, <1>7, <2>9, <2>10, <2>11, <2>12, <2>13, <2>14 DEF HandleEnters, Placed
  <2> QED BY <2>5, <2>8, <2>15, TablesGrow
<1>17. Entered(open_files', file')
  <2>1. \A g \in Opened(file) : /\ file'[g].file_i = file[g].file_i /\ file'[g].path = file[g].path
                                /\ file[g].file_i \in 0 .. max_open_files - 1
    BY <1>1, <1>10, FileKnown
  <2>2. /\ f \notin Opened(file) /\ Opened(file') = Opened(file) \cup {f} /\ file'[f].file_i = n
        /\ file'[f].path = PIPE
    BY <1>8, <1>10
  <2>3. \A g \in Opened(file) : file[g].path = file'[f].path => file'[f].path = PIPE
    BY <2>2
  <2>4. \A j \in 0 .. max_open_files - 1 : open_files'[j] = IF j = n THEN f ELSE open_files[j]
    BY <1>13
  <2>5. Entered(open_files, file) /\ NULL \notin Files /\ n \in 0 .. max_open_files - 1 /\ open_files[n] = NULL
    BY <1>1, <1>7, Marks
  <2> QED BY <2>1, <2>2, <2>3, <2>4, <2>5, FileEnters
<1>18. Undisturbed'
  <2>1. \A v \in Processes : closing[v] # NULL => v # p
    BY <1>1, <1>2 DEF Running, Undisturbed
  <2> QED BY <1>1, <1>2, <1>12, <2>1 DEF Undisturbed, exitVars
<1>19. VfsInv'
  BY <1>10, <1>14, <1>15, <1>16, <1>17, <1>18 DEF VfsInv
<1>20. Table' = [Table EXCEPT ![p][ifd] = f, ![p][ofd] = f]
  <2> DEFINE T == [Table EXCEPT ![p][ifd] = f, ![p][ofd] = f]
  <2>1. /\ Table = [x \in Processes |-> Table[x]]
        /\ \A x \in Processes : Table[x] = [e \in Fds |-> Table[x][e]] /\ DOMAIN Table[x] = Fds
    BY DEF Table
  <2>2. /\ T = [x \in Processes |-> T[x]]
        /\ T[p] = [Table[p] EXCEPT ![ifd] = f, ![ofd] = f] /\ \A x \in Processes : x # p => T[x] = Table[x]
    BY <1>1, <2>1
  <2> HIDE DEF T
  <2>3. /\ T[p] = [e \in Fds |-> T[p][e]]
        /\ \A e \in Fds : T[p][e] = IF e = ifd THEN f ELSE IF e = ofd THEN f ELSE Table[p][e]
    BY <1>1, <1>7, <2>1, <2>2
  <2>4. ASSUME NEW x \in Processes, NEW e \in Fds PROVE Table'[x][e] = T[x][e]
    <3>1. Table'[x][e] = IF files'[x][e] = NULL THEN NULL ELSE handle'[files'[x][e]].file
      BY TableIsNext
    <3>2. CASE x = p /\ (e = ifd \/ e = ofd)
      <4>1. files'[x][e] \in {in, out} /\ in # NULL /\ out # NULL
        BY <1>6, <1>12, <3>2, Marks
      <4> QED BY <1>8, <1>10, <2>3, <3>1, <3>2, <4>1
    <3>3. CASE ~(x = p /\ (e = ifd \/ e = ofd))
      <4>1. files'[x][e] = files[x][e] /\ T[x][e] = Table[x][e]
        BY <1>12, <2>2, <2>3, <3>3
      <4>2. files[x][e] # NULL => files[x][e] \in InUse(handle)
        BY TableLeads
      <4> QED BY <1>10, <3>1, <4>1, <4>2, TableIs
    <3> QED BY <3>2, <3>3
  <2>5. \A x \in Processes : T[x] = [e \in Fds |-> T[x][e]]
    BY <2>1, <2>2, <2>3
  <2>6. Table' = T
    BY <2>2, <2>4, <2>5, TableEquals
  <2> QED BY <2>6 DEF T
<1>21. Name[f] = NULL /\ Name' = [Name EXCEPT ![f] = PIPE]
  <2>1. f \in Files /\ file'[f].path = PIPE /\ \A g \in Opened(file) : file'[g].path = file[g].path
    BY <1>6, <1>8, <1>10
  <2> QED BY <1>10, <2>1, NameGiven
<1>22. Table[p][ifd] = NULL /\ Table[p][ofd] = NULL
  BY <1>1, <1>7, TableLeads
<1>23. D!OpenPipe(p, ifd, ofd)
  BY <1>6, <1>7, <1>20, <1>21, <1>22 DEF D!OpenPipe, D!Empty
<1> QED BY <1>7, <1>19, <1>23

\* What a call that closes the descriptor fd of p does to tables and lists.
LEMMA HandleClosed ==
  ASSUME VfsInv, NEW p \in Processes, NEW fd \in Fds, files[p][fd] # NULL, CloseHandle(p, fd)
  PROVE  /\ handles' \in [0 .. max_file_handles - 1 -> Handles \cup {NULL}]
         /\ open_files' \in [0 .. max_open_files - 1 -> Files \cup {NULL}]
         /\ files' \in [Processes -> [Fds -> Handles \cup {NULL}]]
         /\ handle' \in [Handles -> HandleType \cup {FREED}]
         /\ file' \in [Files -> FileType \cup {FREED}]
         /\ \A q \in Processes, e \in Fds : files'[q][e] = IF q = p /\ e = fd THEN NULL ELSE files[q][e]
         /\ AllListed(handle', file')
         /\ \A x \in InUse(handle') : handle'[x].file \in Opened(file') /\ handle'[x].proc \in alive
         /\ Tabled(handles', files', handle')
         /\ Entered(open_files', file')
<1> DEFINE h == files[p][fd]
           f == handle[h].file
<1>1. VfsShape /\ AllListed(handle, file) /\ Entered(open_files, file) /\ Tabled(handles, files, handle)
      /\ \A x \in InUse(handle) : handle[x].file \in Opened(file) /\ handle[x].proc \in alive
  BY DEF VfsInv
<1>2. h \in InUse(handle) /\ handle[h].proc = p /\ handle[h].procfd = fd
  BY <1>1 DEF Tabled
<1>3. f \in Opened(file) /\ f \in Files /\ file[f].file_i \in 0 .. max_open_files - 1 /\ Placed(h, handle)
  BY <1>1, <1>2, FileKnown, HandleKnown
<1>4. /\ files' = [files EXCEPT ![p][fd] = NULL]
      /\ handles' = [handles EXCEPT ![handle[h].handle_i] = NULL]
  BY DEF CloseHandle, LeaveTables
<1>5. /\ handle' \in [Handles -> HandleType \cup {FREED}] /\ file' \in [Files -> FileType \cup {FREED}]
      /\ InUse(handle') = InUse(handle) \ {h}
      /\ \A x \in InUse(handle') : Same(x, handle, handle')
      /\ \A g \in Opened(file') : file'[g].file_i = file[g].file_i /\ file'[g].path = file[g].path
      /\ AllListed(handle', file')
      /\ \/ /\ Members(f, handle) = {h} /\ Opened(file') = Opened(file) \ {f}
            /\ open_files' = [open_files EXCEPT ![file[f].file_i] = NULL]
         \/ /\ Members(f, handle) # {h} /\ Opened(file') = Opened(file)
            /\ open_files' = open_files
  <2>1. \A x \in InUse(handle) : handle[x].file \in Opened(file)
    BY <1>1
  <2> QED BY <1>1, <1>2, <2>1, CloseKeeps
<1> HIDE DEF h, f
<1>6. /\ handles' \in [0 .. max_file_handles - 1 -> Handles \cup {NULL}]
      /\ \A j \in 0 .. max_file_handles - 1 : handles'[j] = IF j = handle[h].handle_i THEN NULL ELSE handles[j]
  BY <1>1, <1>4 DEF VfsShape
<1>7. /\ files' \in [Processes -> [Fds -> Handles \cup {NULL}]]
      /\ \A q \in Processes, e \in Fds : files'[q][e] = IF q = p /\ e = fd THEN NULL ELSE files[q][e]
  BY <1>1, <1>4 DEF VfsShape
<1>8. Tabled(handles', files', handle')
  <2>1. \A x \in InUse(handle) : Placed(x, handle)
    BY <1>1, HandleKnown
  <2>2. \A q \in Processes, e \in Fds :
          files'[q][e] = IF q = handle[h].proc /\ e = handle[h].procfd THEN NULL ELSE files[q][e]
    BY <1>2, <1>7
  <2>3. /\ \A j \in 0 .. max_file_handles - 1 :
             handles'[j] = IF j = handle[h].handle_i THEN NULL ELSE handles[j]
        /\ \A x \in InUse(handle') : Same(x, handle, handle')
        /\ InUse(handle') = InUse(handle) \ {h} /\ NULL \notin Handles
    BY <1>5, <1>6, Marks
  <2>4. HandleLeaves(handles, files, handle, handles', files', handle', h)
    BY <1>2, <2>1, <2>2, <2>3 DEF HandleLeaves
  <2> QED BY <1>1, <2>3, <2>4, TablesShrink
<1>9. CASE /\ Members(f, handle) = {h} /\ Opened(file') = Opened(file) \ {f}
           /\ open_files' = [open_files EXCEPT ![file[f].file_i] = NULL]
  <2>1. /\ open_files' \in [0 .. max_open_files - 1 -> Files \cup {NULL}]
        /\ \A j \in 0 .. max_open_files - 1 : open_files'[j] = IF j = file[f].file_i THEN NULL ELSE open_files[j]
    BY <1>1, <1>9 DEF VfsShape
  <2>2. \A g \in Opened(file) : file[g].file_i \in 0 .. max_open_files - 1
    BY <1>1, FileKnown
  <2>3. Entered(open_files', file')
    <3>1. \A j \in 0 .. max_open_files - 1 : open_files'[j] = IF j = file[f].file_i THEN NULL ELSE open_files[j]
      BY <2>1
    <3>2. \A g \in Opened(file') : file'[g].file_i = file[g].file_i /\ file'[g].path = file[g].path
      BY <1>5
    <3>3. Entered(open_files, file) /\ f \in Opened(file) /\ Opened(file') = Opened(file) \ {f}
      BY <1>1, <1>3, <1>9
    <3> QED BY <2>2, <3>1, <3>2, <3>3, FileLeaves
  <2>4. \A x \in InUse(handle') : handle'[x].file \in Opened(file') /\ handle'[x].proc \in alive
    BY <1>1, <1>5, <1>9 DEF Members, Same
  <2> QED BY <1>5, <1>6, <1>7, <1>8, <2>1, <2>3, <2>4
<1>10. CASE Opened(file') = Opened(file) /\ open_files' = open_files
  <2>1. Entered(open_files', file')
    BY <1>1, <1>5, <1>10, EnteredKept
  <2>2. \A x \in InUse(handle') : handle'[x].file \in Opened(file') /\ handle'[x].proc \in alive
    BY <1>1, <1>5, <1>10 DEF Same
  <2>3. open_files' \in [0 .. max_open_files - 1 -> Files \cup {NULL}]
    BY <1>1, <1>10 DEF VfsShape
  <2> QED BY <1>5, <1>6, <1>7, <1>8, <2>1, <2>2, <2>3
<1> QED BY <1>5, <1>9, <1>10

LEMMA CloseStep ==
  ASSUME VfsInv, NEW p \in Processes, NEW fd \in Fds, Close(p, fd)
  PROVE  VfsInv'
<1>1. Running(p) /\ files[p][fd] # NULL /\ CloseHandle(p, fd) /\ UNCHANGED <<locked, exitVars>>
  BY DEF Close
<1>2. /\ handles' \in [0 .. max_file_handles - 1 -> Handles \cup {NULL}]
      /\ open_files' \in [0 .. max_open_files - 1 -> Files \cup {NULL}]
      /\ files' \in [Processes -> [Fds -> Handles \cup {NULL}]]
      /\ handle' \in [Handles -> HandleType \cup {FREED}]
      /\ file' \in [Files -> FileType \cup {FREED}]
      /\ \A q \in Processes, e \in Fds : files'[q][e] = IF q = p /\ e = fd THEN NULL ELSE files[q][e]
      /\ AllListed(handle', file')
      /\ \A x \in InUse(handle') : handle'[x].file \in Opened(file') /\ handle'[x].proc \in alive
      /\ Tabled(handles', files', handle')
      /\ Entered(open_files', file')
  BY <1>1, HandleClosed
<1>3. VfsShape /\ Undisturbed
  BY DEF VfsInv
<1>4. VfsShape'
  BY <1>1, <1>2, <1>3 DEF VfsShape, exitVars
<1>5. Undisturbed'
  BY <1>1, <1>2, <1>3 DEF Undisturbed, exitVars
<1> QED BY <1>1, <1>2, <1>4, <1>5 DEF VfsInv, exitVars

LEMMA CloseNextStep ==
  ASSUME VfsInv, NEW v \in UserProcs, CloseNext(v)
  PROVE  VfsInv'
<1> DEFINE fd == closing[v]  h == files[v][fd]
<1>1. VfsShape /\ Undisturbed /\ v \in Processes
  BY DEF VfsInv, Processes
<1>2. fd \in Fds /\ UNCHANGED <<locked, closer, alive>>
  BY DEF CloseNext
<1>3. fd # NULL /\ fd \in Nat /\ fd + 1 \in 0 .. max_proc_files
  BY <1>2, Marks, VfsAssumption DEF Fds
<1>4. /\ v \in alive /\ closer[v] = v /\ locked = {} /\ panicked = FALSE
      /\ \A e \in Fds : e < fd => files[v][e] = NULL
  BY <1>1, <1>3 DEF Undisturbed
<1>5. /\ closing' = [closing EXCEPT ![v] = fd + 1] /\ panicked' = panicked
      /\ \/ h # NULL /\ CloseHandle(v, fd)
         \/ h = NULL /\ UNCHANGED <<handles, open_files, files, handle, file>>
  BY <1>4 DEF CloseNext
<1>6. closing' \in [Processes -> {NULL} \cup 0 .. max_proc_files]
  BY <1>1, <1>3, <1>5 DEF VfsShape
<1>7. closing'[v] = fd + 1 /\ \A u \in Processes : u # v => closing'[u] = closing[u]
  BY <1>1, <1>5 DEF VfsShape
<1> HIDE DEF h, fd
<1>8. ASSUME files'[v][fd] = NULL,
             \A q \in Processes, e \in Fds : files[q][e] = NULL => files'[q][e] = NULL
      PROVE  Undisturbed'
  <2>1. ASSUME NEW e \in Fds, e < fd + 1 PROVE files'[v][e] = NULL
    <3>1. e < fd \/ e = fd
      BY <1>3, <2>1 DEF Fds
    <3> QED BY <1>1, <1>4, <1>8, <3>1
  <2>2. ASSUME NEW u \in Processes, closing'[u] # NULL
        PROVE  /\ u \in alive /\ closer[u] = u
               /\ \A e \in Fds : e < closing'[u] => files'[u][e] = NULL
    <3>1. CASE u = v
      BY <1>4, <1>7, <2>1, <3>1
    <3>2. CASE u # v
      BY <1>1, <1>7, <1>8, <2>2, <3>2 DEF Undisturbed
    <3> QED BY <3>1, <3>2
  <2> QED BY <1>2, <1>4, <1>5, <2>2 DEF Undisturbed
<1>9. CASE h # NULL /\ CloseHandle(v, fd)
  <2>1. /\ handles' \in [0 .. max_file_handles - 1 -> Handles \cup {NULL}]
        /\ open_files' \in [0 .. max_open_files - 1 -> Files \cup {NULL}]
        /\ files' \in [Processes -> [Fds -> Handles \cup {NULL}]]
        /\ handle' \in [Handles -> HandleType \cup {FREED}]
        /\ file' \in [Files -> FileType \cup {FREED}]
        /\ \A q \in Processes, e \in Fds : files'[q][e] = IF q = v /\ e = fd THEN NULL ELSE files[q][e]
        /\ AllListed(handle', file')
        /\ \A x \in InUse(handle') : handle'[x].file \in Opened(file') /\ handle'[x].proc \in alive
        /\ Tabled(handles', files', handle')
        /\ Entered(open_files', file')
    BY <1>1, <1>2, <1>9, HandleClosed DEF h
  <2>2. VfsShape'
    BY <1>1, <1>2, <1>6, <2>1 DEF VfsShape
  <2>3. Undisturbed'
    BY <1>1, <1>2, <1>8, <2>1
  <2> QED BY <1>2, <2>1, <2>2, <2>3 DEF VfsInv
<1>10. CASE h = NULL /\ UNCHANGED <<handles, open_files, files, handle, file>>
  <2>1. VfsShape'
    BY <1>1, <1>2, <1>6, <1>10 DEF VfsShape
  <2>2. Undisturbed'
    BY <1>1, <1>8, <1>10 DEF h
  <2> QED BY <1>2, <1>10, <2>1, <2>2 DEF VfsInv
<1> QED BY <1>5, <1>9, <1>10

LEMMA ExitStep ==
  ASSUME VfsInv, NEW v \in UserProcs, Exit(v)
  PROVE  VfsInv'
<1>1. VfsShape /\ Undisturbed /\ v \in Processes
  BY DEF VfsInv, Processes
<1>2. /\ Running(v) /\ closing' = [closing EXCEPT ![v] = 0] /\ closer' = [closer EXCEPT ![v] = v]
      /\ UNCHANGED <<handles, open_files, files, handle, file, locked, alive, panicked>>
  BY DEF Exit, BeginDelete
<1>3. /\ closing' \in [Processes -> {NULL} \cup 0 .. max_proc_files] /\ closer' \in [Processes -> Processes]
      /\ closing'[v] = 0 /\ closer'[v] = v
      /\ \A u \in Processes : u # v => closing'[u] = closing[u] /\ closer'[u] = closer[u]
  <2>1. 0 \in 0 .. max_proc_files
    BY VfsAssumption
  <2> QED BY <1>1, <1>2, <2>1 DEF VfsShape
<1>4. VfsShape'
  BY <1>1, <1>2, <1>3 DEF VfsShape
<1>5. Undisturbed'
  <2>1. \A e \in Fds : ~(e < 0)
    BY DEF Fds
  <2>2. \A u \in Processes : closing'[u] # NULL =>
          /\ u \in alive /\ closer'[u] = u
          /\ \A e \in Fds : e < closing'[u] => files[u][e] = NULL
    BY <1>1, <1>2, <1>3, <2>1 DEF Undisturbed, Running
  <2> QED BY <1>1, <1>2, <2>2 DEF Undisturbed
<1> QED BY <1>2, <1>4, <1>5 DEF VfsInv

LEMMA EndDeleteStep ==
  ASSUME VfsInv, NEW v \in UserProcs, EndDelete(v)
  PROVE  VfsInv' /\ files' = files /\ UNCHANGED <<handle, file>>
<1>1. VfsShape /\ Undisturbed /\ v \in Processes /\ v # kernel_proc /\ Tabled(handles, files, handle)
  BY VfsAssumption DEF VfsInv, Processes
<1>2. /\ closing[v] = max_proc_files /\ alive' = alive \ {v} /\ closing' = [closing EXCEPT ![v] = NULL]
      /\ closer' = [closer EXCEPT ![v] = v] /\ files' = [files EXCEPT ![v] = NoFiles]
      /\ UNCHANGED <<handles, open_files, handle, file, locked, panicked>>
  BY DEF EndDelete
<1>3. \A e \in Fds : files[v][e] = NULL
  <2>1. closing[v] # NULL /\ \A e \in Fds : e < closing[v]
    BY <1>2, Marks, VfsAssumption DEF Fds
  <2> QED BY <1>1, <2>1 DEF Undisturbed
<1>4. files' = files
  <2>1. files[v] = NoFiles
    BY <1>1, <1>3 DEF VfsShape, NoFiles
  <2> QED BY <1>1, <1>2, <2>1 DEF VfsShape
<1>5. \A x \in InUse(handle) : handle[x].proc # v
  <2> SUFFICES ASSUME NEW x \in InUse(handle), handle[x].proc = v PROVE FALSE
    OBVIOUS
  <2>1. Placed(x, handle) /\ x # NULL /\ files[handle[x].proc][handle[x].procfd] = x
    BY <1>1, HandleKnown, Marks DEF Tabled
  <2> QED BY <1>3, <2>1 DEF Placed
<1>6. /\ closing' \in [Processes -> {NULL} \cup 0 .. max_proc_files] /\ closer' \in [Processes -> Processes]
      /\ closing'[v] = NULL
      /\ \A u \in Processes : u # v => closing'[u] = closing[u] /\ closer'[u] = closer[u]
  BY <1>1, <1>2 DEF VfsShape
<1>7. VfsShape'
  BY <1>1, <1>2, <1>4, <1>6 DEF VfsShape
<1>8. Undisturbed'
  BY <1>1, <1>2, <1>4, <1>6 DEF Undisturbed
<1>9. \A x \in InUse(handle') : handle'[x].file \in Opened(file') /\ handle'[x].proc \in alive'
  BY <1>2, <1>5 DEF VfsInv
<1>10. AllListed(handle', file') /\ Entered(open_files', file') /\ Tabled(handles', files', handle')
  BY <1>2, <1>4 DEF VfsInv
<1>11. VfsInv'
  BY <1>7, <1>8, <1>9, <1>10 DEF VfsInv
<1> QED BY <1>2, <1>4, <1>11

\* What SPAWN does to the handles that it gives away, and to the tables.
LEMMA SpawnGives ==
  ASSUME VfsInv, NEW p \in Processes, NEW q \in UserProcs, NEW from \in Requests, Spawn(p, q, from)
  PROVE  /\ q \in Processes /\ q # p /\ q \notin alive /\ p \in alive
         /\ DOMAIN from \subseteq Fds /\ \A i \in DOMAIN from : from[i] \in Fds /\ files[p][from[i]] \in InUse(handle)
         /\ \A e \in Fds : files[q][e] = NULL
         /\ files' \in [Processes -> [Fds -> Handles \cup {NULL}]]
         /\ \A e \in Fds : /\ files'[p][e] = IF \E i \in DOMAIN from : from[i] = e THEN NULL ELSE files[p][e]
                           /\ files'[q][e] = IF e \in DOMAIN from THEN files[p][from[e]] ELSE NULL
         /\ \A u \in Processes : u # p /\ u # q => files'[u] = files[u]
         /\ handle' \in [Handles -> HandleType \cup {FREED}] /\ InUse(handle') = InUse(handle)
         /\ \A x \in InUse(handle) :
              /\ handle'[x].handle_i = handle[x].handle_i /\ handle'[x].file = handle[x].file
              /\ handle'[x].next = handle[x].next /\ handle'[x].prev = handle[x].prev
              /\ \/ \E i \in DOMAIN from : files[p][from[i]] = x /\ handle'[x].proc = q /\ handle'[x].procfd = i
                 \/ (\A i \in DOMAIN from : files[p][from[i]] # x) /\ handle'[x] = handle[x]
<1>1. VfsShape /\ Tabled(handles, files, handle) /\ \A x \in InUse(handle) : handle[x].proc \in alive
  BY DEF VfsInv
<1>2. /\ Running(p) /\ q \in UserProcs \ alive
      /\ \A i \in DOMAIN from : files[p][from[i]] # NULL
      /\ handle' = [h \in Handles |->
           IF \E i \in DOMAIN from : files[p][from[i]] = h
           THEN [handle[h] EXCEPT !.proc = q,
                                  !.procfd = CHOOSE i \in DOMAIN from : files[p][from[i]] = h]
           ELSE handle[h]]
  BY DEF Spawn
<1>3. q \in Processes /\ q # p /\ q \notin alive /\ p \in alive
  BY <1>2 DEF Processes, Running
<1>4. DOMAIN from \subseteq Fds /\ \A i \in DOMAIN from : from[i] \in Fds
  <2>1. PICK std \in SUBSET Std : from \in [std -> Fds]
    BY DEF Requests
  <2>2. Std \subseteq Fds
    BY VfsAssumption DEF Std, Fds
  <2> QED BY <2>1, <2>2
<1>5. \A i \in DOMAIN from : files[p][from[i]] \in InUse(handle)
  BY <1>1, <1>2, <1>4 DEF Tabled
<1>6. \A e \in Fds : files[q][e] = NULL
  BY <1>1, <1>3 DEF Tabled
<1> DEFINE given == {from[i] : i \in DOMAIN from}
           fp == [fd \in Fds |-> IF fd \in given THEN NULL ELSE files[p][fd]]
           fq == [fd \in Fds |-> IF fd \in DOMAIN from THEN files[p][from[fd]] ELSE NULL]
<1>7. files' = [files EXCEPT ![p] = fp, ![q] = fq]
  BY DEF Spawn
<1>8. fp \in [Fds -> Handles \cup {NULL}] /\ fq \in [Fds -> Handles \cup {NULL}]
  BY <1>1, <1>4 DEF VfsShape
<1>9. \A e \in Fds : /\ fp[e] = IF \E i \in DOMAIN from : from[i] = e THEN NULL ELSE files[p][e]
                     /\ fq[e] = IF e \in DOMAIN from THEN files[p][from[e]] ELSE NULL
  OBVIOUS
<1> HIDE DEF fp, fq
<1>10. /\ files' \in [Processes -> [Fds -> Handles \cup {NULL}]] /\ files'[p] = fp /\ files'[q] = fq
       /\ \A u \in Processes : u # p /\ u # q => files'[u] = files[u]
  BY <1>1, <1>3, <1>7, <1>8 DEF VfsShape
<1>11. ASSUME NEW x \in InUse(handle)
       PROVE  /\ x \in Handles /\ handle'[x] \in HandleType
              /\ handle'[x].handle_i = handle[x].handle_i /\ handle'[x].file = handle[x].file
              /\ handle'[x].next = handle[x].next /\ handle'[x].prev = handle[x].prev
              /\ \/ \E i \in DOMAIN from : files[p][from[i]] = x /\ handle'[x].proc = q /\ handle'[x].procfd = i
                 \/ (\A i \in DOMAIN from : files[p][from[i]] # x) /\ handle'[x] = handle[x]
  <2>1. x \in Handles /\ handle[x] \in HandleType
    BY <1>1, HandleKnown
  <2>2. CASE \E i \in DOMAIN from : files[p][from[i]] = x
    <3> DEFINE j == CHOOSE i \in DOMAIN from : files[p][from[i]] = x
    <3>1. j \in DOMAIN from /\ files[p][from[j]] = x
      BY <2>2
    <3>2. handle'[x] = [handle[x] EXCEPT !.proc = q, !.procfd = j]
      BY <1>2, <2>1, <2>2
    <3> HIDE DEF j
    <3>3. j \in Fds
      BY <1>4, <3>1
    <3>4. /\ handle'[x] \in HandleType /\ handle'[x].proc = q /\ handle'[x].procfd = j
          /\ handle'[x].handle_i = handle[x].handle_i /\ handle'[x].file = handle[x].file
          /\ handle'[x].next = handle[x].next /\ handle'[x].prev = handle[x].prev
      BY <1>3, <2>1, <3>2, <3>3 DEF HandleType
    <3> QED BY <2>1, <3>1, <3>4
  <2>3. CASE ~ \E i \in DOMAIN from : files[p][from[i]] = x
    BY <1>2, <2>1, <2>3
  <2> QED BY <2>2, <2>3
<1>12. \A x \in Handles : x \notin InUse(handle) => handle'[x] = FREED
  BY <1>2, <1>5 DEF InUse
<1>13. handle' \in [Handles -> HandleType \cup {FREED}]
  <2>1. handle' = [x \in Handles |-> handle'[x]]
    BY <1>2
  <2>2. \A x \in Handles : handle'[x] \in HandleType \cup {FREED}
    BY <1>11, <1>12
  <2> QED BY <2>1, <2>2
<1>14. InUse(handle') = InUse(handle)
  <2>1. \A x \in Handles : handle'[x] # FREED <=> x \in InUse(handle)
    BY <1>11, <1>12, Marks
  <2> QED BY <2>1 DEF InUse
<1> QED BY <1>3, <1>4, <1>5, <1>6, <1>9, <1>10, <1>11, <1>13, <1>14

LEMMA SpawnStep ==
  ASSUME VfsInv, NEW p \in Processes, NEW q \in UserProcs, NEW from \in Requests, Spawn(p, q, from)
  PROVE  VfsInv'
<1>1. VfsShape /\ Tabled(handles, files, handle) /\ Undisturbed
  BY DEF VfsInv
<1>2. /\ q \in Processes /\ q # p /\ q \notin alive /\ p \in alive
      /\ DOMAIN from \subseteq Fds /\ \A i \in DOMAIN from : from[i] \in Fds /\ files[p][from[i]] \in InUse(handle)
      /\ \A e \in Fds : files[q][e] = NULL
      /\ files' \in [Processes -> [Fds -> Handles \cup {NULL}]]
      /\ \A e \in Fds : /\ files'[p][e] = IF \E i \in DOMAIN from : from[i] = e THEN NULL ELSE files[p][e]
                        /\ files'[q][e] = IF e \in DOMAIN from THEN files[p][from[e]] ELSE NULL
      /\ \A u \in Processes : u # p /\ u # q => files'[u] = files[u]
      /\ handle' \in [Handles -> HandleType \cup {FREED}] /\ InUse(handle') = InUse(handle)
      /\ \A x \in InUse(handle) :
           /\ handle'[x].handle_i = handle[x].handle_i /\ handle'[x].file = handle[x].file
           /\ handle'[x].next = handle[x].next /\ handle'[x].prev = handle[x].prev
           /\ \/ \E i \in DOMAIN from : files[p][from[i]] = x /\ handle'[x].proc = q /\ handle'[x].procfd = i
              \/ (\A i \in DOMAIN from : files[p][from[i]] # x) /\ handle'[x] = handle[x]
  BY SpawnGives
<1>3. /\ Running(p) /\ \A i, j \in DOMAIN from : from[i] = from[j] => i = j
      /\ alive' = alive \cup {q}
      /\ UNCHANGED <<handles, open_files, file, locked, closing, closer, panicked>>
  BY DEF Spawn
<1>4. /\ \A x \in InUse(handle) : /\ handles[handle[x].handle_i] = x /\ x # NULL /\ Placed(x, handle)
                                  /\ files[handle[x].proc][handle[x].procfd] = x
      /\ \A i \in 0 .. max_file_handles - 1 : handles[i] # NULL =>
           handles[i] \in InUse(handle) /\ handle[handles[i]].handle_i = i
      /\ \A u \in Processes, e \in Fds : files[u][e] # NULL =>
           files[u][e] \in InUse(handle) /\ handle[files[u][e]].proc = u /\ handle[files[u][e]].procfd = e
  <2>1. \A x \in InUse(handle) : x # NULL /\ Placed(x, handle)
    BY <1>1, HandleKnown, Marks
  <2> QED BY <1>1, <2>1 DEF Tabled
<1>5. VfsShape'
  BY <1>1, <1>2, <1>3 DEF VfsShape
<1>6. AllListed(handle', file')
  <2> SUFFICES ASSUME NEW f \in Opened(file) PROVE \E s : Lists(s, f, handle', file')
    BY <1>3 DEF AllListed
  <2>1. PICK s : Lists(s, f, handle, file)
    BY DEF VfsInv, AllListed
  <2>2. Members(f, handle') = Members(f, handle)
    BY <1>2 DEF Members
  <2>3. \A k \in 1 .. Len(s) : s[k] \in Members(f, handle)
    BY <2>1, PlacesOfList
  <2>4. \A k \in 1 .. Len(s) : handle'[s[k]].next = handle[s[k]].next /\ handle'[s[k]].prev = handle[s[k]].prev
    BY <1>2, <2>3 DEF Members
  <2>5. Lists(s, f, handle', file')
    BY <1>3, <2>1, <2>2, <2>4 DEF Lists
  <2> QED BY <2>5
<1>7. \A x \in InUse(handle') : handle'[x].file \in Opened(file') /\ handle'[x].proc \in alive'
  BY <1>2, <1>3 DEF VfsInv
<1>8. Tabled(handles', files', handle')
  <2>1. ASSUME NEW x \in InUse(handle')
        PROVE  handles'[handle'[x].handle_i] = x /\ files'[handle'[x].proc][handle'[x].procfd] = x
    <3>1. x \in InUse(handle) /\ handles'[handle'[x].handle_i] = x
      BY <1>2, <1>3, <1>4
    <3>2. CASE \E i \in DOMAIN from : files[p][from[i]] = x /\ handle'[x].proc = q /\ handle'[x].procfd = i
      BY <1>2, <3>1, <3>2
    <3>3. CASE (\A i \in DOMAIN from : files[p][from[i]] # x) /\ handle'[x] = handle[x]
      <4> DEFINE u == handle[x].proc  e == handle[x].procfd
      <4>1. u \in Processes /\ e \in Fds /\ files[u][e] = x /\ x # NULL
        BY <1>4, <3>1 DEF Placed
      <4> HIDE DEF u, e
      <4>2. u # q
        BY <1>2, <4>1
      <4>3. files'[u][e] = x
        BY <1>2, <3>3, <4>1, <4>2
      <4> QED BY <3>1, <3>3, <4>3 DEF u, e
    <3> QED BY <1>2, <3>1, <3>2, <3>3
  <2>2. \A i \in 0 .. max_file_handles - 1 : handles'[i] # NULL =>
          handles'[i] \in InUse(handle') /\ handle'[handles'[i]].handle_i = i
    BY <1>2, <1>3, <1>4
  <2>3. ASSUME NEW u \in Processes, NEW e \in Fds, files'[u][e] # NULL
        PROVE  files'[u][e] \in InUse(handle') /\ handle'[files'[u][e]].proc = u /\ handle'[files'[u][e]].procfd = e
    <3> DEFINE y == files'[u][e]
    <3>1. CASE u = q
      <4>1. e \in DOMAIN from /\ y = files[p][from[e]] /\ y \in InUse(handle)
        BY <1>2, <2>3, <3>1
      <4>2. ~ \A i \in DOMAIN from : files[p][from[i]] # y
        BY <4>1
      <4> HIDE DEF y
      <4>3. PICK i \in DOMAIN from : files[p][from[i]] = y /\ handle'[y].proc = q /\ handle'[y].procfd = i
        BY <1>2, <4>1, <4>2
      <4>4. from[i] \in Fds /\ from[e] \in Fds /\ y # NULL
        BY <1>2, <1>4, <4>1
      <4>5. from[i] = from[e]
        BY <1>4, <4>1, <4>3, <4>4
      <4>6. i = e
        BY <1>3, <4>1, <4>5
      <4> QED BY <1>2, <3>1, <4>1, <4>3, <4>6 DEF y
    <3>2. CASE u # q
      <4>1. y = files[u][e] /\ y # NULL /\ (u = p => \A i \in DOMAIN from : from[i] # e)
        BY <1>2, <2>3, <3>2
      <4>2. y \in InUse(handle) /\ handle[y].proc = u /\ handle[y].procfd = e
        BY <1>4, <4>1
      <4> HIDE DEF y
      <4>3. \A i \in DOMAIN from : files[p][from[i]] # y
        <5> SUFFICES ASSUME NEW i \in DOMAIN from, files[p][from[i]] = y PROVE FALSE
          OBVIOUS
        <5>1. from[i] \in Fds
          BY <1>2
        <5>2. handle[y].proc = p /\ handle[y].procfd = from[i]
          BY <1>4, <4>1, <5>1
        <5> QED BY <4>1, <4>2, <5>2
      <4>4. handle'[y] = handle[y]
        BY <1>2, <4>2, <4>3
      <4> QED BY <1>2, <4>2, <4>4 DEF y
    <3> QED BY <3>1, <3>2
  <2> QED BY <2>1, <2>2, <2>3 DEF Tabled
<1>9. Undisturbed'
  <2>1. \A v \in Processes : closing[v] # NULL => v # p /\ v # q
    BY <1>1, <1>2, <1>3 DEF Running, Undisturbed
  <2> QED BY <1>1, <1>2, <1>3, <2>1 DEF Undisturbed
<1>10. Entered(open_files', file')
  BY <1>3 DEF VfsInv
<1> QED BY <1>5, <1>6, <1>7, <1>8, <1>9, <1>10 DEF VfsInv

LEMMA VfsInvInitially == VfsInit => VfsInv
<1> SUFFICES ASSUME VfsInit PROVE VfsInv
  OBVIOUS
<1>1. InUse(handle) = {} /\ Opened(file) = {}
  BY DEF VfsInit, InUse, Opened
<1>2. VfsShape
  BY VfsAssumption DEF VfsInit, VfsShape, NoFiles, Processes
<1>3. AllListed(handle, file)
  BY <1>1 DEF AllListed
<1>4. Tabled(handles, files, handle)
  BY <1>1 DEF Tabled, VfsInit, NoFiles
<1>5. Entered(open_files, file)
  BY <1>1 DEF Entered, VfsInit
<1>6. Undisturbed
  BY DEF Undisturbed, VfsInit
<1> QED BY <1>1, <1>2, <1>3, <1>4, <1>5, <1>6 DEF VfsInv

LEMMA VfsInvPreserved == VfsInv /\ [CarefulNext]_vfsVars => VfsInv'
<1> SUFFICES ASSUME VfsInv, [CarefulNext]_vfsVars PROVE VfsInv'
  OBVIOUS
<1>1. ASSUME NEW p \in Processes, NEW path \in Paths, NEW fd \in Fds, Open(p, path, fd) PROVE VfsInv'
  BY <1>1, OpenStep
<1>2. ASSUME NEW p \in UserProcs, MakePipe(p) PROVE VfsInv'
  BY <1>2, MakePipeStep
<1>3. ASSUME NEW p \in UserProcs, NEW dest \in Fds, NEW fd \in Fds, DuplicateLast(p, dest, fd) PROVE VfsInv'
  BY <1>3, DuplicateStep
<1>4. ASSUME NEW p \in Processes, NEW fd \in Fds, Close(p, fd) PROVE VfsInv'
  BY <1>4, CloseStep
<1>5. ASSUME NEW p \in Processes, NEW q \in UserProcs, NEW from \in Requests, Spawn(p, q, from) PROVE VfsInv'
  BY <1>5, SpawnStep
<1>6. ASSUME NEW v \in UserProcs, Exit(v) \/ CloseNext(v) \/ EndDelete(v) PROVE VfsInv'
  BY <1>6, ExitStep, CloseNextStep, EndDeleteStep
<1>7. CASE UNCHANGED vfsVars
  BY <1>7 DEF vfsVars, VfsInv, VfsShape, Undisturbed
<1> QED BY <1>1, <1>2, <1>3, <1>4, <1>5, <1>6, <1>7 DEF CarefulNext

LEMMA VfsInvHolds == VfsSpec => []VfsInv
BY VfsInvInitially, VfsInvPreserved, PTL DEF VfsSpec

\* The list of every open file contains its handles once, in both directions; handles,
\* processes and files are found from each other at the places that they know; and no
\* handle belongs to a process that was deleted: through open, duplicate_fd, make_pipe,
\* close, SPAWN and delete_proc (vfs.cc, syscall.cc, proc.cc).
THEOREM TablesStaySound == VfsSpec => []TablesAreSound
<1>1. VfsInv => TablesAreSound
  <2> SUFFICES ASSUME VfsInv PROVE TablesAreSound
    OBVIOUS
  <2>1. VfsShape /\ Tabled(handles, files, handle) /\ Entered(open_files, file) /\ Undisturbed
    BY DEF VfsInv
  <2>2. HandleListsSound
    BY ListsAreSound DEF VfsInv
  <2>3. VfsTypeOK
    BY <2>1 DEF VfsTypeOK, VfsShape, Undisturbed
  <2>4. DOMAIN handles = 0 .. max_file_handles - 1 /\ DOMAIN open_files = 0 .. max_open_files - 1
    BY <2>1 DEF VfsShape
  <2>5. TablesAgree
    BY <2>1, <2>4 DEF TablesAgree, Tabled, Allocated, InUse
  <2>6. OneEntryPerFile
    <3>1. ASSUME NEW f \in Files
          PROVE  file[f] # FREED <=> \E i \in DOMAIN open_files : open_files[i] = f
      BY <2>1, <2>4, FileKnown, Marks DEF Entered, Opened
    <3>2. ASSUME NEW i \in DOMAIN open_files, NEW j \in DOMAIN open_files,
                 open_files[i] # NULL, open_files[j] # NULL, i # j
          PROVE  /\ open_files[i] # open_files[j]
                 /\ file[open_files[i]].path = file[open_files[j]].path => file[open_files[i]].path = PIPE
      BY <2>1, <2>4, <3>2 DEF Entered
    <3> QED BY <3>1, <3>2 DEF OneEntryPerFile
  <2>7. NoHandleOfTheDead
    BY DEF VfsInv, NoHandleOfTheDead, Allocated, InUse
  <2> QED BY <2>2, <2>3, <2>5, <2>6, <2>7 DEF TablesAreSound
<1> QED BY <1>1, VfsInvHolds, PTL

-----------------------------------------------------------------------------
(* Every step of the VFS is a step of the descriptors, or changes none *)

\* Closing a handle drops its descriptor; what no descriptor leads to is gone.
LEMMA ClosingDrops ==
  ASSUME VfsInv, VfsInv', NEW p \in Processes, NEW fd \in Fds, files[p][fd] # NULL, CloseHandle(p, fd)
  PROVE  D!Drop(p, fd)
<1> DEFINE h == files[p][fd]
           f == handle[h].file
<1>1. VfsShape /\ AllListed(handle, file) /\ \A x \in InUse(handle) : handle[x].file \in Opened(file)
  BY DEF VfsInv
<1>2. h \in InUse(handle) /\ Table[p][fd] # NULL
  BY TableLeads
<1>3. /\ \A x \in InUse(handle') : Same(x, handle, handle')
      /\ \A g \in Opened(file') : file'[g].path = file[g].path
      /\ Opened(file') \subseteq Opened(file)
  BY <1>1, <1>2, CloseKeeps
<1>4. \A q \in Processes, e \in Fds : files'[q][e] = IF q = p /\ e = fd THEN NULL ELSE files[q][e]
  BY HandleClosed
<1>5. ASSUME NEW q \in Processes, NEW e \in Fds
      PROVE  Table'[q][e] = IF q = p /\ e = fd THEN NULL ELSE Table[q][e]
  <2>1. CASE q = p /\ e = fd
    BY <1>4, <2>1, TableIsNext
  <2>2. CASE ~(q = p /\ e = fd)
    <3>1. files'[q][e] = files[q][e]
      BY <1>4, <2>2
    <3>2. files'[q][e] # NULL => files'[q][e] \in InUse(handle')
      BY TableLeadsNext
    <3>3. files'[q][e] # NULL => handle'[files'[q][e]].file = handle[files'[q][e]].file
      BY <1>3, <3>2 DEF Same
    <3> QED BY <2>2, <3>1, <3>3, TableIs, TableIsNext
  <2> QED BY <2>1, <2>2
<1>6. Table' = [Table EXCEPT ![p][fd] = NULL]
  BY <1>5, TableChanges
<1>7. Name' = [o \in Files |-> IF o \in D!Referred(Table') THEN Name[o] ELSE NULL]
  <2>1. D!Referred(Table') = Opened(file')
    BY TableLeadsNext
  <2>2. ASSUME NEW o \in Files PROVE Name'[o] = IF o \in Opened(file') THEN Name[o] ELSE NULL
    BY <1>3, NameIs, TableIsNext DEF Opened
  <2>3. Name' = [o \in Files |-> Name'[o]]
    BY DEF Name
  <2> QED BY <2>1, <2>2, <2>3
<1> QED BY <1>2, <1>6, <1>7 DEF D!Drop, D!Empty

\* SPAWN gives descriptors away.
LEMMA SpawningGives ==
  ASSUME VfsInv, VfsInv', NEW p \in Processes, NEW q \in UserProcs, NEW from \in Requests, Spawn(p, q, from)
  PROVE  D!DescNext
<1>1. /\ q \in Processes /\ q # p
      /\ DOMAIN from \subseteq Fds /\ \A i \in DOMAIN from : from[i] \in Fds /\ files[p][from[i]] \in InUse(handle)
      /\ \A e \in Fds : files[q][e] = NULL
      /\ \A e \in Fds : /\ files'[p][e] = IF \E i \in DOMAIN from : from[i] = e THEN NULL ELSE files[p][e]
                        /\ files'[q][e] = IF e \in DOMAIN from THEN files[p][from[e]] ELSE NULL
      /\ \A u \in Processes : u # p /\ u # q => files'[u] = files[u]
      /\ \A x \in InUse(handle) : handle'[x].file = handle[x].file
  BY SpawnGives
<1>2. /\ \A i, j \in DOMAIN from : from[i] = from[j] => i = j
      /\ file' = file /\ CanLoad(p)
  BY DEF Spawn
<1>3. \A e \in Fds : Table[q][e] = NULL
  BY <1>1, TableIs
<1>4. \A i \in DOMAIN from : Table[p][from[i]] # NULL
  BY <1>1, TableLeads, Marks DEF InUse
<1>5. Name' = Name
  BY <1>2 DEF Name
<1>6. \A u \in Processes, e \in Fds : files[u][e] # NULL => files[u][e] \in InUse(handle)
  BY TableLeads
<1> DEFINE fp == [e \in Fds |-> IF \E i \in DOMAIN from : from[i] = e THEN NULL ELSE Table[p][e]]
           fq == [e \in Fds |-> IF e \in DOMAIN from THEN Table[p][from[e]] ELSE NULL]
           T == [Table EXCEPT ![p] = fp, ![q] = fq]
<1>7. /\ Table = [u \in Processes |-> Table[u]]
      /\ \A u \in Processes : Table[u] = [e \in Fds |-> Table[u][e]]
  BY DEF Table
<1>8. /\ fp = [e \in Fds |-> fp[e]] /\ fq = [e \in Fds |-> fq[e]]
      /\ \A e \in Fds : /\ fp[e] = IF \E i \in DOMAIN from : from[i] = e THEN NULL ELSE Table[p][e]
                        /\ fq[e] = IF e \in DOMAIN from THEN Table[p][from[e]] ELSE NULL
  OBVIOUS
<1> HIDE DEF fp, fq
<1>9. /\ T = [u \in Processes |-> T[u]] /\ T[p] = fp /\ T[q] = fq
      /\ \A u \in Processes : u # p /\ u # q => T[u] = Table[u]
  BY <1>1, <1>7
<1> HIDE DEF T
<1>10. ASSUME NEW u \in Processes, NEW e \in Fds PROVE Table'[u][e] = T[u][e]
  <2>1. Table'[u][e] = IF files'[u][e] = NULL THEN NULL ELSE handle'[files'[u][e]].file
    BY TableIsNext
  <2>2. CASE u = q
    <3>1. CASE e \in DOMAIN from
      <4>1. files'[u][e] = files[p][from[e]] /\ from[e] \in Fds /\ files[p][from[e]] \in InUse(handle)
        BY <1>1, <2>2, <3>1
      <4>2. files[p][from[e]] # NULL
        BY <4>1, Marks DEF InUse
      <4>3. Table'[u][e] = handle[files[p][from[e]]].file
        BY <1>1, <2>1, <4>1, <4>2
      <4>4. Table[p][from[e]] = handle[files[p][from[e]]].file
        BY <4>1, <4>2, TableIs
      <4> QED BY <1>8, <1>9, <2>2, <3>1, <4>3, <4>4
    <3>2. CASE e \notin DOMAIN from
      BY <1>1, <1>8, <1>9, <2>1, <2>2, <3>2
    <3> QED BY <3>1, <3>2
  <2>3. CASE u = p
    BY <1>1, <1>6, <1>8, <1>9, <2>1, <2>3, TableIs
  <2>4. CASE u # p /\ u # q
    BY <1>1, <1>6, <1>9, <2>1, <2>4, TableIs
  <2> QED BY <2>2, <2>3, <2>4
<1>11. Table' = T
  <2>1. \A u \in Processes : T[u] = [e \in Fds |-> T[u][e]]
    <3> SUFFICES ASSUME NEW u \in Processes PROVE T[u] = [e \in Fds |-> T[u][e]]
      OBVIOUS
    <3> QED BY <1>7, <1>8, <1>9
  <2> QED BY <1>9, <1>10, <2>1, TableEquals
<1>12. D!Give(p, q, from)
  <2>1. Table' = [Table EXCEPT ![p] = fp, ![q] = fq]
    BY <1>11 DEF T
  <2> QED BY <1>1, <1>2, <1>3, <1>4, <1>5, <2>1 DEF D!Give, D!Empty, fp, fq
<1>13. PICK n \in Fds : \E std \in SUBSET (0 .. n) : from \in [std -> Fds]
  <2>1. Vacant(files[p]) # {} /\ Vacant(files[p]) \subseteq Fds
    <3>1. Vacant(files[p]) = {fd \in Fds : files[p][fd] = NULL}
      BY FreePlaces DEF VfsInv
    <3> QED BY <1>2, <3>1 DEF CanLoad
  <2>2. max_proc_files - 1 \in Fds /\ Fds = 0 .. max_proc_files - 1
    BY <2>1, VfsAssumption DEF Fds
  <2>3. PICK std \in SUBSET Std : from \in [std -> Fds]
    BY DEF Requests
  <2>4. Std \subseteq 0 .. max_proc_files - 1
    BY VfsAssumption DEF Std
  <2> QED BY <2>2, <2>3, <2>4
<1> QED BY <1>1, <1>12, <1>13 DEF D!DescNext

\* Each descriptor leads to the file it was opened for until it is closed, opening a path
\* twice leads to one file, and files live exactly as long as some descriptor leads to them
\* (vfs.cc: open, duplicate_fd, make_pipe, close, transplant_fd).
THEOREM VfsImplementsDescriptors == VfsSpec => ImplementsDescriptors
<1>1. VfsInit => D!DescInit
  <2> SUFFICES ASSUME VfsInit PROVE D!DescInit
    OBVIOUS
  <2>1. Table = [u \in Processes |-> [n \in Fds |-> NULL]]
    BY DEF VfsInit, NoFiles, Table
  <2>2. Name = [o \in Files |-> NULL]
    BY DEF VfsInit, Name
  <2> QED BY <2>1, <2>2 DEF D!DescInit
<1>2. VfsInv /\ VfsInv' /\ [CarefulNext]_vfsVars => [D!DescNext]_(D!descVars)
  <2> SUFFICES ASSUME VfsInv, VfsInv', [CarefulNext]_vfsVars PROVE [D!DescNext]_(D!descVars)
    OBVIOUS
  <2>1. ASSUME NEW p \in Processes, NEW path \in Paths, NEW fd \in Fds, Open(p, path, fd)
        PROVE  D!DescNext
    BY <2>1, OpenStep DEF D!DescNext
  <2>2. ASSUME NEW p \in UserProcs, MakePipe(p) PROVE D!DescNext
    BY <2>2, MakePipeStep DEF D!DescNext, Processes
  <2>3. ASSUME NEW p \in UserProcs, NEW dest \in Fds, NEW fd \in Fds, DuplicateLast(p, dest, fd)
        PROVE  D!DescNext
    BY <2>3, DuplicateStep DEF D!DescNext, Processes
  <2>4. ASSUME NEW p \in Processes, NEW fd \in Fds, Close(p, fd) PROVE D!DescNext
    BY <2>4, ClosingDrops DEF Close, D!DescNext
  <2>5. ASSUME NEW p \in Processes, NEW q \in UserProcs, NEW from \in Requests, Spawn(p, q, from)
        PROVE  D!DescNext
    BY <2>5, SpawningGives
  <2>6. ASSUME UNCHANGED <<files, handle, file>> PROVE UNCHANGED D!descVars
    BY <2>6 DEF D!descVars, Table, Name
  <2>7. ASSUME NEW v \in UserProcs, CloseNext(v) PROVE [D!DescNext]_(D!descVars)
    <3>1. closing[v] \in Fds /\ v \in Processes
      BY <2>7 DEF CloseNext, Processes
    <3>2. closer[v] = v /\ locked = {}
      BY <3>1, Marks DEF VfsInv, Undisturbed, Fds
    <3>3. \/ files[v][closing[v]] # NULL /\ CloseHandle(v, closing[v])
          \/ UNCHANGED <<files, handle, file>>
      BY <2>7, <3>2 DEF CloseNext
    <3>4. CASE files[v][closing[v]] # NULL /\ CloseHandle(v, closing[v])
      BY <3>1, <3>4, ClosingDrops DEF D!DescNext
    <3> QED BY <2>6, <3>3, <3>4
  <2>8. ASSUME NEW v \in UserProcs, Exit(v) \/ EndDelete(v) PROVE UNCHANGED D!descVars
    <3>1. UNCHANGED <<files, handle, file>>
      BY <2>8, EndDeleteStep DEF Exit, BeginDelete
    <3> QED BY <2>6, <3>1
  <2>9. CASE UNCHANGED vfsVars
    BY <2>6, <2>9 DEF vfsVars
  <2> QED BY <2>1, <2>2, <2>3, <2>4, <2>5, <2>7, <2>8, <2>9 DEF CarefulNext
<1> QED BY <1>1, <1>2, VfsInvHolds, PTL DEF VfsSpec, ImplementsDescriptors, D!DescSpec

-----------------------------------------------------------------------------
(* The inductive invariant of the FAT volume *)

\* The file that a cluster belongs to.
Owner == CHOOSE owner \in [Clusters -> Starts] :
  /\ \A start \in Starts : owner[start] = start
  /\ \A cluster \in Clusters : FatTable[cluster] \in Clusters => owner[FatTable[cluster]] = owner[cluster]

Pcs      == {"idle", "walk", "block", "bus", "filled", "written"}
Contents == (Clusters \cup {NONE}) \X (0 .. versions - 1)
Work     == [pc : Pcs, write : BOOLEAN, cluster : Numbers \cup {NONE}, left : Nat, kind : Kinds,
             entry : Nat \cup {NONE}, storing : BOOLEAN, retries : 0 .. max_retries, err : BOOLEAN,
             others : Nat, inode : Starts \cup {NONE}]
Ordered(o, N) == o \in Seq(1 .. N) /\ Len(o) = N /\ Once(o) /\ Range(o) = 1 .. N
CacheShape(c, N) ==
  /\ c \in [lba : [1 .. N -> Clusters \cup {INVALID}], content : [1 .. N -> Contents], order : Seq(1 .. N)]
  /\ Ordered(c.order, N)

\* An entry of the data cache that the thread with work r uses.
HasEntry(r) == r.pc \in {"bus", "filled", "written"}
UsesData(r) == r.kind = "data" /\ HasEntry(r)

\* What a thread is doing, for itself
WorkIsSound(r) ==
  /\ r \in Work
  /\ r.pc # "idle" => /\ r.inode \in Starts /\ r.cluster \in Numbers
                      /\ r.cluster \in Clusters => Owner[r.cluster] = r.inode
  /\ r.kind = "fat" => r.pc \in {"bus", "filled"} /\ ~r.storing /\ r.left > 0
  /\ r.storing => r.write /\ r.pc \in {"bus", "written"}
  /\ r.pc = "written" => r.storing
  /\ r.pc = "block" => r.cluster # EOC
  /\ r.pc = "bus" \/ (r.pc = "filled" /\ ~r.err) => r.cluster \in Clusters
  /\ HasEntry(r) => r.entry \in Entries(r.kind)

\* Two threads in calls for one file both only read it.
Alone(r, q) == r.pc # "idle" /\ q.pc # "idle" /\ r.inode = q.inode => ~r.write /\ ~q.write
AllWorkIsSound(th) ==
  /\ th \in [Threads -> Work] /\ \A u \in Threads : WorkIsSound(th[u])
  /\ \A u, v \in Threads : u # v => Alone(th[u], th[v])

\* A lock's line has exactly those who hold it or wait for it.
HasFatLock(r) == r.pc = "walk" \/ r.kind = "fat"
LinesAreSound(fl, bl, th) ==
  /\ fl \in Seq(Threads) /\ Once(fl) /\ \A u \in Threads : u \in Range(fl) <=> HasFatLock(th[u])
  /\ bl \in Seq(Threads) /\ Once(bl) /\ \A u \in Threads : u \in Range(bl) <=> th[u].pc = "bus"
  /\ \A u \in Threads : th[u].kind = "fat" => Head(fl) = u

\* A numbered entry has the content of the block of its number.
Labelled(c) == \A e \in DOMAIN c.lba : c.lba[e] # INVALID => c.content[e][1] = c.lba[e]

FatCacheIsSound(c, th) ==
  /\ CacheShape(c, cache_size.fat) /\ Labelled(c)
  /\ \A u \in Threads : th[u].kind = "fat" =>
       /\ th[u].pc = "bus" => c.lba[th[u].entry] = INVALID
       /\ th[u].pc = "filled" /\ ~th[u].err => c.content[th[u].entry][1] = th[u].cluster

DiskIsSound(dk) == dk \in [Clusters -> Blocks] /\ \A b \in Clusters : dk[b][1] = b

\* The first entry that has the block of entry e.
First(c, e) == c.lba[e] # INVALID /\ \A f \in DOMAIN c.lba : c.lba[f] = c.lba[e] => e <= f
Earlier(c, f, e) == Place(c.order, f) < Place(c.order, e)

\* The entry that a thread with work r uses: others cannot have come to take it; while it is
\* filled it has no number, and what is found elsewhere of its block is what the disk has;
\* of a block that is written it is the entry that is found, and outlives all the others.
EntryIsSound(r, c, dk, N) ==
  /\ c.lba[r.entry] \in {INVALID, r.cluster}
  /\ r.others < N /\ Place(c.order, r.entry) + r.others >= N
  /\ r.pc = "bus" /\ ~r.storing => c.lba[r.entry] = INVALID
  /\ r.storing => c.lba[r.entry] = r.cluster
  /\ c.lba[r.entry] = INVALID =>
       /\ r.pc = "filled" /\ ~r.err => c.content[r.entry] = dk[r.cluster]
       /\ \A f \in DOMAIN c.lba : c.lba[f] = r.cluster => ~r.write /\ c.content[f] = dk[r.cluster]
  /\ r.write /\ c.lba[r.entry] = r.cluster =>
       First(c, r.entry) /\ \A f \in DOMAIN c.lba : c.lba[f] = r.cluster /\ f # r.entry => Earlier(c, f, r.entry)

\* Threads with the same entry have found a block in it.
Unshared(r, q, c) == r.entry = q.entry => c.lba[r.entry] # INVALID

\* A copy with other content than the one that is found goes first.
CopiesGoFirst(c) == \A e, f \in DOMAIN c.lba :
  First(c, e) /\ c.lba[f] = c.lba[e] /\ c.content[f] # c.content[e] => Earlier(c, f, e)

Stores(r, b) == r.pc = "bus" /\ r.storing /\ r.cluster = b
FoundIsTrue(c, dk, uw, th) == \A e \in DOMAIN c.lba :
  First(c, e) /\ c.lba[e] \notin uw /\ (\A u \in Threads : ~Stores(th[u], c.lba[e]))
    => c.content[e] = dk[c.lba[e]]

DataCacheIsSound(c, dk, uw, th) ==
  /\ CacheShape(c, cache_size.data) /\ Labelled(c)
  /\ \A u \in Threads : UsesData(th[u]) => EntryIsSound(th[u], c, dk, cache_size.data)
  /\ \A u, v \in Threads : u # v /\ UsesData(th[u]) /\ UsesData(th[v]) => Unshared(th[u], th[v], c)
  /\ CopiesGoFirst(c)
  /\ FoundIsTrue(c, dk, uw, th)

FatInv ==
  /\ AllWorkIsSound(thread)
  /\ LinesAreSound(fat_lock, bus_lock, thread)
  /\ DOMAIN cache = Kinds /\ cache = [k \in Kinds |-> cache[k]]
  /\ FatCacheIsSound(cache.fat, thread)
  /\ DiskIsSound(disk) /\ unwritten \subseteq Clusters
  /\ DataCacheIsSound(cache.data, disk, unwritten, thread)

-----------------------------------------------------------------------------
(* The constants, and the order of hits *)

\* On a sound volume every cluster has an owner, and the chains keep to it.
LEMMA OwnersAreGiven ==
  /\ Owner \in [Clusters -> Starts] /\ \A start \in Starts : Owner[start] = start
  /\ \A cluster \in Clusters : FatTable[cluster] \in Clusters => Owner[FatTable[cluster]] = Owner[cluster]
BY ChainsAssumption DEF Owner

\* Two things are at most two.
LEMMA PairCount ==
  ASSUME NEW a, NEW b
  PROVE  Cardinality({a, b}) <= 2
<1>1. IsFiniteSet({a}) /\ Cardinality({a}) = 1
  BY FS_Singleton
<1>2. {a, b} = {a} \cup {b}
  OBVIOUS
<1>3. Cardinality({a} \cup {b}) = IF b \in {a} THEN Cardinality({a}) ELSE Cardinality({a}) + 1
  BY <1>1, FS_AddElement
<1> QED BY <1>1, <1>2, <1>3

\* The marks of the end, of what is outside and of an empty entry are no clusters.
LEMMA MarksAreApart ==
  /\ EOC \notin Clusters /\ OUTSIDE \notin Clusters /\ INVALID \notin Clusters
  /\ INVALID \notin Numbers
  /\ cache_size.data \in Nat \ {0} /\ cache_size.fat \in Nat \ {0}
  /\ Entries("data") = 1 .. cache_size.data /\ Entries("fat") = 1 .. cache_size.fat
<1>1. EOC \notin Clusters /\ OUTSIDE \notin Clusters /\ INVALID \notin Clusters
  BY Fat32Assumption
<1>2. INVALID # EOC
  <2>1. SUFFICES ASSUME INVALID = EOC PROVE FALSE
    OBVIOUS
  <2>2. {EOC, OUTSIDE, INVALID} = {EOC, OUTSIDE}
    BY <2>1
  <2>3. Cardinality({EOC, OUTSIDE}) <= 2
    BY PairCount
  <2> QED BY <2>2, <2>3, Fat32Assumption
<1>3. INVALID # OUTSIDE
  <2>1. SUFFICES ASSUME INVALID = OUTSIDE PROVE FALSE
    OBVIOUS
  <2>2. {EOC, OUTSIDE, INVALID} = {EOC, OUTSIDE}
    BY <2>1
  <2>3. Cardinality({EOC, OUTSIDE}) <= 2
    BY PairCount
  <2> QED BY <2>2, <2>3, Fat32Assumption
<1> QED BY <1>1, <1>2, <1>3, Fat32Assumption DEF Numbers, Entries

\* Every entry has one place in the order of hits.
LEMMA PlaceIsFound ==
  ASSUME NEW N \in Nat, NEW o, Ordered(o, N), NEW e \in 1 .. N
  PROVE  /\ Place(o, e) \in 1 .. N /\ o[Place(o, e)] = e
         /\ \A i \in 1 .. N : o[i] = e => Place(o, e) = i
<1>1. DOMAIN o = 1 .. N /\ \E i \in 1 .. N : o[i] = e
  BY RangeBySeq DEF Ordered
<1> QED BY <1>1 DEF Place, Ordered, Once

\* The entry that is hit comes last, the others keep their order.
LEMMA TouchedPlaces ==
  ASSUME NEW N \in Nat, NEW o, Ordered(o, N), NEW e \in 1 .. N
  PROVE  /\ Ordered(MovedLast(o, e), N) /\ Place(MovedLast(o, e), e) = N
         /\ \A f \in 1 .. N \ {e} :
              /\ Place(o, f) < Place(o, e) => Place(MovedLast(o, e), f) = Place(o, f)
              /\ Place(o, f) > Place(o, e) => Place(MovedLast(o, e), f) = Place(o, f) - 1
<1> DEFINE p == MovedLast(o, e)  n == Place(o, e)  q == RemoveAt(o, n)  E == 1 .. N
<1>1. n \in 1 .. N /\ o[n] = e /\ o \in Seq(E) /\ Len(o) = N /\ Once(o) /\ Range(o) = E
  BY PlaceIsFound DEF Ordered
<1> HIDE DEF n
<1>2. q \in Seq(E) /\ Range(q) = E \ {e} /\ Once(q)
  BY <1>1, OutOfQueue
<1>3. Len(q) = N - 1 /\ \A k \in 1 .. N - 1 : q[k] = IF k < n THEN o[k] ELSE o[k + 1]
  BY <1>1, RemovedPlaces
<1> HIDE DEF q
<1>4. p = Append(q, e)
  BY DEF MovedLast, q, n
<1> HIDE DEF p
<1>5. p \in Seq(E) /\ Range(p) = E /\ Once(p)
  <2>1. e \in E /\ e \notin Range(q) /\ Range(q) \cup {e} = E
    BY <1>2
  <2> HIDE DEF E
  <2>2. Append(q, e) \in Seq(E) /\ Range(Append(q, e)) = Range(q) \cup {e} /\ Once(Append(q, e))
    BY <1>2, <2>1, BackOfQueue
  <2> QED BY <1>4, <2>1, <2>2
<1>6. Len(p) = N /\ p[N] = e /\ \A k \in 1 .. N - 1 : p[k] = q[k]
  <2>1. Len(p) = Len(q) + 1 /\ p[Len(q) + 1] = e /\ \A k \in 1 .. Len(q) : p[k] = q[k]
    BY <1>2, <1>4, AppendProperties
  <2> QED BY <2>1, <1>3
<1>7. Ordered(p, N)
  BY <1>5, <1>6 DEF Ordered
<1>8. Place(p, e) = N
  <2>1. N \in 1 .. N /\ p[N] = e
    BY <1>1, <1>6
  <2> QED BY <2>1, <1>7, PlaceIsFound
<1>9. ASSUME NEW f \in 1 .. N \ {e}
      PROVE  /\ Place(o, f) < n => Place(p, f) = Place(o, f)
             /\ Place(o, f) > n => Place(p, f) = Place(o, f) - 1
  <2> DEFINE i == Place(o, f)
  <2>1. i \in 1 .. N /\ o[i] = f
    BY PlaceIsFound
  <2> HIDE DEF i
  <2>2. ASSUME i < n PROVE Place(p, f) = i
    <3>1. i \in 1 .. N - 1
      BY <2>1, <2>2, <1>1
    <3>2. p[i] = f
      BY <3>1, <1>3, <1>6, <2>1, <2>2
    <3> QED BY <2>1, <3>2, <1>7, PlaceIsFound
  <2>3. ASSUME i > n PROVE Place(p, f) = i - 1
    <3>1. i - 1 \in 1 .. N - 1 /\ ~(i - 1 < n) /\ (i - 1) + 1 = i
      BY <2>1, <2>3, <1>1
    <3>2. p[i - 1] = f
      BY <3>1, <1>3, <1>6, <2>1
    <3>3. i - 1 \in 1 .. N
      BY <3>1
    <3> QED BY <3>2, <3>3, <1>7, PlaceIsFound
  <2> QED BY <2>2, <2>3 DEF i
<1> QED BY <1>7, <1>8, <1>9 DEF n, p

\* What get_cache_entry finds: the first entry that has the block, or the one whose last
\* hit is the longest ago.
LEMMA ChosenIsFirst ==
  ASSUME NEW N \in Nat \ {0}, NEW c, CacheShape(c, N), NEW b \in Numbers
  PROVE  /\ Chosen(c, b) \in 1 .. N
         /\ c.lba[Chosen(c, b)] = b => First(c, Chosen(c, b))
         /\ c.lba[Chosen(c, b)] # b => /\ \A f \in 1 .. N : c.lba[f] # b
                                       /\ Place(c.order, Chosen(c, b)) = 1
         /\ \A e \in 1 .. N : First(c, e) /\ c.lba[e] = b => Chosen(c, b) = e
<1>1. DOMAIN c.lba = 1 .. N /\ b # INVALID
  BY MarksAreApart DEF CacheShape
<1>2. Hits(c, b) \subseteq 1 .. N /\ \A f : f \in Hits(c, b) <=> f \in 1 .. N /\ c.lba[f] = b
  BY <1>1 DEF Hits
<1>3. CASE Hits(c, b) = {}
  <2>1. Chosen(c, b) = c.order[1]
    BY <1>3 DEF Chosen
  <2>2. c.order[1] \in 1 .. N /\ Place(c.order, c.order[1]) = 1
    <3>1. Ordered(c.order, N)
      BY DEF CacheShape
    <3>2. c.order[1] \in 1 .. N
      BY <3>1, ElementOfSeq DEF Ordered
    <3> QED BY <3>1, <3>2, PlaceIsFound
  <2> QED BY <1>2, <1>3, <2>1, <2>2
<1>4. CASE Hits(c, b) # {}
  <2>1. \E e \in Hits(c, b) : \A f \in Hits(c, b) : e <= f
    BY <1>2, <1>4, LeastNumber
  <2>2. Chosen(c, b) \in Hits(c, b) /\ \A f \in Hits(c, b) : Chosen(c, b) <= f
    BY <1>4, <2>1 DEF Chosen
  <2>3. First(c, Chosen(c, b))
    BY <1>1, <1>2, <2>2 DEF First
  <2>4. ASSUME NEW e \in 1 .. N, First(c, e), c.lba[e] = b PROVE Chosen(c, b) = e
    <3>1. e \in Hits(c, b) /\ e <= Chosen(c, b)
      BY <1>1, <1>2, <2>2, <2>4 DEF First
    <3> QED BY <2>2, <3>1, <1>2
  <2> QED BY <1>2, <2>2, <2>3, <2>4
<1> QED BY <1>3, <1>4

-----------------------------------------------------------------------------
(* Choosing an entry *)

\* From c to d the entry e came last.
CameLast(c, d, e, N) ==
  /\ Place(d.order, e) = N
  /\ \A f \in 1 .. N : f # e => /\ Earlier(d, f, e)
                                /\ Place(c.order, f) \in 1 .. N /\ Place(d.order, f) \in 1 .. N
                                /\ Place(d.order, f) >= Place(c.order, f) - 1
                                /\ Earlier(c, e, f) \/ Earlier(c, f, e)
  /\ \A f, g \in 1 .. N : f # e /\ g # e /\ Earlier(c, f, g) => Earlier(d, f, g)

Claimed(c, d, e, missing, N) ==
  /\ CacheShape(d, N) /\ CameLast(c, d, e, N)
  /\ d.lba = IF missing THEN [c.lba EXCEPT ![e] = INVALID] ELSE c.lba
  /\ d.content = IF missing THEN [c.content EXCEPT ![e] = Garbage] ELSE c.content

\* No two entries have the same place.
LEMMA PlacesDiffer ==
  ASSUME NEW N \in Nat, NEW o, Ordered(o, N), NEW e \in 1 .. N, NEW f \in 1 .. N, e # f
  PROVE  Place(o, e) < Place(o, f) \/ Place(o, f) < Place(o, e)
<1>1. /\ Place(o, e) \in 1 .. N /\ o[Place(o, e)] = e
      /\ Place(o, f) \in 1 .. N /\ o[Place(o, f)] = f
  BY PlaceIsFound
<1> QED BY <1>1

\* What get_cache_entry does to the order, and to an entry for a missing block.
LEMMA ClaimIsClaimed ==
  ASSUME NEW N \in Nat \ {0}, NEW c, CacheShape(c, N), NEW e \in 1 .. N, NEW missing \in BOOLEAN
  PROVE  Claimed(c, Claim(c, e, missing), e, missing, N)
<1> DEFINE p == MovedLast(c.order, e)
           d == Claim(c, e, missing)
<1>1. Ordered(c.order, N)
  BY DEF CacheShape
<1>a. Touch(c, e) = [c EXCEPT !.order = p]
  BY DEF Touch
<1> HIDE DEF p
<1>2. /\ Ordered(p, N) /\ Place(p, e) = N
      /\ \A f \in 1 .. N \ {e} : /\ Place(c.order, f) < Place(c.order, e) => Place(p, f) = Place(c.order, f)
                                 /\ Place(c.order, f) > Place(c.order, e) => Place(p, f) = Place(c.order, f) - 1
  BY <1>1, TouchedPlaces DEF p
<1>3. Touch(c, e) = [lba |-> c.lba, content |-> c.content, order |-> p]
  BY <1>a DEF CacheShape
<1>4. /\ d.lba = IF missing THEN [c.lba EXCEPT ![e] = INVALID] ELSE c.lba
      /\ d.content = IF missing THEN [c.content EXCEPT ![e] = Garbage] ELSE c.content
      /\ d.order = p
      /\ d = [lba |-> d.lba, content |-> d.content, order |-> d.order]
  <2>1. CASE missing
    <3>1. d = [[lba |-> c.lba, content |-> c.content, order |-> p] EXCEPT !.lba[e] = INVALID, !.content[e] = Garbage]
      BY <1>3, <2>1 DEF Claim
    <3>2. d = [lba |-> [c.lba EXCEPT ![e] = INVALID], content |-> [c.content EXCEPT ![e] = Garbage], order |-> p]
      BY <3>1
    <3> HIDE DEF d
    <3> QED BY <2>1, <3>2
  <2>2. CASE ~missing
    BY <1>3, <2>2 DEF Claim
  <2> QED BY <2>1, <2>2
<1>5. Garbage \in Contents
  BY Fat32Assumption DEF Garbage, Contents
<1> HIDE DEF d
<1>6. CacheShape(d, N)
  <2>1. d.lba \in [1 .. N -> Clusters \cup {INVALID}]
    BY <1>4 DEF CacheShape
  <2>2. d.content \in [1 .. N -> Contents]
    BY <1>4, <1>5 DEF CacheShape
  <2>3. d.order \in Seq(1 .. N)
    BY <1>2, <1>4 DEF Ordered
  <2> QED BY <1>2, <1>4, <2>1, <2>2, <2>3 DEF CacheShape
<1>7. CameLast(c, d, e, N)
  <2>1. ASSUME NEW f \in 1 .. N, f # e
        PROVE  /\ Place(c.order, f) \in 1 .. N /\ Place(p, f) \in 1 .. N
               /\ Place(c.order, e) < Place(c.order, f) \/ Place(c.order, f) < Place(c.order, e)
               /\ Place(p, e) < Place(p, f) \/ Place(p, f) < Place(p, e)
    BY <1>1, <1>2, <2>1, PlaceIsFound, PlacesDiffer
  <2>2. Place(c.order, e) \in 1 .. N
    BY <1>1, PlaceIsFound
  <2>3. ASSUME NEW f \in 1 .. N, f # e
        PROVE  Place(p, f) < Place(p, e) /\ Place(p, f) >= Place(c.order, f) - 1
    BY <1>2, <2>1, <2>2, <2>3
  <2>4. ASSUME NEW f \in 1 .. N, NEW g \in 1 .. N, f # e, g # e, Place(c.order, f) < Place(c.order, g)
        PROVE  Place(p, f) < Place(p, g)
    BY <1>2, <2>1, <2>2, <2>4
  <2> QED BY <1>2, <1>4, <2>1, <2>3, <2>4 DEF CameLast, Earlier
<1> QED BY <1>4, <1>6, <1>7 DEF Claimed, d

\* Work that differs in nothing but the number of choices that others have made.
Alike(r, q) ==
  /\ q.pc = r.pc /\ q.write = r.write /\ q.cluster = r.cluster /\ q.kind = r.kind
  /\ q.entry = r.entry /\ q.storing = r.storing /\ q.err = r.err /\ q.inode = r.inode

\* In the threads th the thread t asks for its block and is given the entry e.
Asks(th, nx, t, e, missing, N) ==
  /\ t \in Threads /\ th[t].pc = "block"
  /\ \A u \in Threads : u # t => /\ Alike(th[u], nx[u])
                                 /\ UsesData(th[u]) => th[u].others < N - 1 /\ nx[u].others = th[u].others + 1
  /\ nx[t].kind = "data" /\ nx[t].entry = e /\ nx[t].others = 0 /\ ~nx[t].storing
  /\ nx[t].cluster = th[t].cluster /\ nx[t].write = th[t].write /\ nx[t].inode = th[t].inode
  /\ IF missing THEN nx[t].pc = "bus" \/ (nx[t].pc = "filled" /\ nx[t].err) ELSE nx[t].pc = "filled"

\* The entry e is what get_cache_entry finds for the block b.
Finds(c, b, e, missing, N) ==
  /\ e \in 1 .. N /\ b \in Numbers
  /\ IF missing THEN Place(c.order, e) = 1 /\ \A f \in 1 .. N : c.lba[f] # b
                ELSE First(c, e) /\ c.lba[e] = b

\* The threads th, of which t asks for a block of the cache c and is given the entry e.
AskedFor(c, d, dk, uw, th, nx, t, e, missing) ==
  /\ DataCacheIsSound(c, dk, uw, th) /\ AllWorkIsSound(th)
  /\ Finds(c, th[t].cluster, e, missing, cache_size.data) /\ Claimed(c, d, e, missing, cache_size.data)
  /\ Asks(th, nx, t, e, missing, cache_size.data)

\* The entries that others use are still theirs after a lookup.
LEMMA AskedForOthers ==
  ASSUME NEW c, NEW d, NEW dk, NEW uw, NEW th, NEW nx, NEW t, NEW e, NEW missing \in BOOLEAN,
         AskedFor(c, d, dk, uw, th, nx, t, e, missing), NEW u \in Threads, u # t, UsesData(th[u])
  PROVE  /\ EntryIsSound(nx[u], d, dk, cache_size.data)
         /\ missing => th[u].entry # e
<1> DEFINE N == cache_size.data  x == th[u].entry  b == th[t].cluster
<1>1. /\ N \in Nat \ {0} /\ x \in 1 .. N /\ e \in 1 .. N /\ DOMAIN c.lba = 1 .. N /\ DOMAIN d.lba = 1 .. N
      /\ INVALID \notin Numbers /\ Clusters \subseteq Numbers
  BY MarksAreApart DEF AskedFor, Finds, Claimed, CacheShape, DataCacheIsSound, AllWorkIsSound, WorkIsSound, UsesData, Numbers
<1>2. /\ CacheShape(c, N) /\ CameLast(c, d, e, N) /\ EntryIsSound(th[u], c, dk, N)
      /\ d.lba = IF missing THEN [c.lba EXCEPT ![e] = INVALID] ELSE c.lba
      /\ d.content = IF missing THEN [c.content EXCEPT ![e] = Garbage] ELSE c.content
  BY DEF AskedFor, Claimed, DataCacheIsSound
<1>3. /\ th[u] \in Work /\ WorkIsSound(th[u]) /\ WorkIsSound(th[t]) /\ Alone(th[u], th[t]) /\ Alone(th[t], th[u])
      /\ th[t].pc = "block"
  BY DEF AskedFor, AllWorkIsSound, Asks, WorkIsSound
<1>4. /\ Alike(th[u], nx[u]) /\ th[u].others < N - 1 /\ nx[u].others = th[u].others + 1
      /\ th[u].others \in Nat
  BY <1>3 DEF AskedFor, Asks, Work
<1>5. Finds(c, b, e, missing, N)
  BY DEF AskedFor
<1>6. missing => x # e
  BY <1>1, <1>2, <1>4, <1>5 DEF Finds, EntryIsSound
\* Nobody else uses what a writer uses.
<1>7. th[u].cluster = b /\ b \in Clusters => ~th[u].write /\ ~th[t].write
  BY <1>3 DEF WorkIsSound, Alone, UsesData, HasEntry
<1>8. d.lba[x] = c.lba[x] /\ d.content[x] = c.content[x]
  BY <1>1, <1>2, <1>6 DEF CacheShape
<1> HIDE DEF N, x, b
<1>9. CASE x = e
  <2>1. ~missing /\ First(c, e) /\ c.lba[e] = b /\ c.lba = d.lba /\ c.content = d.content
    BY <1>2, <1>5, <1>6, <1>9 DEF Finds
  <2>2. b # INVALID /\ b \in Clusters /\ th[u].cluster = b
    BY <1>1, <1>2, <1>5, <1>9, <2>1 DEF Finds, EntryIsSound, CacheShape, x
  <2>3. ~th[u].write
    BY <1>7, <2>2
  <2>4. Place(d.order, x) = N
    BY <1>2, <1>9 DEF CameLast
  <2>5. EntryIsSound(nx[u], d, dk, N)
    BY <1>1, <1>2, <1>4, <1>8, <1>9, <2>1, <2>2, <2>3, <2>4 DEF EntryIsSound, Alike, x
  <2> QED BY <1>6, <2>5 DEF x, N
<1>10. CASE x # e
  <2>1. ASSUME NEW f \in 1 .. N, d.lba[f] = th[u].cluster
        PROVE  f # e \/ ~missing
    <3>1. d.lba[f] # INVALID
      BY <1>1, <1>3, <2>1 DEF WorkIsSound, UsesData, HasEntry
    <3> QED BY <1>1, <1>2, <3>1 DEF CacheShape
  <2>2. ASSUME NEW f \in 1 .. N, d.lba[f] = th[u].cluster
        PROVE  c.lba[f] = th[u].cluster /\ d.content[f] = c.content[f]
    BY <1>1, <1>2, <2>1, <2>2 DEF CacheShape
  <2>3. Place(d.order, x) + nx[u].others >= N /\ nx[u].others < N
    <3>1. Place(c.order, x) \in 1 .. N /\ Place(d.order, x) \in 1 .. N /\ Place(d.order, x) >= Place(c.order, x) - 1
      BY <1>1, <1>2, <1>10 DEF CameLast, x
    <3>2. Place(c.order, x) + th[u].others >= N
      BY <1>2 DEF EntryIsSound, x
    <3> QED BY <1>1, <1>4, <3>1, <3>2
  <2>4. ASSUME th[u].write, d.lba[x] = th[u].cluster
        PROVE  /\ First(d, x)
               /\ \A f \in 1 .. N : d.lba[f] = th[u].cluster /\ f # x => Earlier(d, f, x)
    <3>1. First(c, x) /\ \A f \in 1 .. N : c.lba[f] = th[u].cluster /\ f # x => Earlier(c, f, x)
      BY <1>1, <1>2, <1>8, <2>4 DEF EntryIsSound, x
    <3>2. First(d, x)
      BY <1>1, <1>8, <2>2, <2>4, <3>1 DEF First
    <3>3. ASSUME NEW f \in 1 .. N, d.lba[f] = th[u].cluster, f # x PROVE Earlier(d, f, x)
      <4>1. f # e
        <5>1. SUFFICES ASSUME f = e PROVE FALSE
          OBVIOUS
        <5>2. ~missing /\ c.lba[e] = th[u].cluster
          BY <2>1, <2>2, <3>3, <5>1
        <5>3. b = th[u].cluster /\ b \in Clusters
          BY <1>1, <1>2, <1>5, <5>2 DEF Finds, CacheShape
        <5> QED BY <1>7, <2>4, <5>3
      <4>2. Earlier(c, f, x)
        BY <2>2, <3>1, <3>3
      <4> QED BY <1>1, <1>2, <1>10, <4>1, <4>2 DEF CameLast
    <3> QED BY <3>2, <3>3
  <2>5. EntryIsSound(nx[u], d, dk, N)
    BY <1>1, <1>2, <1>4, <1>8, <2>2, <2>3, <2>4 DEF EntryIsSound, Alike, x
  <2> QED BY <1>6, <2>5 DEF x, N
<1> QED BY <1>9, <1>10

\* The entry that a lookup gives is sound for the thread that asked.
LEMMA AskedForOwn ==
  ASSUME NEW c, NEW d, NEW dk, NEW uw, NEW th, NEW nx, NEW t, NEW e, NEW missing \in BOOLEAN,
         AskedFor(c, d, dk, uw, th, nx, t, e, missing)
  PROVE  EntryIsSound(nx[t], d, dk, cache_size.data)
<1> DEFINE N == cache_size.data  b == th[t].cluster
<1>1. /\ N \in Nat \ {0} /\ e \in 1 .. N /\ b \in Numbers /\ INVALID \notin Numbers
      /\ DOMAIN c.lba = 1 .. N /\ DOMAIN d.lba = 1 .. N
  BY MarksAreApart DEF AskedFor, Finds, Claimed, CacheShape, DataCacheIsSound
<1>2. /\ CacheShape(c, N) /\ CameLast(c, d, e, N) /\ Finds(c, b, e, missing, N)
      /\ d.lba = IF missing THEN [c.lba EXCEPT ![e] = INVALID] ELSE c.lba
  BY DEF AskedFor, Claimed, DataCacheIsSound
<1>3. /\ nx[t].entry = e /\ nx[t].others = 0 /\ ~nx[t].storing /\ nx[t].cluster = b
      /\ IF missing THEN nx[t].pc = "bus" \/ (nx[t].pc = "filled" /\ nx[t].err) ELSE nx[t].pc = "filled"
  BY DEF AskedFor, Asks
<1> HIDE DEF N, b
<1>4. Place(d.order, e) = N /\ \A f \in 1 .. N : f # e => Earlier(d, f, e)
  BY <1>2 DEF CameLast
<1>5. CASE missing
  <2>1. d.lba[e] = INVALID /\ \A f \in 1 .. N : d.lba[f] # b
    BY <1>1, <1>2, <1>5 DEF Finds, CacheShape
  <2> QED BY <1>1, <1>3, <1>4, <1>5, <2>1 DEF EntryIsSound, N
<1>6. CASE ~missing
  <2>1. d.lba = c.lba /\ d.lba[e] = b /\ First(d, e)
    BY <1>1, <1>2, <1>6 DEF Finds, First
  <2> QED BY <1>1, <1>3, <1>4, <1>6, <2>1 DEF EntryIsSound, N
<1> QED BY <1>5, <1>6

\* Of the copies of a block that stay, those that differ from the first one still go first.
LEMMA CopiesAfterClaim ==
  ASSUME NEW N \in Nat \ {0}, NEW c, NEW d, NEW b, NEW e, NEW missing \in BOOLEAN,
         CacheShape(c, N), Finds(c, b, e, missing, N), Claimed(c, d, e, missing, N), CopiesGoFirst(c),
         b \in Numbers
  PROVE  /\ CopiesGoFirst(d)
         /\ \A g \in 1 .. N : First(d, g) =>
              \E h \in 1 .. N : First(c, h) /\ c.lba[h] = d.lba[g] /\ c.content[h] = d.content[g]
<1>1. /\ DOMAIN c.lba = 1 .. N /\ DOMAIN d.lba = 1 .. N /\ e \in 1 .. N /\ CameLast(c, d, e, N)
      /\ d.lba = IF missing THEN [c.lba EXCEPT ![e] = INVALID] ELSE c.lba
      /\ d.content = IF missing THEN [c.content EXCEPT ![e] = Garbage] ELSE c.content
      /\ c.content \in [1 .. N -> Contents]
  BY DEF Claimed, CacheShape, Finds
<1>2. CASE missing
  <2>1. ASSUME NEW f \in 1 .. N, d.lba[f] # INVALID
        PROVE  f # e /\ d.lba[f] = c.lba[f] /\ d.content[f] = c.content[f]
    BY <1>1, <1>2, <2>1
  <2>2. Place(c.order, e) = 1
    BY <1>2 DEF Finds
  <2>3. \A f \in 1 .. N : ~Earlier(c, f, e)
    <3>1. SUFFICES ASSUME NEW f \in 1 .. N, Earlier(c, f, e) PROVE FALSE
      OBVIOUS
    <3>2. f # e
      BY <2>2, <3>1 DEF Earlier
    <3>3. Place(c.order, f) \in 1 .. N
      BY <1>1, <3>2 DEF CameLast
    <3> QED BY <2>2, <3>1, <3>3 DEF Earlier
  \* If the first entry of a block goes, what was found is found in the next one.
  <2>4. ASSUME NEW g \in 1 .. N, First(d, g), ~First(c, g)
        PROVE  First(c, e) /\ c.lba[e] = d.lba[g] /\ \A f \in 1 .. N : d.lba[f] = d.lba[g] => c.content[e] = d.content[f]
    <3>1. d.lba[g] # INVALID /\ c.lba[g] = d.lba[g] /\ \A f \in 1 .. N : d.lba[f] = d.lba[g] => g <= f
      BY <1>1, <2>1, <2>4 DEF First
    <3>2. PICK f \in 1 .. N : c.lba[f] = c.lba[g] /\ ~(g <= f)
      BY <1>1, <2>4, <3>1 DEF First
    <3>3. f = e
      BY <1>1, <1>2, <3>1, <3>2
    <3>4. First(c, e)
      <4>1. ASSUME NEW k \in 1 .. N, c.lba[k] = c.lba[e] PROVE e <= k
        <5>1. CASE k = e
          BY <5>1
        <5>2. CASE k # e
          <6>1. d.lba[k] = d.lba[g]
            BY <1>1, <1>2, <3>1, <3>2, <3>3, <4>1, <5>2
          <6> QED BY <3>1, <3>2, <3>3, <6>1
        <5> QED BY <5>1, <5>2
      <4> QED BY <1>1, <3>1, <3>2, <3>3, <4>1 DEF First
    <3>5. ASSUME NEW k \in 1 .. N, d.lba[k] = d.lba[g] PROVE c.content[e] = d.content[k]
      <4>1. c.lba[k] = c.lba[e] /\ d.content[k] = c.content[k]
        BY <2>1, <3>1, <3>2, <3>3, <3>5
      <4> QED BY <1>1, <2>3, <3>4, <4>1 DEF CopiesGoFirst
    <3> QED BY <3>1, <3>2, <3>3, <3>4, <3>5
  <2>5. ASSUME NEW g \in 1 .. N, NEW f \in 1 .. N, First(d, g), d.lba[f] = d.lba[g], d.content[f] # d.content[g]
        PROVE  Earlier(d, f, g)
    <3>1. d.lba[g] # INVALID /\ d.lba[f] # INVALID
      BY <2>5 DEF First
    <3>2. First(c, g)
      BY <2>4, <2>5
    <3>3. Earlier(c, f, g)
      BY <1>1, <2>1, <2>5, <3>1, <3>2 DEF CopiesGoFirst
    <3> QED BY <1>1, <2>1, <3>1, <3>3 DEF CameLast
  <2>6. ASSUME NEW g \in 1 .. N, First(d, g)
        PROVE  \E h \in 1 .. N : First(c, h) /\ c.lba[h] = d.lba[g] /\ c.content[h] = d.content[g]
    <3>1. CASE First(c, g)
      BY <2>1, <2>6, <3>1 DEF First
    <3>2. CASE ~First(c, g)
      BY <1>1, <2>4, <2>6, <3>2
    <3> QED BY <3>1, <3>2
  <2> QED BY <1>1, <2>5, <2>6 DEF CopiesGoFirst
<1>3. CASE ~missing
  <2>1. d.lba = c.lba /\ d.content = c.content /\ First(c, e)
    BY <1>1, <1>3 DEF Finds
  <2>2. \A g : First(d, g) <=> First(c, g)
    BY <2>1 DEF First
  <2>3. ASSUME NEW g \in 1 .. N, NEW f \in 1 .. N, First(d, g), d.lba[f] = d.lba[g], d.content[f] # d.content[g]
        PROVE  Earlier(d, f, g)
    <3>1. First(c, g) /\ Earlier(c, f, g) /\ f # g
      BY <1>1, <2>1, <2>2, <2>3 DEF CopiesGoFirst
    <3>2. CASE g = e
      BY <1>1, <3>1, <3>2 DEF CameLast
    <3>3. CASE g # e
      <4>1. f # e
        BY <1>1, <2>1, <2>3, <3>1, <3>3 DEF First
      <4> QED BY <1>1, <3>1, <3>3, <4>1 DEF CameLast
    <3> QED BY <3>2, <3>3
  <2> QED BY <1>1, <2>1, <2>2, <2>3 DEF CopiesGoFirst
<1> QED BY <1>2, <1>3

\* A lookup keeps the data cache sound.
LEMMA AskKeepsData ==
  ASSUME NEW c, NEW d, NEW dk, NEW uw, NEW th, NEW nx, NEW t, NEW e, NEW missing \in BOOLEAN,
         AskedFor(c, d, dk, uw, th, nx, t, e, missing)
  PROVE  DataCacheIsSound(d, dk, uw, nx)
<1> DEFINE N == cache_size.data  b == th[t].cluster
<1>1. /\ N \in Nat \ {0} /\ e \in 1 .. N /\ b \in Numbers /\ INVALID \notin Numbers
      /\ DOMAIN c.lba = 1 .. N /\ DOMAIN d.lba = 1 .. N
  BY MarksAreApart DEF AskedFor, Finds, Claimed, CacheShape, DataCacheIsSound
<1>2. /\ CacheShape(c, N) /\ Finds(c, b, e, missing, N) /\ Claimed(c, d, e, missing, N) /\ CacheShape(d, N)
      /\ d.lba = IF missing THEN [c.lba EXCEPT ![e] = INVALID] ELSE c.lba
      /\ d.content = IF missing THEN [c.content EXCEPT ![e] = Garbage] ELSE c.content
      /\ DataCacheIsSound(c, dk, uw, th)
  BY DEF AskedFor, Claimed, DataCacheIsSound
<1>3. /\ t \in Threads /\ th[t].pc = "block"
      /\ \A u \in Threads : u # t => Alike(th[u], nx[u])
      /\ nx[t].entry = e /\ ~nx[t].storing
  BY DEF AskedFor, Asks
<1>4. Labelled(d)
  BY <1>1, <1>2 DEF Labelled, DataCacheIsSound, CacheShape
<1>5. \A u \in Threads : u # t => (UsesData(nx[u]) <=> UsesData(th[u]))
  BY <1>3 DEF Alike, UsesData, HasEntry
<1>6. ASSUME NEW u \in Threads, UsesData(nx[u]) PROVE EntryIsSound(nx[u], d, dk, N)
  BY <1>5, <1>6, AskedForOwn, AskedForOthers
<1>7. ASSUME NEW u \in Threads, u # t, UsesData(th[u]) PROVE missing => th[u].entry # e
  <2>1. CASE missing = TRUE
    <3>1. AskedFor(c, d, dk, uw, th, nx, t, e, TRUE)
      BY <2>1
    <3> QED BY <1>7, <3>1, AskedForOthers
  <2> QED BY <2>1
<1>8. ASSUME NEW u \in Threads, NEW v \in Threads, u # v, UsesData(nx[u]), UsesData(nx[v])
      PROVE  Unshared(nx[u], nx[v], d)
  <2>1. CASE u # t /\ v # t
    <3>1. Unshared(th[u], th[v], c) /\ nx[u].entry = th[u].entry /\ nx[v].entry = th[v].entry
      BY <1>2, <1>3, <1>5, <1>8, <2>1 DEF DataCacheIsSound, Alike
    <3>2. missing => th[u].entry # e
      BY <1>5, <1>7, <1>8, <2>1
    <3> QED BY <1>1, <1>2, <3>1, <3>2 DEF Unshared, CacheShape
  <2>2. CASE u = t \/ v = t
    <3>1. PICK w \in Threads : w # t /\ UsesData(th[w]) /\ {u, v} = {t, w} /\ nx[w].entry = th[w].entry
      BY <1>3, <1>5, <1>8, <2>2 DEF Alike
    <3>2. missing => th[w].entry # e
      BY <1>7, <3>1
    <3>3. nx[u].entry = nx[v].entry => ~missing /\ nx[u].entry = e
      BY <1>3, <3>1, <3>2
    <3>4. ~missing => d.lba[e] # INVALID
      BY <1>1, <1>2 DEF Finds
    <3> QED BY <3>3, <3>4 DEF Unshared
  <2> QED BY <2>1, <2>2
<1>9. /\ CopiesGoFirst(d)
      /\ \A g \in 1 .. N : First(d, g) =>
           \E h \in 1 .. N : First(c, h) /\ c.lba[h] = d.lba[g] /\ c.content[h] = d.content[g]
  <2>1. CopiesGoFirst(c)
    BY <1>2 DEF DataCacheIsSound
  <2> HIDE DEF N, b
  <2>2. N \in Nat \ {0} /\ b \in Numbers /\ CacheShape(c, N) /\ Finds(c, b, e, missing, N) /\ Claimed(c, d, e, missing, N)
    BY <1>1, <1>2
  <2>3. CASE missing = TRUE
    <3>1. Finds(c, b, e, TRUE, N) /\ Claimed(c, d, e, TRUE, N)
      BY <2>2, <2>3
    <3> QED BY <2>1, <2>2, <3>1, CopiesAfterClaim
  <2>4. CASE missing = FALSE
    <3>1. Finds(c, b, e, FALSE, N) /\ Claimed(c, d, e, FALSE, N)
      BY <2>2, <2>4
    <3> QED BY <2>1, <2>2, <3>1, CopiesAfterClaim
  <2> QED BY <2>3, <2>4
<1>10. FoundIsTrue(d, dk, uw, nx)
  <2> SUFFICES ASSUME NEW g \in 1 .. N, First(d, g), d.lba[g] \notin uw, \A u \in Threads : ~Stores(nx[u], d.lba[g])
               PROVE  d.content[g] = dk[d.lba[g]]
    BY <1>1 DEF FoundIsTrue
  <2>1. PICK h \in 1 .. N : First(c, h) /\ c.lba[h] = d.lba[g] /\ c.content[h] = d.content[g]
    BY <1>9
  <2>2. \A u \in Threads : ~Stores(th[u], c.lba[h])
    BY <1>3, <2>1 DEF Stores, Alike
  <2> QED BY <1>1, <1>2, <2>1, <2>2 DEF DataCacheIsSound, FoundIsTrue
<1> QED BY <1>2, <1>4, <1>6, <1>8, <1>9, <1>10 DEF DataCacheIsSound

-----------------------------------------------------------------------------
(* Threads that go on without the data cache, and the disk *)

\* The thread t has come from work with an entry, or without, to work without one.
LEMMA LeavingKeepsData ==
  ASSUME NEW c, NEW dk, NEW uw, NEW th, NEW nx, NEW t \in Threads,
         DataCacheIsSound(c, dk, uw, th), \A u \in Threads : u # t => nx[u] = th[u],
         ~UsesData(nx[t]), ~(th[t].pc = "bus" /\ th[t].storing)
  PROVE  DataCacheIsSound(c, dk, uw, nx)
<1>1. \A u \in Threads : UsesData(nx[u]) => u # t
  OBVIOUS
<1>2. /\ \A u \in Threads : UsesData(nx[u]) => EntryIsSound(nx[u], c, dk, cache_size.data)
      /\ \A u, v \in Threads : u # v /\ UsesData(nx[u]) /\ UsesData(nx[v]) => Unshared(nx[u], nx[v], c)
  BY <1>1 DEF DataCacheIsSound
<1>3. FoundIsTrue(c, dk, uw, nx)
  <2>1. \A b : (\A u \in Threads : ~Stores(nx[u], b)) => \A u \in Threads : ~Stores(th[u], b)
    BY DEF Stores
  <2> QED BY <2>1 DEF DataCacheIsSound, FoundIsTrue
<1> QED BY <1>2, <1>3 DEF DataCacheIsSound

\* Nothing that the data cache depends on is different.
LEMMA AlikeKeepsData ==
  ASSUME NEW c, NEW dk, NEW uw, NEW th, NEW nx, DataCacheIsSound(c, dk, uw, th),
         \A u \in Threads : Alike(th[u], nx[u]) /\ nx[u].others = th[u].others
  PROVE  DataCacheIsSound(c, dk, uw, nx)
<1>1. \A u \in Threads : UsesData(nx[u]) <=> UsesData(th[u])
  BY DEF Alike, UsesData, HasEntry
<1>2. ASSUME NEW u \in Threads, UsesData(nx[u]) PROVE EntryIsSound(nx[u], c, dk, cache_size.data)
  <2>1. EntryIsSound(th[u], c, dk, cache_size.data)
    BY <1>1, <1>2 DEF DataCacheIsSound
  <2> QED BY <2>1 DEF EntryIsSound, Alike
<1>3. ASSUME NEW u \in Threads, NEW v \in Threads, u # v, UsesData(nx[u]), UsesData(nx[v])
      PROVE  Unshared(nx[u], nx[v], c)
  <2>1. Unshared(th[u], th[v], c)
    BY <1>1, <1>3 DEF DataCacheIsSound
  <2> QED BY <2>1 DEF Unshared, Alike
<1>4. FoundIsTrue(c, dk, uw, nx)
  <2>1. \A b : (\A u \in Threads : ~Stores(nx[u], b)) => \A u \in Threads : ~Stores(th[u], b)
    BY DEF Stores, Alike
  <2> QED BY <2>1 DEF DataCacheIsSound, FoundIsTrue
<1> QED BY <1>2, <1>3, <1>4 DEF DataCacheIsSound

-----------------------------------------------------------------------------
(* Filling entries and writing blocks *)

\* All threads but t go on as they were.
OnlyOne(th, nx, t) == t \in Threads /\ \A u \in Threads : u # t => nx[u] = th[u]

\* The thread t uses entry e for block b of the sound cache c.
Holds(c, dk, uw, th, t, e, b) ==
  /\ DataCacheIsSound(c, dk, uw, th) /\ AllWorkIsSound(th) /\ DiskIsSound(dk)
  /\ t \in Threads /\ UsesData(th[t]) /\ th[t].entry = e /\ th[t].cluster = b /\ b \in Clusters

\* What is known of the entry of a thread that uses one.
LEMMA HeldEntry ==
  ASSUME NEW c, NEW dk, NEW uw, NEW th, NEW t, NEW e, NEW b, Holds(c, dk, uw, th, t, e, b)
  PROVE  /\ e \in 1 .. cache_size.data /\ b # INVALID /\ INVALID \notin Clusters /\ INVALID \notin Numbers
         /\ DOMAIN c.lba = 1 .. cache_size.data /\ CacheShape(c, cache_size.data)
         /\ EntryIsSound(th[t], c, dk, cache_size.data) /\ c.lba[e] \in {INVALID, b}
         /\ c.lba \in [1 .. cache_size.data -> Clusters \cup {INVALID}]
         /\ c.content \in [1 .. cache_size.data -> Contents] /\ dk \in [Clusters -> Blocks]
<1>1. e \in 1 .. cache_size.data /\ INVALID \notin Clusters /\ INVALID \notin Numbers
  BY MarksAreApart DEF Holds, AllWorkIsSound, WorkIsSound, UsesData
<1>2. CacheShape(c, cache_size.data) /\ EntryIsSound(th[t], c, dk, cache_size.data) /\ b \in Clusters
  BY DEF Holds, DataCacheIsSound
<1>3. c.lba[e] \in {INVALID, b}
  BY <1>2 DEF EntryIsSound, Holds
<1>4. dk \in [Clusters -> Blocks]
  BY DEF Holds, DiskIsSound
<1> QED BY <1>1, <1>2, <1>3, <1>4 DEF CacheShape

\* What is known of another thread that uses an entry.
LEMMA OthersHold ==
  ASSUME NEW c, NEW dk, NEW uw, NEW th, NEW t, NEW e, NEW b, Holds(c, dk, uw, th, t, e, b),
         NEW u \in Threads, u # t, UsesData(th[u])
  PROVE  /\ th[u].entry \in 1 .. cache_size.data /\ EntryIsSound(th[u], c, dk, cache_size.data)
         /\ th[u].cluster \in Numbers
         /\ th[u].pc = "filled" /\ ~th[u].err => th[u].cluster \in Clusters
         /\ th[u].cluster = b => ~th[u].write /\ ~th[t].write
         /\ c.lba[e] = INVALID => th[u].entry # e
         /\ th[t].write => th[u].entry # e /\ th[u].cluster # b
<1>1. /\ WorkIsSound(th[u]) /\ WorkIsSound(th[t]) /\ Alone(th[u], th[t])
      /\ EntryIsSound(th[u], c, dk, cache_size.data) /\ Unshared(th[t], th[u], c)
  BY DEF Holds, AllWorkIsSound, DataCacheIsSound
<1>2. th[u].entry \in 1 .. cache_size.data /\ th[u].cluster \in Numbers
  BY <1>1, MarksAreApart DEF WorkIsSound, UsesData, HasEntry
<1>3. th[u].cluster = b => ~th[u].write /\ ~th[t].write
  BY <1>1 DEF WorkIsSound, Alone, UsesData, HasEntry, Holds
<1>4. c.lba[e] = INVALID => th[u].entry # e
  BY <1>1 DEF Unshared, Holds
<1>5. th[t].write => th[u].entry # e /\ th[u].cluster # b
  <2>1. SUFFICES ASSUME th[t].write, th[u].entry = e PROVE FALSE
    BY <1>3
  <2>2. c.lba[e] # INVALID /\ c.lba[e] \in {INVALID, b} /\ c.lba[e] \in {INVALID, th[u].cluster}
    BY <1>1, <1>4, <2>1, HeldEntry DEF EntryIsSound
  <2> QED BY <1>3, <2>1, <2>2
<1>6. th[u].pc = "filled" /\ ~th[u].err => th[u].cluster \in Clusters
  BY <1>1 DEF WorkIsSound
<1> QED BY <1>1, <1>2, <1>3, <1>4, <1>5, <1>6

\* The threads in their pairs, when only t has changed and keeps its entry or leaves it.
LEMMA PairsKept ==
  ASSUME NEW c, NEW d, NEW dk, NEW uw, NEW th, NEW nx, NEW t, DataCacheIsSound(c, dk, uw, th),
         OnlyOne(th, nx, t), UsesData(nx[t]) => UsesData(th[t]) /\ nx[t].entry = th[t].entry,
         \A x : c.lba[x] # INVALID => d.lba[x] # INVALID,
         NEW u \in Threads, NEW v \in Threads, u # v, UsesData(nx[u]), UsesData(nx[v])
  PROVE  Unshared(nx[u], nx[v], d)
<1>1. \A w \in Threads : UsesData(nx[w]) => UsesData(th[w]) /\ nx[w].entry = th[w].entry
  BY DEF OnlyOne
<1>2. Unshared(th[u], th[v], c)
  BY <1>1 DEF DataCacheIsSound
<1> QED BY <1>1, <1>2 DEF Unshared

\* What the entry of a thread with work r depends on is the same, or is loaded for a reader.
KeptFor(r, c, d, dk, dn, N) ==
  /\ N \in Nat /\ EntryIsSound(r, c, dk, N) /\ r.entry \in 1 .. N
  /\ DOMAIN c.lba = 1 .. N /\ DOMAIN d.lba = 1 .. N /\ d.order = c.order /\ r.cluster # INVALID
  /\ d.lba[r.entry] = c.lba[r.entry] /\ d.content[r.entry] = c.content[r.entry]
  /\ r.pc = "filled" /\ ~r.err => dn[r.cluster] = dk[r.cluster]
  /\ \A f \in 1 .. N : d.lba[f] = r.cluster =>
       \/ c.lba[f] = r.cluster /\ d.content[f] = c.content[f] /\ dn[r.cluster] = dk[r.cluster]
       \/ ~r.write /\ d.content[f] = dn[r.cluster]

\* An entry whose number and content stay is sound as long as its block on the disk stays.
LEMMA EntryKept ==
  ASSUME NEW N, NEW r, NEW c, NEW d, NEW dk, NEW dn, KeptFor(r, c, d, dk, dn, N)
  PROVE  EntryIsSound(r, d, dn, N)
<1> USE DEF KeptFor
<1>1. /\ c.lba[r.entry] \in {INVALID, r.cluster} /\ r.others < N /\ Place(c.order, r.entry) + r.others >= N
      /\ r.pc = "bus" /\ ~r.storing => c.lba[r.entry] = INVALID
      /\ r.storing => c.lba[r.entry] = r.cluster
  BY DEF EntryIsSound
<1>2. ASSUME d.lba[r.entry] = INVALID
      PROVE  /\ r.pc = "filled" /\ ~r.err => d.content[r.entry] = dn[r.cluster]
             /\ \A f \in DOMAIN d.lba : d.lba[f] = r.cluster => ~r.write /\ d.content[f] = dn[r.cluster]
  <2>1. /\ r.pc = "filled" /\ ~r.err => c.content[r.entry] = dk[r.cluster]
        /\ \A f \in 1 .. N : c.lba[f] = r.cluster => ~r.write /\ c.content[f] = dk[r.cluster]
    BY <1>2 DEF EntryIsSound
  <2> QED BY <2>1
<1>3. ASSUME r.write, d.lba[r.entry] = r.cluster
      PROVE  First(d, r.entry) /\ \A f \in DOMAIN d.lba : d.lba[f] = r.cluster /\ f # r.entry => Earlier(d, f, r.entry)
  <2>1. /\ First(c, r.entry) /\ \A f \in 1 .. N : c.lba[f] = r.cluster /\ f # r.entry => Earlier(c, f, r.entry)
    BY <1>3 DEF EntryIsSound
  <2>2. \A f \in 1 .. N : d.lba[f] = r.cluster => c.lba[f] = r.cluster
    BY <1>3
  <2>3. First(d, r.entry)
    BY <1>3, <2>1, <2>2 DEF First
  <2> QED BY <2>1, <2>2, <2>3 DEF Earlier
<1> QED BY <1>1, <1>2, <1>3 DEF EntryIsSound

\* The drive has read the block into the entry.
LEMMA ReadKeepsData ==
  ASSUME NEW c, NEW d, NEW dk, NEW uw, NEW th, NEW nx, NEW t, NEW e, NEW b, Holds(c, dk, uw, th, t, e, b),
         th[t].pc = "bus", ~th[t].storing, OnlyOne(th, nx, t),
         d = [c EXCEPT !.content[e] = dk[b]],
         nx[t] = [th[t] EXCEPT !.pc = "filled", !.retries = 0]
  PROVE  DataCacheIsSound(d, dk, uw, nx)
<1> DEFINE N == cache_size.data
<1>1. /\ e \in 1 .. N /\ b # INVALID /\ INVALID \notin Clusters /\ INVALID \notin Numbers
      /\ DOMAIN c.lba = 1 .. N /\ CacheShape(c, N) /\ EntryIsSound(th[t], c, dk, N) /\ c.lba[e] = INVALID
      /\ c.content \in [1 .. N -> Contents] /\ dk \in [Clusters -> Blocks]
      /\ DataCacheIsSound(c, dk, uw, th) /\ b \in Clusters /\ th[t] \in Work
  <2>1. th[t] \in Work /\ th[t].entry = e
    BY DEF Holds, AllWorkIsSound
  <2>2. EntryIsSound(th[t], c, dk, N)
    BY HeldEntry
  <2> QED BY <2>1, <2>2, HeldEntry DEF Holds, EntryIsSound
<1>2. /\ d.lba = c.lba /\ d.order = c.order /\ d.content = [c.content EXCEPT ![e] = dk[b]]
      /\ CacheShape(d, N)
  <2>1. d = [lba |-> c.lba, content |-> [c.content EXCEPT ![e] = dk[b]], order |-> c.order]
    BY <1>1 DEF CacheShape
  <2>2. dk[b] \in Contents
    BY <1>1 DEF Contents, Blocks
  <2>3. d.lba = c.lba /\ d.order = c.order /\ d.content = [c.content EXCEPT ![e] = dk[b]]
    BY <2>1
  <2>4. d.content \in [1 .. N -> Contents]
    BY <1>1, <2>2, <2>3
  <2>5. d = [lba |-> d.lba, content |-> d.content, order |-> d.order]
    BY <2>1, <2>3
  <2> QED BY <1>1, <2>3, <2>4, <2>5 DEF CacheShape
<1>3. \A f \in 1 .. N : d.lba[f] # INVALID => d.content[f] = c.content[f]
  BY <1>1, <1>2
<1>4. /\ nx[t].pc = "filled" /\ nx[t].write = th[t].write /\ nx[t].cluster = b /\ nx[t].kind = "data"
      /\ nx[t].entry = e /\ ~nx[t].storing /\ nx[t].others = th[t].others /\ UsesData(nx[t])
      /\ nx[t].err = th[t].err
  BY <1>1 DEF Holds, UsesData, HasEntry, Work
<1> HIDE DEF N
<1>5. ASSUME NEW u \in Threads, UsesData(nx[u]) PROVE EntryIsSound(nx[u], d, dk, N)
  <2>1. CASE u = t
    <3>1. d.content[e] = dk[b]
      <4>1. e \in DOMAIN c.content /\ d.content = [c.content EXCEPT ![e] = dk[b]]
        BY <1>1, <1>2
      <4> QED BY <4>1
    <3>2. \A f \in 1 .. N : c.lba[f] = b => ~th[t].write /\ c.content[f] = dk[b]
      BY <1>1 DEF EntryIsSound, Holds
    <3>3. th[t].others < N /\ Place(c.order, e) + th[t].others >= N
      BY <1>1 DEF EntryIsSound, Holds
    <3>4. \A f \in 1 .. N : d.lba[f] = b => ~nx[t].write /\ d.content[f] = dk[b]
      BY <1>1, <1>2, <1>3, <1>4, <3>2
    <3>5. d.lba[e] = INVALID /\ DOMAIN d.lba = 1 .. N
      BY <1>1, <1>2
    <3>6. d.lba[nx[t].entry] = INVALID /\ nx[t].cluster # INVALID /\ d.content[nx[t].entry] = dk[nx[t].cluster]
      BY <1>1, <1>4, <3>1, <3>5
    <3>7. nx[t].others < N /\ Place(d.order, nx[t].entry) + nx[t].others >= N
      BY <1>2, <1>4, <3>3
    <3>8. \A f \in DOMAIN d.lba : d.lba[f] = nx[t].cluster => ~nx[t].write /\ d.content[f] = dk[nx[t].cluster]
      BY <1>4, <3>4, <3>5
    <3> QED BY <1>4, <2>1, <3>6, <3>7, <3>8 DEF EntryIsSound
  <2>2. CASE u # t
    <3>1. /\ th[u].entry \in 1 .. N /\ EntryIsSound(th[u], c, dk, N) /\ th[u].entry # e /\ nx[u] = th[u]
          /\ th[u].cluster \in Numbers
      BY <1>1, <1>5, <2>2, OthersHold DEF OnlyOne, N
    <3>2. d.content[th[u].entry] = c.content[th[u].entry]
      BY <1>1, <1>2, <3>1
    <3>3. \A f \in 1 .. N : d.lba[f] = th[u].cluster => c.lba[f] = th[u].cluster /\ d.content[f] = c.content[f]
      BY <1>1, <1>2, <1>3, <3>1
    <3>4. th[u].cluster # INVALID /\ d.lba[th[u].entry] = c.lba[th[u].entry] /\ DOMAIN d.lba = 1 .. N /\ N \in Nat
      BY <1>1, <1>2, <3>1, MarksAreApart DEF N
    <3>5. \A f \in 1 .. N : d.lba[f] = th[u].cluster =>
            \/ c.lba[f] = th[u].cluster /\ d.content[f] = c.content[f] /\ dk[th[u].cluster] = dk[th[u].cluster]
            \/ ~th[u].write /\ d.content[f] = dk[th[u].cluster]
      BY <3>3
    <3>6. EntryIsSound(th[u], d, dk, N)
      <4>1. DOMAIN c.lba = 1 .. N /\ d.order = c.order
        BY <1>1, <1>2
      <4>2. KeptFor(th[u], c, d, dk, dk, N)
        BY <3>1, <3>2, <3>4, <3>5, <4>1 DEF KeptFor
      <4> QED BY <4>2, EntryKept
    <3> QED BY <3>1, <3>6
  <2> QED BY <2>1, <2>2
<1>6. ASSUME NEW u \in Threads, NEW v \in Threads, u # v, UsesData(nx[u]), UsesData(nx[v])
      PROVE  Unshared(nx[u], nx[v], d)
  <2>1. UsesData(nx[t]) => UsesData(th[t]) /\ nx[t].entry = th[t].entry
    BY <1>4 DEF Holds
  <2>2. \A x : c.lba[x] # INVALID => d.lba[x] # INVALID
    BY <1>2
  <2> QED BY <1>1, <1>6, <2>1, <2>2, PairsKept
<1>7. Labelled(d)
  <2>1. DOMAIN d.lba = 1 .. N /\ d.lba = c.lba /\ Labelled(c)
    BY <1>1, <1>2 DEF DataCacheIsSound
  <2> QED BY <1>1, <1>3, <2>1 DEF Labelled
<1>8. CopiesGoFirst(d)
  <2>1. CopiesGoFirst(c) /\ DOMAIN d.lba = 1 .. N /\ DOMAIN c.lba = 1 .. N /\ d.lba = c.lba /\ d.order = c.order
    BY <1>1, <1>2 DEF DataCacheIsSound
  <2>2. ASSUME NEW g \in 1 .. N, NEW f \in 1 .. N, First(d, g), d.lba[f] = d.lba[g], d.content[f] # d.content[g]
        PROVE  Earlier(d, f, g)
    <3>1. First(c, g) /\ c.lba[f] = c.lba[g] /\ d.lba[g] # INVALID /\ d.lba[f] # INVALID
      BY <2>1, <2>2 DEF First
    <3>2. c.content[f] # c.content[g]
      BY <1>3, <2>2, <3>1
    <3>3. Earlier(c, f, g)
      BY <2>1, <3>1, <3>2 DEF CopiesGoFirst
    <3> QED BY <2>1, <3>3 DEF Earlier
  <2> QED BY <2>1, <2>2 DEF CopiesGoFirst
<1>9. FoundIsTrue(d, dk, uw, nx)
  <2>1. ASSUME NEW x, \A u \in Threads : ~Stores(nx[u], x) PROVE \A u \in Threads : ~Stores(th[u], x)
    BY <2>1 DEF Stores, OnlyOne
  <2>2. FoundIsTrue(c, dk, uw, th) /\ DOMAIN c.lba = 1 .. N /\ DOMAIN d.lba = 1 .. N /\ d.lba = c.lba
    BY <1>1, <1>2 DEF DataCacheIsSound
  <2>3. ASSUME NEW g \in 1 .. N, First(d, g), d.lba[g] \notin uw, \A u \in Threads : ~Stores(nx[u], d.lba[g])
        PROVE  d.content[g] = dk[d.lba[g]]
    <3>1. First(c, g) /\ d.lba[g] # INVALID /\ \A u \in Threads : ~Stores(th[u], c.lba[g])
      BY <2>1, <2>2, <2>3 DEF First
    <3>2. c.content[g] = dk[c.lba[g]]
      BY <2>2, <2>3, <3>1 DEF FoundIsTrue
    <3> QED BY <1>3, <2>2, <3>1, <3>2
  <2> QED BY <2>2, <2>3 DEF FoundIsTrue
<1> QED BY <1>2, <1>5, <1>6, <1>7, <1>8, <1>9 DEF DataCacheIsSound, N

\* The entry e has got the number b and the content x.
Filled(c, d, e, b, x, N) ==
  /\ CacheShape(d, N) /\ d.order = c.order
  /\ d.lba = [c.lba EXCEPT ![e] = b] /\ d.content = [c.content EXCEPT ![e] = x]

\* What a thread that has waited for its block finds.
LEMMA FoundBlock ==
  ASSUME NEW c, NEW dk, NEW uw, NEW th, NEW t, NEW e, NEW b, Holds(c, dk, uw, th, t, e, b),
         th[t].pc = "filled", ~th[t].err
  PROVE  /\ c.content[e][1] = b
         /\ c.lba[e] = INVALID => /\ c.content[e] = dk[b]
                                  /\ \A f \in DOMAIN c.lba : c.lba[f] = b => ~th[t].write /\ c.content[f] = dk[b]
         /\ th[t].write /\ c.lba[e] = b =>
              First(c, e) /\ \A f \in DOMAIN c.lba : c.lba[f] = b /\ f # e => Earlier(c, f, e)
<1>1. /\ EntryIsSound(th[t], c, dk, cache_size.data) /\ Labelled(c) /\ DiskIsSound(dk)
      /\ th[t].entry = e /\ th[t].cluster = b /\ b \in Clusters
  BY DEF Holds, DataCacheIsSound
<1>2. /\ c.lba[e] = INVALID => /\ c.content[e] = dk[b]
                               /\ \A f \in DOMAIN c.lba : c.lba[f] = b => ~th[t].write /\ c.content[f] = dk[b]
      /\ th[t].write /\ c.lba[e] = b =>
           First(c, e) /\ \A f \in DOMAIN c.lba : c.lba[f] = b /\ f # e => Earlier(c, f, e)
  BY <1>1 DEF EntryIsSound
<1>3. CASE c.lba[e] = INVALID
  BY <1>1, <1>2, <1>3 DEF DiskIsSound
<1>4. CASE c.lba[e] = b
  <2>1. e \in DOMAIN c.lba /\ b # INVALID
    BY HeldEntry
  <2> QED BY <1>1, <1>2, <1>4, <2>1 DEF Labelled
<1> QED BY <1>2, <1>3, <1>4, HeldEntry

\* What the other threads use stays as it is, if none of them uses the entry, and those that
\* look for the same block only read it and may find it there.
LEMMA OthersAfterFilling ==
  ASSUME NEW c, NEW d, NEW dk, NEW uw, NEW th, NEW t, NEW e, NEW b, NEW x, Holds(c, dk, uw, th, t, e, b),
         Filled(c, d, e, b, x, cache_size.data), NEW u \in Threads, u # t, UsesData(th[u]),
         th[u].entry # e, th[u].cluster = b => x = dk[b]
  PROVE  EntryIsSound(th[u], d, dk, cache_size.data)
<1> DEFINE N == cache_size.data  y == th[u].entry
<1>1. /\ N \in Nat /\ e \in 1 .. N /\ DOMAIN c.lba = 1 .. N /\ INVALID \notin Numbers
      /\ c.lba \in [1 .. N -> Clusters \cup {INVALID}] /\ c.content \in [1 .. N -> Contents]
  BY HeldEntry, MarksAreApart
<1>2. /\ y \in 1 .. N /\ EntryIsSound(th[u], c, dk, N) /\ th[u].cluster \in Numbers
      /\ th[u].cluster = b => ~th[u].write
  BY OthersHold
<1>3. /\ d.order = c.order /\ d.lba = [c.lba EXCEPT ![e] = b] /\ d.content = [c.content EXCEPT ![e] = x]
  BY DEF Filled
<1> HIDE DEF N
<1>4. /\ DOMAIN d.lba = 1 .. N /\ d.lba[y] = c.lba[y] /\ d.content[y] = c.content[y]
      /\ d.lba[e] = b /\ d.content[e] = x
      /\ \A f \in 1 .. N : f # e => d.lba[f] = c.lba[f] /\ d.content[f] = c.content[f]
  BY <1>1, <1>2, <1>3
<1>5. \A f \in 1 .. N : d.lba[f] = th[u].cluster =>
        \/ c.lba[f] = th[u].cluster /\ d.content[f] = c.content[f] /\ dk[th[u].cluster] = dk[th[u].cluster]
        \/ ~th[u].write /\ d.content[f] = dk[th[u].cluster]
  BY <1>2, <1>4
<1>6. th[u].cluster # INVALID
  BY <1>1, <1>2
<1>7. KeptFor(th[u], c, d, dk, dk, N)
  BY <1>1, <1>2, <1>3, <1>4, <1>5, <1>6 DEF KeptFor
<1> QED BY <1>7, EntryKept DEF N

\* Of every other block the same is found as before.
LEMMA OtherBlocks ==
  ASSUME NEW c, NEW d, NEW dk, NEW uw, NEW th, NEW t, NEW e, NEW b, NEW x, Holds(c, dk, uw, th, t, e, b),
         Filled(c, d, e, b, x, cache_size.data), NEW g \in 1 .. cache_size.data, d.lba[g] # b
  PROVE  /\ g # e /\ d.lba[g] = c.lba[g] /\ d.content[g] = c.content[g]
         /\ First(d, g) => First(c, g)
         /\ \A f \in 1 .. cache_size.data : d.lba[f] = d.lba[g] => c.lba[f] = c.lba[g] /\ d.content[f] = c.content[f]
<1> DEFINE N == cache_size.data
<1>1. /\ e \in 1 .. N /\ DOMAIN c.lba = 1 .. N /\ c.lba[e] \in {INVALID, b}
      /\ c.lba \in [1 .. N -> Clusters \cup {INVALID}] /\ c.content \in [1 .. N -> Contents]
  BY HeldEntry
<1>2. /\ d.lba = [c.lba EXCEPT ![e] = b] /\ d.content = [c.content EXCEPT ![e] = x]
  BY DEF Filled
<1> HIDE DEF N
<1>3. /\ DOMAIN d.lba = 1 .. N /\ d.lba[e] = b
      /\ \A f \in 1 .. N : f # e => d.lba[f] = c.lba[f] /\ d.content[f] = c.content[f]
  BY <1>1, <1>2
<1>4. g \in 1 .. N /\ g # e
  BY <1>3 DEF N
<1>5. ASSUME First(d, g) PROVE First(c, g)
  <2>1. d.lba[g] # INVALID /\ \A f \in 1 .. N : d.lba[f] = d.lba[g] => g <= f
    BY <1>3, <1>5 DEF First
  <2>2. ASSUME NEW f \in 1 .. N, c.lba[f] = c.lba[g] PROVE g <= f
    <3>1. f # e
      BY <1>1, <1>3, <1>4, <2>1, <2>2
    <3> QED BY <1>3, <1>4, <2>1, <2>2, <3>1
  <2> QED BY <1>1, <1>3, <1>4, <2>1, <2>2 DEF First
<1> QED BY <1>3, <1>4, <1>5 DEF N

\* A reader has its block.
LEMMA TakeKeepsData ==
  ASSUME NEW c, NEW d, NEW dk, NEW uw, NEW th, NEW nx, NEW t, NEW e, NEW b, Holds(c, dk, uw, th, t, e, b),
         th[t].pc = "filled", ~th[t].err, ~th[t].write, OnlyOne(th, nx, t), ~UsesData(nx[t]),
         Filled(c, d, e, b, c.content[e], cache_size.data)
  PROVE  DataCacheIsSound(d, dk, uw, nx)
<1> DEFINE N == cache_size.data
<1>1. /\ e \in 1 .. N /\ DOMAIN c.lba = 1 .. N /\ c.lba[e] \in {INVALID, b} /\ b # INVALID
      /\ c.lba \in [1 .. N -> Clusters \cup {INVALID}] /\ c.content \in [1 .. N -> Contents]
      /\ DataCacheIsSound(c, dk, uw, th)
  BY HeldEntry DEF Holds
<1>2. /\ CacheShape(d, N) /\ d.order = c.order /\ d.lba = [c.lba EXCEPT ![e] = b] /\ d.content = c.content
  BY <1>1 DEF Filled
<1>3. CASE c.lba[e] = b
  <2>1. d.lba = c.lba
    BY <1>1, <1>2, <1>3
  <2>2. c = [lba |-> c.lba, content |-> c.content, order |-> c.order]
    BY <1>1 DEF DataCacheIsSound, CacheShape
  <2>3. d = [lba |-> d.lba, content |-> d.content, order |-> d.order]
    BY <1>2 DEF CacheShape
  <2>4. d = c
    BY <1>2, <2>1, <2>2, <2>3
  <2> QED BY <1>1, <2>4, LeavingKeepsData DEF OnlyOne
<1>4. CASE c.lba[e] = INVALID
  <2>1. /\ c.content[e] = dk[b] /\ c.content[e][1] = b
        /\ \A f \in 1 .. N : c.lba[f] = b => c.content[f] = dk[b]
    <3>1. /\ c.content[e][1] = b
          /\ c.lba[e] = INVALID => /\ c.content[e] = dk[b]
                                   /\ \A f \in DOMAIN c.lba : c.lba[f] = b => ~th[t].write /\ c.content[f] = dk[b]
      BY FoundBlock
    <3> QED BY <1>1, <1>4, <3>1
  <2>2. /\ DOMAIN d.lba = 1 .. N /\ d.lba[e] = b
        /\ \A f \in 1 .. N : f # e => d.lba[f] = c.lba[f]
        /\ \A f \in 1 .. N : d.lba[f] = b => d.content[f] = dk[b]
    BY <1>1, <1>2, <2>1
  <2>3. ASSUME NEW u \in Threads, UsesData(nx[u]) PROVE EntryIsSound(nx[u], d, dk, N)
    <3>1. u # t /\ nx[u] = th[u] /\ UsesData(th[u])
      BY <2>3 DEF OnlyOne
    <3>2. th[u].entry # e
      BY <1>4, <3>1, OthersHold
    <3> QED BY <2>1, <3>1, <3>2, OthersAfterFilling
  <2>4. ASSUME NEW u \in Threads, NEW v \in Threads, u # v, UsesData(nx[u]), UsesData(nx[v])
        PROVE  Unshared(nx[u], nx[v], d)
    <3>1. \A y : c.lba[y] # INVALID => d.lba[y] # INVALID
      BY <1>1, <1>2
    <3> QED BY <1>1, <2>4, <3>1, PairsKept
  <2>5. Labelled(d)
    <3>1. Labelled(c)
      BY <1>1 DEF DataCacheIsSound
    <3> QED BY <1>1, <1>2, <2>1, <2>2, <3>1 DEF Labelled
  <2>6. CopiesGoFirst(d)
    <3> SUFFICES ASSUME NEW g \in 1 .. N, NEW f \in 1 .. N, First(d, g), d.lba[f] = d.lba[g], d.content[f] # d.content[g]
                 PROVE  Earlier(d, f, g)
      BY <2>2 DEF CopiesGoFirst
    <3>1. d.lba[g] # b
      BY <2>2
    <3>2. /\ First(d, g) => First(c, g)
          /\ \A k \in 1 .. N : d.lba[k] = d.lba[g] => c.lba[k] = c.lba[g] /\ d.content[k] = c.content[k]
      BY <3>1, OtherBlocks
    <3>3. First(c, g) /\ c.lba[f] = c.lba[g] /\ c.content[f] # c.content[g]
      BY <3>2
    <3>4. Earlier(c, f, g)
      BY <1>1, <3>3 DEF DataCacheIsSound, CopiesGoFirst
    <3> QED BY <1>2, <3>4 DEF Earlier
  <2>7. FoundIsTrue(d, dk, uw, nx)
    <3> SUFFICES ASSUME NEW g \in 1 .. N, First(d, g), d.lba[g] \notin uw, \A u \in Threads : ~Stores(nx[u], d.lba[g])
                 PROVE  d.content[g] = dk[d.lba[g]]
      BY <2>2 DEF FoundIsTrue
    <3>1. CASE d.lba[g] = b
      BY <2>2, <3>1
    <3>2. CASE d.lba[g] # b
      <4>1. First(c, g) /\ c.lba[g] = d.lba[g] /\ c.content[g] = d.content[g]
        BY <3>2, OtherBlocks
      <4>2. \A u \in Threads : ~Stores(th[u], c.lba[g])
        BY <4>1 DEF Stores, OnlyOne
      <4> QED BY <1>1, <4>1, <4>2 DEF DataCacheIsSound, FoundIsTrue
    <3> QED BY <3>1, <3>2
  <2> QED BY <1>2, <2>3, <2>4, <2>5, <2>6, <2>7 DEF DataCacheIsSound
<1> QED BY <1>1, <1>3, <1>4

\* A writer has its block, changes the copy in the cache and begins to store it.
LEMMA PutKeepsData ==
  ASSUME NEW c, NEW d, NEW dk, NEW uw, NEW th, NEW nx, NEW t, NEW e, NEW b, NEW x, Holds(c, dk, uw, th, t, e, b),
         th[t].pc = "filled", ~th[t].err, th[t].write, OnlyOne(th, nx, t),
         nx[t] = [th[t] EXCEPT !.pc = "bus", !.storing = TRUE, !.retries = 0],
         Filled(c, d, e, b, x, cache_size.data), x[1] = b
  PROVE  DataCacheIsSound(d, dk, uw, nx)
<1> DEFINE N == cache_size.data
<1>1. /\ e \in 1 .. N /\ DOMAIN c.lba = 1 .. N /\ c.lba[e] \in {INVALID, b} /\ b # INVALID
      /\ c.lba \in [1 .. N -> Clusters \cup {INVALID}] /\ c.content \in [1 .. N -> Contents]
      /\ DataCacheIsSound(c, dk, uw, th) /\ EntryIsSound(th[t], c, dk, N)
      /\ th[t].cluster = b /\ th[t].entry = e /\ th[t] \in Work /\ UsesData(th[t])
  BY HeldEntry DEF Holds, AllWorkIsSound
<1>2. /\ CacheShape(d, N) /\ d.order = c.order /\ d.lba = [c.lba EXCEPT ![e] = b] /\ d.content = [c.content EXCEPT ![e] = x]
  BY DEF Filled
<1>3. /\ nx[t].pc = "bus" /\ nx[t].storing /\ nx[t].write /\ nx[t].cluster = b /\ nx[t].entry = e
      /\ nx[t].others = th[t].others /\ UsesData(nx[t])
  BY <1>1 DEF Work, UsesData, HasEntry
<1>4. /\ DOMAIN d.lba = 1 .. N /\ d.lba[e] = b /\ d.content[e] = x
      /\ \A f \in 1 .. N : f # e => d.lba[f] = c.lba[f] /\ d.content[f] = c.content[f]
  <2>1. /\ e \in 1 .. N /\ c.lba \in [1 .. N -> Clusters \cup {INVALID}] /\ c.content \in [1 .. N -> Contents]
        /\ d.lba = [c.lba EXCEPT ![e] = b] /\ d.content = [c.content EXCEPT ![e] = x]
    BY <1>1, <1>2
  <2> HIDE DEF N
  <2>2. DOMAIN d.lba = 1 .. N /\ d.lba[e] = b /\ \A f \in 1 .. N : f # e => d.lba[f] = c.lba[f]
    <3>1. e \in 1 .. N /\ c.lba \in [1 .. N -> Clusters \cup {INVALID}] /\ d.lba = [c.lba EXCEPT ![e] = b]
      BY <2>1
    <3> QED BY <3>1
  <2>3. d.content[e] = x /\ \A f \in 1 .. N : f # e => d.content[f] = c.content[f]
    <3>1. e \in 1 .. N /\ c.content \in [1 .. N -> Contents] /\ d.content = [c.content EXCEPT ![e] = x]
      BY <2>1
    <3> QED BY <3>1
  <2> QED BY <2>2, <2>3
\* Its entry is the one that is found, and all other copies go first.
<1>5. First(d, e) /\ \A f \in 1 .. N : d.lba[f] = b /\ f # e => Earlier(d, f, e)
  <2>0. /\ c.lba[e] = INVALID => /\ c.content[e] = dk[b]
                                 /\ \A f \in DOMAIN c.lba : c.lba[f] = b => ~th[t].write /\ c.content[f] = dk[b]
        /\ th[t].write /\ c.lba[e] = b =>
             First(c, e) /\ \A f \in DOMAIN c.lba : c.lba[f] = b /\ f # e => Earlier(c, f, e)
    BY FoundBlock
  <2> HIDE DEF N
  <2>1. CASE c.lba[e] = INVALID
    <3>1. \A f \in 1 .. N : c.lba[f] # b
      BY <1>1, <2>0, <2>1
    <3>2. \A f \in 1 .. N : d.lba[f] = b => f = e
      BY <1>4, <3>1
    <3> QED BY <1>1, <1>4, <3>2 DEF First
  <2>2. CASE c.lba[e] = b
    <3>1. First(c, e) /\ \A f \in 1 .. N : c.lba[f] = b /\ f # e => Earlier(c, f, e)
      BY <1>1, <2>0, <2>2
    <3>2. \A f \in 1 .. N : d.lba[f] = c.lba[f]
      BY <1>4, <2>2
    <3>3. First(d, e)
      BY <1>1, <1>4, <2>2, <3>1, <3>2 DEF First
    <3> QED BY <1>2, <3>1, <3>2, <3>3 DEF Earlier
  <2> QED BY <1>1, <2>1, <2>2
<1>6. ASSUME NEW u \in Threads, UsesData(nx[u]) PROVE EntryIsSound(nx[u], d, dk, N)
  <2>1. CASE u = t
    <3>1. th[t].others < N /\ Place(d.order, e) + th[t].others >= N
      BY <1>1, <1>2 DEF EntryIsSound
    <3>2. d.lba[nx[t].entry] = nx[t].cluster /\ nx[t].cluster # INVALID
      BY <1>1, <1>3, <1>4
    <3>3. nx[t].others < N /\ Place(d.order, nx[t].entry) + nx[t].others >= N
      BY <1>3, <3>1
    <3>4. /\ First(d, nx[t].entry)
          /\ \A f \in DOMAIN d.lba : d.lba[f] = nx[t].cluster /\ f # nx[t].entry => Earlier(d, f, nx[t].entry)
      BY <1>3, <1>4, <1>5
    <3> QED BY <1>3, <2>1, <3>2, <3>3, <3>4 DEF EntryIsSound
  <2>2. CASE u # t
    <3>1. nx[u] = th[u] /\ UsesData(th[u])
      BY <1>6, <2>2 DEF OnlyOne
    <3>2. th[u].entry # e /\ th[u].cluster # b
      BY <2>2, <3>1, OthersHold
    <3> QED BY <2>2, <3>1, <3>2, OthersAfterFilling
  <2> QED BY <2>1, <2>2
<1>7. ASSUME NEW u \in Threads, NEW v \in Threads, u # v, UsesData(nx[u]), UsesData(nx[v])
      PROVE  Unshared(nx[u], nx[v], d)
  <2>1. \A y : c.lba[y] # INVALID => d.lba[y] # INVALID
    BY <1>1, <1>2
  <2> QED BY <1>1, <1>3, <1>7, <2>1, PairsKept
<1>8. Labelled(d)
  <2>1. Labelled(c)
    BY <1>1 DEF DataCacheIsSound
  <2> QED BY <1>1, <1>4, <2>1 DEF Labelled
<1>9. CopiesGoFirst(d)
  <2> SUFFICES ASSUME NEW g \in 1 .. N, NEW f \in 1 .. N, First(d, g), d.lba[f] = d.lba[g], d.content[f] # d.content[g]
               PROVE  Earlier(d, f, g)
    BY <1>4 DEF CopiesGoFirst
  <2>1. CASE d.lba[g] = b
    <3>1. g = e
      BY <1>1, <1>4, <1>5, <2>1 DEF First
    <3> QED BY <1>5, <2>1, <3>1
  <2>2. CASE d.lba[g] # b
    <3>1. /\ First(d, g) => First(c, g)
          /\ \A k \in 1 .. N : d.lba[k] = d.lba[g] => c.lba[k] = c.lba[g] /\ d.content[k] = c.content[k]
      BY <2>2, OtherBlocks
    <3>2. First(c, g) /\ c.lba[f] = c.lba[g] /\ c.content[f] # c.content[g]
      BY <3>1
    <3>3. Earlier(c, f, g)
      BY <1>1, <3>2 DEF DataCacheIsSound, CopiesGoFirst
    <3> QED BY <1>2, <3>3 DEF Earlier
  <2> QED BY <2>1, <2>2
<1>10. FoundIsTrue(d, dk, uw, nx)
  <2> SUFFICES ASSUME NEW g \in 1 .. N, First(d, g), d.lba[g] \notin uw, \A u \in Threads : ~Stores(nx[u], d.lba[g])
               PROVE  d.content[g] = dk[d.lba[g]]
    BY <1>4 DEF FoundIsTrue
  <2>1. d.lba[g] # b
    BY <1>3 DEF Stores, Holds
  <2>2. First(c, g) /\ c.lba[g] = d.lba[g] /\ c.content[g] = d.content[g]
    BY <2>1, OtherBlocks
  <2>3. \A u \in Threads : ~Stores(th[u], c.lba[g])
    BY <2>2 DEF Stores, OnlyOne
  <2> QED BY <1>1, <2>2, <2>3 DEF DataCacheIsSound, FoundIsTrue
<1> QED BY <1>2, <1>6, <1>7, <1>8, <1>9, <1>10 DEF DataCacheIsSound

\* The thread t, which has its entry, has ended its job: the rest of its work is the same.
Ended(r, q, pc) ==
  /\ q.pc = pc /\ q.write = r.write /\ q.cluster = r.cluster /\ q.kind = r.kind
  /\ q.entry = r.entry /\ q.storing = r.storing /\ q.others = r.others

\* The drive has failed to read: the entry stays without a number.
LEMMA FailedReadKeepsData ==
  ASSUME NEW c, NEW dk, NEW uw, NEW th, NEW nx, NEW t, DataCacheIsSound(c, dk, uw, th),
         UsesData(th[t]), th[t].pc = "bus", ~th[t].storing, OnlyOne(th, nx, t),
         Ended(th[t], nx[t], "filled"), nx[t].err
  PROVE  DataCacheIsSound(c, dk, uw, nx)
<1>1. UsesData(nx[t]) /\ t \in Threads
  BY DEF Ended, UsesData, HasEntry, OnlyOne
<1>2. ASSUME NEW u \in Threads, UsesData(nx[u]) PROVE EntryIsSound(nx[u], c, dk, cache_size.data)
  <2>1. CASE u = t
    <3>1. EntryIsSound(th[t], c, dk, cache_size.data)
      BY <1>1 DEF DataCacheIsSound
    <3> QED BY <2>1, <3>1 DEF EntryIsSound, Ended
  <2>2. CASE u # t
    BY <1>2, <2>2 DEF DataCacheIsSound, OnlyOne
  <2> QED BY <2>1, <2>2
<1>3. ASSUME NEW u \in Threads, NEW v \in Threads, u # v, UsesData(nx[u]), UsesData(nx[v])
      PROVE  Unshared(nx[u], nx[v], c)
  BY <1>3, PairsKept DEF Ended
<1>4. FoundIsTrue(c, dk, uw, nx)
  <2>1. \A x : (\A u \in Threads : ~Stores(nx[u], x)) => \A u \in Threads : ~Stores(th[u], x)
    BY DEF Stores, OnlyOne
  <2> QED BY <2>1 DEF DataCacheIsSound, FoundIsTrue
<1> QED BY <1>2, <1>3, <1>4 DEF DataCacheIsSound

\* No other block than b has changed.
Elsewhere(dk, dn, b) == \A y \in Clusters : y # b => dn[y] = dk[y]

\* What a thread that has stored its block uses is the same; other threads do not use the block.
LEMMA StoringKeepsEntries ==
  ASSUME NEW c, NEW dk, NEW uw, NEW th, NEW nx, NEW t, NEW e, NEW b, NEW dn, Holds(c, dk, uw, th, t, e, b),
         th[t].storing, th[t].write, OnlyOne(th, nx, t), Ended(th[t], nx[t], "written"),
         Elsewhere(dk, dn, b)
  PROVE  /\ c.lba[e] = b /\ First(c, e)
         /\ \A u \in Threads : UsesData(nx[u]) => EntryIsSound(nx[u], c, dn, cache_size.data)
         /\ \A u, v \in Threads : u # v /\ UsesData(nx[u]) /\ UsesData(nx[v]) => Unshared(nx[u], nx[v], c)
<1> DEFINE N == cache_size.data
<1>1. /\ e \in 1 .. N /\ DOMAIN c.lba = 1 .. N /\ b # INVALID /\ INVALID \notin Numbers /\ N \in Nat
      /\ c.lba \in [1 .. N -> Clusters \cup {INVALID}]
      /\ DataCacheIsSound(c, dk, uw, th) /\ EntryIsSound(th[t], c, dk, N)
      /\ th[t].cluster = b /\ th[t].entry = e /\ UsesData(th[t]) /\ t \in Threads
  BY HeldEntry, MarksAreApart DEF Holds
<1>2. c.lba[e] = b /\ First(c, e)
  BY <1>1 DEF EntryIsSound
<1>3. UsesData(nx[t])
  BY <1>1 DEF Ended, UsesData, HasEntry
<1>4. ASSUME NEW u \in Threads, UsesData(nx[u]) PROVE EntryIsSound(nx[u], c, dn, N)
  <2>1. CASE u = t
    <3>1. c.lba[th[t].entry] # INVALID
      BY <1>1, <1>2
    <3> QED BY <1>1, <2>1, <3>1 DEF EntryIsSound, Ended
  <2>2. CASE u # t
    <3>1. /\ nx[u] = th[u] /\ UsesData(th[u])
      BY <1>4, <2>2 DEF OnlyOne
    <3>2. /\ th[u].entry \in 1 .. N /\ EntryIsSound(th[u], c, dk, N) /\ th[u].cluster \in Numbers
          /\ th[u].pc = "filled" /\ ~th[u].err => th[u].cluster \in Clusters
          /\ th[u].cluster # b
      BY <2>2, <3>1, OthersHold
    <3>3. \A f \in 1 .. N : c.lba[f] = th[u].cluster => th[u].cluster \in Clusters
      BY <1>1, <3>2
    <3>4. KeptFor(th[u], c, c, dk, dn, N)
      BY <1>1, <3>2, <3>3 DEF KeptFor, Elsewhere
    <3> QED BY <3>1, <3>4, EntryKept
  <2> QED BY <2>1, <2>2
<1>5. ASSUME NEW u \in Threads, NEW v \in Threads, u # v, UsesData(nx[u]), UsesData(nx[v])
      PROVE  Unshared(nx[u], nx[v], c)
  BY <1>1, <1>5, PairsKept DEF Ended
<1> QED BY <1>2, <1>4, <1>5

\* A block that has been stored leaves the data cache sound.
LEMMA StoredKeepsData ==
  ASSUME NEW c, NEW dk, NEW uw, NEW th, NEW nx, NEW t, NEW e, NEW b, NEW dn, Holds(c, dk, uw, th, t, e, b),
         th[t].storing, th[t].write, OnlyOne(th, nx, t), Ended(th[t], nx[t], "written"),
         dn = [dk EXCEPT ![b] = c.content[e]]
  PROVE  DataCacheIsSound(c, dn, uw \ {b}, nx) /\ DiskIsSound(dn)
<1> DEFINE N == cache_size.data
<1>1. /\ e \in 1 .. N /\ DOMAIN c.lba = 1 .. N /\ c.lba \in [1 .. N -> Clusters \cup {INVALID}]
      /\ c.content \in [1 .. N -> Contents] /\ dk \in [Clusters -> Blocks]
      /\ DataCacheIsSound(c, dk, uw, th) /\ b \in Clusters /\ DiskIsSound(dk) /\ b # INVALID
  BY HeldEntry DEF Holds
<1>2. dn[b] = c.content[e] /\ \A y \in Clusters : y # b => dn[y] = dk[y]
  BY <1>1
<1>3. /\ c.lba[e] = b /\ First(c, e)
      /\ \A u \in Threads : UsesData(nx[u]) => EntryIsSound(nx[u], c, dn, cache_size.data)
      /\ \A u, v \in Threads : u # v /\ UsesData(nx[u]) /\ UsesData(nx[v]) => Unshared(nx[u], nx[v], c)
  <2>1. Elsewhere(dk, dn, b)
    BY <1>2 DEF Elsewhere
  <2> QED BY <2>1, StoringKeepsEntries
<1>4. FoundIsTrue(c, dn, uw \ {b}, nx)
  <2> SUFFICES ASSUME NEW g \in 1 .. N, First(c, g), c.lba[g] \notin uw \ {b}, \A u \in Threads : ~Stores(nx[u], c.lba[g])
               PROVE  c.content[g] = dn[c.lba[g]]
    BY <1>1 DEF FoundIsTrue
  <2>1. CASE c.lba[g] = b
    <3>1. g = e
      BY <1>1, <1>3, <2>1 DEF First
    <3> QED BY <1>2, <2>1, <3>1
  <2>2. CASE c.lba[g] # b
    <3>1. \A u \in Threads : ~Stores(th[u], c.lba[g])
      BY <2>2 DEF Stores, OnlyOne, Holds
    <3>2. c.content[g] = dk[c.lba[g]]
      BY <1>1, <2>2, <3>1 DEF DataCacheIsSound, FoundIsTrue
    <3>3. c.lba[g] \in Clusters
      BY <1>1 DEF First
    <3> QED BY <1>2, <2>2, <3>2, <3>3
  <2> QED BY <2>1, <2>2
<1>5. DiskIsSound(dn)
  <2>1. c.content[e][1] = b
    BY <1>1, <1>3 DEF DataCacheIsSound, Labelled
  <2>2. c.content[e] \in Contents
    BY <1>1
  <2>3. c.content[e] \in Blocks
    BY <1>1, <2>1, <2>2 DEF Contents, Blocks
  <2>4. dn \in [Clusters -> Blocks]
    BY <1>1, <2>3
  <2> QED BY <1>1, <1>2, <2>1, <2>4 DEF DiskIsSound
<1> QED BY <1>1, <1>3, <1>4, <1>5 DEF DataCacheIsSound

\* The same when the drive has failed to store it: the block counts as unwritten.
LEMMA UnstoredKeepsData ==
  ASSUME NEW c, NEW dk, NEW uw, NEW th, NEW nx, NEW t, NEW e, NEW b, Holds(c, dk, uw, th, t, e, b),
         th[t].storing, th[t].write, OnlyOne(th, nx, t), Ended(th[t], nx[t], "written")
  PROVE  DataCacheIsSound(c, dk, uw \cup {b}, nx)
<1>1. /\ DataCacheIsSound(c, dk, uw, th) /\ th[t].cluster = b
  BY DEF Holds
<1>3. /\ \A u \in Threads : UsesData(nx[u]) => EntryIsSound(nx[u], c, dk, cache_size.data)
      /\ \A u, v \in Threads : u # v /\ UsesData(nx[u]) /\ UsesData(nx[v]) => Unshared(nx[u], nx[v], c)
  <2>1. Elsewhere(dk, dk, b)
    BY DEF Elsewhere
  <2> QED BY <2>1, StoringKeepsEntries
<1>4. FoundIsTrue(c, dk, uw \cup {b}, nx)
  <2>1. \A x : x # b /\ (\A u \in Threads : ~Stores(nx[u], x)) => \A u \in Threads : ~Stores(th[u], x)
    BY <1>1 DEF Stores, OnlyOne
  <2> QED BY <1>1, <2>1 DEF DataCacheIsSound, FoundIsTrue
<1> QED BY <1>1, <1>3, <1>4 DEF DataCacheIsSound

-----------------------------------------------------------------------------
(* The locks, the cache of the FAT and what threads do *)

AlikeBut(th, nx, t) == t \in Threads /\ \A u \in Threads : u # t => Alike(th[u], nx[u])

\* When only t has changed, all others are alike.
LEMMA OneIsAlike ==
  ASSUME NEW th, NEW nx, NEW t, OnlyOne(th, nx, t)
  PROVE  AlikeBut(th, nx, t)
BY DEF OnlyOne, AlikeBut, Alike

FatLine(fl, th) ==
  /\ fl \in Seq(Threads) /\ Once(fl) /\ \A u \in Threads : u \in Range(fl) <=> HasFatLock(th[u])
  /\ \A u \in Threads : th[u].kind = "fat" => Head(fl) = u
BusLine(bl, th) == bl \in Seq(Threads) /\ Once(bl) /\ \A u \in Threads : u \in Range(bl) <=> th[u].pc = "bus"

\* The lines before the two locks, one after the other.
LEMMA TwoLines ==
  ASSUME NEW fl, NEW bl, NEW th
  PROVE  LinesAreSound(fl, bl, th) <=> FatLine(fl, th) /\ BusLine(bl, th)
BY DEF LinesAreSound, FatLine, BusLine

\* A line with a thread in it is not empty.
LEMMA HeadOfLine ==
  ASSUME NEW s \in Seq(Threads), NEW t \in Range(s)
  PROVE  s # <<>>
BY RangeOfEmpty

\* The line for the FAT after a step that neither joins nor leaves it.
LEMMA FatLineSame ==
  ASSUME NEW fl, NEW th, NEW nx, NEW t, FatLine(fl, th), AlikeBut(th, nx, t),
         HasFatLock(nx[t]) <=> HasFatLock(th[t]), nx[t].kind = "fat" => Head(fl) = t
  PROVE  FatLine(fl, nx)
<1>1. \A u \in Threads : (HasFatLock(nx[u]) <=> HasFatLock(th[u])) /\ (nx[u].kind = "fat" => Head(fl) = u)
  BY DEF AlikeBut, Alike, HasFatLock, FatLine
<1> QED BY <1>1 DEF FatLine

\* The line for the FAT with one more thread.
LEMMA FatLineJoined ==
  ASSUME NEW fl, NEW th, NEW nx, NEW t, FatLine(fl, th), AlikeBut(th, nx, t),
         ~HasFatLock(th[t]), nx[t].pc = "walk", nx[t].kind = "data"
  PROVE  FatLine(Append(fl, t), nx)
<1>1. fl \in Seq(Threads) /\ Once(fl) /\ t \in Threads /\ t \notin Range(fl)
  BY DEF FatLine, AlikeBut
<1>2. Append(fl, t) \in Seq(Threads) /\ Range(Append(fl, t)) = Range(fl) \cup {t} /\ Once(Append(fl, t))
  BY <1>1, BackOfQueue
<1>3. ASSUME NEW u \in Threads, nx[u].kind = "fat" PROVE Head(Append(fl, t)) = u
  <2>1. u # t /\ th[u].kind = "fat"
    BY <1>3 DEF AlikeBut, Alike
  <2>2. Head(fl) = u /\ u \in Range(fl)
    BY <2>1 DEF FatLine, HasFatLock
  <2>3. fl # <<>>
    BY <1>1, <2>2, HeadOfLine
  <2>4. Len(fl) \in Nat \ {0} /\ Append(fl, t)[1] = fl[1]
    BY <1>1, <2>3, AppendProperties, EmptySeq, LenProperties
  <2> QED BY <2>2, <2>3, <2>4
<1>4. \A u \in Threads : u \in Range(fl) \cup {t} <=> HasFatLock(nx[u])
  BY <1>1 DEF FatLine, AlikeBut, Alike, HasFatLock
<1> QED BY <1>2, <1>3, <1>4 DEF FatLine

\* The line for the FAT after its first thread has left.
LEMMA FatLineLeft ==
  ASSUME NEW fl, NEW th, NEW nx, NEW t, FatLine(fl, th), AlikeBut(th, nx, t),
         HasFatLock(th[t]), Head(fl) = t, ~HasFatLock(nx[t])
  PROVE  FatLine(Tail(fl), nx)
<1>1. fl \in Seq(Threads) /\ Once(fl) /\ t \in Threads /\ t \in Range(fl)
  BY DEF FatLine, AlikeBut
<1>2. fl # <<>>
  BY <1>1, HeadOfLine
<1>3. Tail(fl) \in Seq(Threads) /\ Range(fl) = {t} \cup Range(Tail(fl)) /\ t \notin Range(Tail(fl)) /\ Once(Tail(fl))
  BY <1>1, <1>2, RestOfQueue
<1>4. \A u \in Threads : nx[u].kind # "fat"
  BY DEF FatLine, AlikeBut, Alike, HasFatLock
<1>5. \A u \in Threads : u \in Range(Tail(fl)) <=> HasFatLock(nx[u])
  BY <1>3 DEF FatLine, AlikeBut, Alike, HasFatLock
<1> QED BY <1>3, <1>4, <1>5 DEF FatLine

\* The line for the bus after a step that neither joins nor leaves it.
LEMMA BusLineSame ==
  ASSUME NEW bl, NEW th, NEW nx, NEW t, BusLine(bl, th), AlikeBut(th, nx, t), nx[t].pc = "bus" <=> th[t].pc = "bus"
  PROVE  BusLine(bl, nx)
BY DEF BusLine, AlikeBut, Alike

\* The line for the bus with one more thread.
LEMMA BusLineJoined ==
  ASSUME NEW bl, NEW th, NEW nx, NEW t, BusLine(bl, th), AlikeBut(th, nx, t), nx[t].pc = "bus", th[t].pc # "bus"
  PROVE  BusLine(Append(bl, t), nx)
<1>1. bl \in Seq(Threads) /\ Once(bl) /\ t \in Threads /\ t \notin Range(bl)
  BY DEF BusLine, AlikeBut
<1>2. Append(bl, t) \in Seq(Threads) /\ Range(Append(bl, t)) = Range(bl) \cup {t} /\ Once(Append(bl, t))
  BY <1>1, BackOfQueue
<1> QED BY <1>2 DEF BusLine, AlikeBut, Alike

\* The line for the bus after its first thread has left.
LEMMA BusLineLeft ==
  ASSUME NEW bl, NEW th, NEW nx, NEW t, BusLine(bl, th), AlikeBut(th, nx, t), th[t].pc = "bus", nx[t].pc # "bus",
         Head(bl) = t
  PROVE  BusLine(Tail(bl), nx)
<1>1. bl \in Seq(Threads) /\ Once(bl) /\ t \in Threads /\ t \in Range(bl)
  BY DEF BusLine, AlikeBut
<1>2. bl # <<>>
  BY <1>1, HeadOfLine
<1>3. Tail(bl) \in Seq(Threads) /\ Range(bl) = {t} \cup Range(Tail(bl)) /\ t \notin Range(Tail(bl)) /\ Once(Tail(bl))
  BY <1>1, <1>2, RestOfQueue
<1> QED BY <1>3 DEF BusLine, AlikeBut, Alike

\* All threads but t are as they were, and t is in no conflict with them.
LEMMA WorkKept ==
  ASSUME NEW th, NEW nx, NEW t \in Threads, AllWorkIsSound(th), nx = [th EXCEPT ![t] = nx[t]], WorkIsSound(nx[t]),
         \A u \in Threads : u # t => Alone(th[u], nx[t]) /\ Alone(nx[t], th[u])
  PROVE  AllWorkIsSound(nx) /\ OnlyOne(th, nx, t) /\ AlikeBut(th, nx, t)
<1>1. th \in [Threads -> Work] /\ nx[t] \in Work
  BY DEF AllWorkIsSound, WorkIsSound
<1> DEFINE q == nx[t]
<1>2. nx = [th EXCEPT ![t] = q] /\ q \in Work /\ q = nx[t]
  BY <1>1
<1> HIDE DEF q
<1>3. nx \in [Threads -> Work] /\ \A u \in Threads : u # t => nx[u] = th[u]
  BY <1>1, <1>2
<1>4. OnlyOne(th, nx, t)
  BY <1>3 DEF OnlyOne
<1>5. AllWorkIsSound(nx)
  BY <1>3 DEF AllWorkIsSound
<1> QED BY <1>4, <1>5, OneIsAlike

\* A thread that stays in its call, or ends it, gets in nobody's way.
LEMMA SameCall ==
  ASSUME NEW th, NEW t \in Threads, NEW q, AllWorkIsSound(th),
         q.pc = "idle" \/ (th[t].pc # "idle" /\ q.inode = th[t].inode /\ q.write = th[t].write)
  PROVE  \A u \in Threads : u # t => Alone(th[u], q) /\ Alone(q, th[u])
BY DEF AllWorkIsSound, Alone

\* A thread outside of all calls.
LEMMA IdleIsSound == WorkIsSound(Idle) /\ ~UsesData(Idle) /\ ~HasFatLock(Idle) /\ Idle.kind = "data" /\ Idle.pc = "idle"
<1>1. Idle \in Work
  BY Fat32Assumption DEF Idle, Work, Pcs, Kinds, Numbers
<1> QED BY <1>1 DEF Idle, WorkIsSound, UsesData, HasEntry, HasFatLock

\* The cache of the FAT after a step that leaves it and those who look at it alone.
LEMMA FatCacheKept ==
  ASSUME NEW c, NEW th, NEW nx, NEW t, FatCacheIsSound(c, th), AlikeBut(th, nx, t),
         nx[t].kind = "fat" => /\ th[t].kind = "fat" /\ nx[t].entry = th[t].entry /\ nx[t].cluster = th[t].cluster
                               /\ nx[t].pc = "bus" => th[t].pc = "bus"
                               /\ nx[t].pc = "filled" /\ ~nx[t].err => th[t].pc = "filled" /\ ~th[t].err
  PROVE  FatCacheIsSound(c, nx)
BY DEF FatCacheIsSound, AlikeBut, Alike

\* Whoever has the lock of the FAT, and is not looking at a block, is alone in its cache.
LEMMA NobodyInFat ==
  ASSUME NEW fl, NEW th, NEW t, FatLine(fl, th), Head(fl) = t, th[t].kind # "fat"
  PROVE  \A u \in Threads : th[u].kind # "fat"
BY DEF FatLine

-----------------------------------------------------------------------------
(* What the steps do to the caches *)

\* Whose call needs the FAT has its lock, and nobody looks at a block of the FAT meanwhile:
\* the entry that is chosen is sound.
LEMMA FatBlockAsked ==
  ASSUME NEW c, NEW d, NEW th, NEW nx, NEW t, NEW e, NEW missing \in BOOLEAN, FatCacheIsSound(c, th),
         Finds(c, nx[t].cluster, e, missing, cache_size.fat), Claimed(c, d, e, missing, cache_size.fat),
         \A u \in Threads : u # t => nx[u].kind # "fat", nx[t].entry = e,
         IF missing THEN nx[t].pc = "bus" \/ (nx[t].pc = "filled" /\ nx[t].err) ELSE nx[t].pc = "filled"
  PROVE  FatCacheIsSound(d, nx)
<1> DEFINE N == cache_size.fat
<1>1. /\ e \in 1 .. N /\ CacheShape(c, N) /\ Labelled(c) /\ CacheShape(d, N)
      /\ d.lba = IF missing THEN [c.lba EXCEPT ![e] = INVALID] ELSE c.lba
      /\ d.content = IF missing THEN [c.content EXCEPT ![e] = Garbage] ELSE c.content
  BY DEF FatCacheIsSound, Finds, Claimed
<1>2. /\ c.lba \in [1 .. N -> Clusters \cup {INVALID}] /\ c.content \in [1 .. N -> Contents]
      /\ DOMAIN c.lba = 1 .. N /\ DOMAIN d.lba = 1 .. N
  BY <1>1 DEF CacheShape
<1>3. \A f \in 1 .. N : d.lba[f] # INVALID => d.lba[f] = c.lba[f] /\ d.content[f] = c.content[f]
  BY <1>1, <1>2
<1>4. Labelled(d)
  BY <1>1, <1>2, <1>3 DEF Labelled
<1>5. nx[t].pc = "bus" => d.lba[e] = INVALID
  BY <1>1, <1>2
<1>6. nx[t].pc = "filled" /\ ~nx[t].err => d.content[e][1] = nx[t].cluster
  <2>1. CASE missing
    BY <2>1
  <2>2. CASE ~missing
    <3>1. c.lba[e] = nx[t].cluster /\ c.lba[e] # INVALID
      BY <2>2 DEF Finds, First
    <3> QED BY <1>1, <1>2, <2>2, <3>1 DEF Labelled
  <2> QED BY <2>1, <2>2
<1>7. \A u \in Threads : nx[u].kind = "fat" => u = t
  OBVIOUS
<1> QED BY <1>1, <1>4, <1>5, <1>6, <1>7 DEF FatCacheIsSound

\* The drive has read the block of the FAT.
LEMMA FatBlockRead ==
  ASSUME NEW c, NEW d, NEW th, NEW nx, NEW t \in Threads, FatCacheIsSound(c, th),
         th[t].kind = "fat", th[t].pc = "bus", th[t].entry \in 1 .. cache_size.fat, th[t].cluster \in Clusters,
         Ended(th[t], nx[t], "filled"), \A u \in Threads : u # t => nx[u].kind # "fat",
         d = [c EXCEPT !.content[th[t].entry] = <<th[t].cluster, 0>>]
  PROVE  FatCacheIsSound(d, nx)
<1> DEFINE N == cache_size.fat  e == th[t].entry  b == th[t].cluster
<1>a. nx[t].cluster = b /\ nx[t].entry = e /\ nx[t].pc = "filled"
  BY DEF Ended
<1>1. /\ CacheShape(c, N) /\ Labelled(c) /\ c.lba[e] = INVALID
      /\ c.lba \in [1 .. N -> Clusters \cup {INVALID}] /\ c.content \in [1 .. N -> Contents]
      /\ c = [lba |-> c.lba, content |-> c.content, order |-> c.order]
  BY DEF FatCacheIsSound, CacheShape
<1>2. <<b, 0>> \in Contents
  BY Fat32Assumption DEF Contents
<1>3. d = [lba |-> c.lba, content |-> [c.content EXCEPT ![e] = <<b, 0>>], order |-> c.order]
  BY <1>1
<1>4. d.lba = c.lba /\ d.content = [c.content EXCEPT ![e] = <<b, 0>>] /\ d.order = c.order
  BY <1>3
<1>5. d.content \in [1 .. N -> Contents]
  BY <1>1, <1>2, <1>4
<1>6. CacheShape(d, N)
  BY <1>1, <1>3, <1>4, <1>5 DEF CacheShape
<1>7. \A f \in 1 .. N : f # e => d.content[f] = c.content[f]
  BY <1>1, <1>4
<1>8. d.content[e] = <<b, 0>>
  BY <1>1, <1>4
<1>9. Labelled(d)
  BY <1>1, <1>4, <1>7 DEF Labelled
<1>10. \A u \in Threads : nx[u].kind = "fat" => u = t
  OBVIOUS
<1> QED BY <1>a, <1>6, <1>8, <1>9, <1>10 DEF FatCacheIsSound

\* The entry has its number again.
LEMMA FatBlockNumbered ==
  ASSUME NEW c, NEW th, NEW nx, NEW e, NEW b, FatCacheIsSound(c, th),
         e \in 1 .. cache_size.fat, b \in Clusters, c.content[e][1] = b,
         \A u \in Threads : nx[u].kind # "fat"
  PROVE  FatCacheIsSound([c EXCEPT !.lba[e] = b], nx)
<1> DEFINE N == cache_size.fat  d == [c EXCEPT !.lba[e] = b]
<1>1. /\ CacheShape(c, N) /\ Labelled(c)
      /\ c.lba \in [1 .. N -> Clusters \cup {INVALID}] /\ c.content \in [1 .. N -> Contents]
      /\ c = [lba |-> c.lba, content |-> c.content, order |-> c.order]
  BY DEF FatCacheIsSound, CacheShape
<1>2. d = [lba |-> [c.lba EXCEPT ![e] = b], content |-> c.content, order |-> c.order]
  BY <1>1
<1>3. d.lba = [c.lba EXCEPT ![e] = b] /\ d.content = c.content /\ d.order = c.order
  BY <1>2
<1>4. d.lba \in [1 .. N -> Clusters \cup {INVALID}]
  BY <1>1, <1>3
<1>5. CacheShape(d, N)
  BY <1>1, <1>2, <1>3, <1>4 DEF CacheShape
<1>6. \A f \in 1 .. N : d.lba[f] = IF f = e THEN b ELSE c.lba[f]
  BY <1>1, <1>3
<1>7. Labelled(d)
  BY <1>1, <1>3, <1>6 DEF Labelled
<1> QED BY <1>5, <1>7 DEF FatCacheIsSound

\* The data cache with a block that has got its number and maybe another content.
LEMMA FilledIsSound ==
  ASSUME NEW N \in Nat, NEW c, CacheShape(c, N), NEW e \in 1 .. N, NEW b \in Clusters, NEW x \in Contents
  PROVE  Filled(c, [c EXCEPT !.lba[e] = b, !.content[e] = x], e, b, x, N)
<1> DEFINE d == [c EXCEPT !.lba[e] = b, !.content[e] = x]
<1>1. /\ c.lba \in [1 .. N -> Clusters \cup {INVALID}] /\ c.content \in [1 .. N -> Contents]
      /\ c = [lba |-> c.lba, content |-> c.content, order |-> c.order]
  BY DEF CacheShape
<1>2. d = [lba |-> [c.lba EXCEPT ![e] = b], content |-> [c.content EXCEPT ![e] = x], order |-> c.order]
  <2>1. d = [[lba |-> c.lba, content |-> c.content, order |-> c.order] EXCEPT !.lba[e] = b, !.content[e] = x]
    BY <1>1
  <2> HIDE DEF d
  <2> QED BY <2>1
<1> HIDE DEF d
<1>3. d.lba = [c.lba EXCEPT ![e] = b] /\ d.content = [c.content EXCEPT ![e] = x] /\ d.order = c.order
  BY <1>2
<1>4. d.lba \in [1 .. N -> Clusters \cup {INVALID}]
  BY <1>1, <1>3
<1>5. d.content \in [1 .. N -> Contents]
  BY <1>1, <1>3
<1>6. CacheShape(d, N)
  BY <1>1, <1>2, <1>3, <1>4, <1>5 DEF CacheShape
<1>7. Filled(c, d, e, b, x, N)
  BY <1>3, <1>6 DEF Filled
<1> QED BY <1>7 DEF d

\* The two caches.
TwoCaches(c) == DOMAIN c = Kinds /\ c = [k \in Kinds |-> c[k]]

\* A step that changes one of the caches leaves the other alone.
LEMMA OneCacheChanges ==
  ASSUME NEW c, TwoCaches(c), NEW d
  PROVE  /\ TwoCaches([c EXCEPT !["fat"] = d]) /\ TwoCaches([c EXCEPT !["data"] = d])
         /\ [c EXCEPT !["fat"] = d].fat = d /\ [c EXCEPT !["fat"] = d].data = c.data
         /\ [c EXCEPT !["data"] = d].data = d /\ [c EXCEPT !["data"] = d].fat = c.fat
BY DEF TwoCaches, Kinds

\* A cache is its numbers, its contents and its order.
LEMMA CacheFields ==
  ASSUME NEW c, TwoCaches(c), NEW k \in Kinds, NEW e, NEW b, NEW x
  PROVE  /\ [c EXCEPT ![k].content[e] = x] = [c EXCEPT ![k] = [c[k] EXCEPT !.content[e] = x]]
         /\ [c EXCEPT !.fat.lba[e] = b] = [c EXCEPT !["fat"] = [c.fat EXCEPT !.lba[e] = b]]
         /\ [c EXCEPT !.data.lba[e] = b] = [c EXCEPT !["data"] = [c.data EXCEPT !.lba[e] = b]]
BY DEF TwoCaches, Kinds

-----------------------------------------------------------------------------
(* The steps *)

\* The thread t goes on with the work q, in its call or out of it.
GoesOn(th, nx, t, q) == nx = [th EXCEPT ![t] = q]

\* A step of one thread keeps the work of all sound.
LEMMA OneStep ==
  ASSUME NEW th, NEW nx, NEW t \in Threads, NEW q, AllWorkIsSound(th), GoesOn(th, nx, t, q), WorkIsSound(q),
         q.pc = "idle" \/ (th[t].pc # "idle" /\ q.inode = th[t].inode /\ q.write = th[t].write)
  PROVE  AllWorkIsSound(nx) /\ OnlyOne(th, nx, t) /\ AlikeBut(th, nx, t) /\ nx[t] = q
<1>1. th \in [Threads -> Work] /\ q \in Work
  BY DEF AllWorkIsSound, WorkIsSound
<1>2. nx[t] = q /\ nx = [th EXCEPT ![t] = nx[t]]
  BY <1>1 DEF GoesOn
<1>3. \A u \in Threads : u # t => Alone(th[u], q) /\ Alone(q, th[u])
  BY SameCall
<1>4. /\ WorkIsSound(nx[t])
      /\ \A u \in Threads : u # t => Alone(th[u], nx[t]) /\ Alone(nx[t], th[u])
  BY <1>2, <1>3
<1>5. AllWorkIsSound(nx) /\ OnlyOne(th, nx, t) /\ AlikeBut(th, nx, t)
  BY <1>2, <1>4, WorkKept
<1> QED BY <1>2, <1>5

\* What a thread that can go on waits for is free.
LEMMA NotBlocked ==
  ASSUME NEW t \in Threads, Runs(t)
  PROVE  /\ thread[t].pc = "walk" => Head(fat_lock) = t
         /\ thread[t].pc = "bus" => Head(bus_lock) = t
         /\ thread[t].pc = "block" => Roomy(t)
BY DEF Runs, Blocked

\* The work of a thread whose job has ended, with an error or without.
Done(r, err) == [r EXCEPT !.pc = IF r.storing THEN "written" ELSE "filled", !.err = err, !.retries = 0]

\* The work of a thread whose job has ended is sound.
LEMMA DoneIsSound ==
  ASSUME NEW r, WorkIsSound(r), r.pc = "bus", NEW err \in BOOLEAN
  PROVE  /\ WorkIsSound(Done(r, err)) /\ Ended(r, Done(r, err), IF r.storing THEN "written" ELSE "filled")
         /\ Done(r, err).inode = r.inode /\ Done(r, err).err = err
         /\ Done(r, r.err) = [r EXCEPT !.pc = IF r.storing THEN "written" ELSE "filled", !.retries = 0]
<1>1. r \in Work /\ r.cluster \in Clusters
  BY DEF WorkIsSound
<1>2. /\ Done(r, err).pc = (IF r.storing THEN "written" ELSE "filled") /\ Done(r, err).write = r.write
      /\ Done(r, err).cluster = r.cluster /\ Done(r, err).left = r.left /\ Done(r, err).kind = r.kind
      /\ Done(r, err).entry = r.entry /\ Done(r, err).storing = r.storing /\ Done(r, err).others = r.others
      /\ Done(r, err).inode = r.inode /\ Done(r, err).err = err
      /\ Done(r, err) \in Work
  <2> DEFINE pc == IF r.storing THEN "written" ELSE "filled"
  <2>1. pc \in Pcs /\ 0 \in 0 .. max_retries
    BY Fat32Assumption DEF Pcs
  <2> HIDE DEF pc
  <2>2. Done(r, err) = [pc |-> pc, write |-> r.write, cluster |-> r.cluster, left |-> r.left, kind |-> r.kind,
          entry |-> r.entry, storing |-> r.storing, retries |-> 0, err |-> err, others |-> r.others, inode |-> r.inode]
    <3>1. r = [pc |-> r.pc, write |-> r.write, cluster |-> r.cluster, left |-> r.left, kind |-> r.kind,
          entry |-> r.entry, storing |-> r.storing, retries |-> r.retries, err |-> r.err, others |-> r.others, inode |-> r.inode]
      BY <1>1 DEF Work
    <3>2. Done(r, err) = [[pc |-> r.pc, write |-> r.write, cluster |-> r.cluster, left |-> r.left, kind |-> r.kind,
          entry |-> r.entry, storing |-> r.storing, retries |-> r.retries, err |-> r.err, others |-> r.others, inode |-> r.inode] EXCEPT !.pc = pc, !.err = err, !.retries = 0]
      BY <3>1 DEF Done, pc
    <3> QED BY <3>2
  <2>3. Done(r, err) \in Work
    BY <1>1, <2>1, <2>2 DEF Work
  <2> QED BY <2>2, <2>3 DEF pc
<1>3. Done(r, r.err) = [r EXCEPT !.pc = IF r.storing THEN "written" ELSE "filled", !.retries = 0]
  BY <1>1 DEF Done, Work
<1>4. WorkIsSound(Done(r, err))
  BY <1>1, <1>2 DEF WorkIsSound, HasEntry
<1> QED BY <1>2, <1>3, <1>4 DEF Ended

\* What the invariant gives of a thread that has the bus.
LEMMA BusIsHad ==
  ASSUME FatInv, NEW t \in Threads, Runs(t), thread[t].pc = "bus"
  PROVE  /\ AllWorkIsSound(thread) /\ WorkIsSound(thread[t]) /\ thread[t] \in Work /\ thread[t].cluster \in Clusters
         /\ FatLine(fat_lock, thread) /\ BusLine(bus_lock, thread) /\ Head(bus_lock) = t
         /\ TwoCaches(cache) /\ FatCacheIsSound(cache.fat, thread) /\ DiskIsSound(disk) /\ unwritten \subseteq Clusters
         /\ DataCacheIsSound(cache.data, disk, unwritten, thread)
         /\ thread[t].entry \in Entries(thread[t].kind) /\ thread[t].kind \in Kinds
         /\ thread[t].kind = "data" =>
              Holds(cache.data, disk, unwritten, thread, t, thread[t].entry, thread[t].cluster)
<1>1. AllWorkIsSound(thread) /\ WorkIsSound(thread[t]) /\ thread[t] \in Work /\ thread[t].cluster \in Clusters
  BY DEF FatInv, AllWorkIsSound, WorkIsSound
<1>2. FatLine(fat_lock, thread) /\ BusLine(bus_lock, thread) /\ Head(bus_lock) = t
  BY TwoLines, NotBlocked DEF FatInv
<1>3. thread[t].entry \in Entries(thread[t].kind) /\ thread[t].kind \in Kinds
  BY <1>1 DEF WorkIsSound, HasEntry, Work
<1>4. thread[t].kind = "data" =>
        Holds(cache.data, disk, unwritten, thread, t, thread[t].entry, thread[t].cluster)
  BY <1>1 DEF FatInv, Holds, UsesData, HasEntry
<1> QED BY <1>1, <1>2, <1>3, <1>4 DEF FatInv, TwoCaches

\* A job that has ended leaves the two lines sound.
LEMMA JobEnds ==
  ASSUME FatInv, NEW t \in Threads, Runs(t), thread[t].pc = "bus", NEW err \in BOOLEAN,
         GoesOn(thread, thread', t, Done(thread[t], err)), LeaveBus(t), UNCHANGED fat_lock
  PROVE  /\ AllWorkIsSound(thread') /\ LinesAreSound(fat_lock', bus_lock', thread')
         /\ OnlyOne(thread, thread', t) /\ AlikeBut(thread, thread', t) /\ thread'[t] = Done(thread[t], err)
         /\ Ended(thread[t], thread'[t], IF thread[t].storing THEN "written" ELSE "filled") /\ thread'[t].err = err
<1> DEFINE q == Done(thread[t], err)
<1>1. /\ AllWorkIsSound(thread) /\ WorkIsSound(thread[t])
      /\ FatLine(fat_lock, thread) /\ BusLine(bus_lock, thread) /\ Head(bus_lock) = t
  BY BusIsHad
<1>2. /\ WorkIsSound(q) /\ Ended(thread[t], q, IF thread[t].storing THEN "written" ELSE "filled")
      /\ q.inode = thread[t].inode /\ q.err = err
  BY <1>1, DoneIsSound
<1> HIDE DEF q
<1>3. q.write = thread[t].write /\ q.pc \in {"written", "filled"} /\ q.kind = thread[t].kind
  BY <1>2 DEF Ended
<1>4. GoesOn(thread, thread', t, q) /\ thread[t].pc # "idle"
  BY DEF q, GoesOn
<1>5. AllWorkIsSound(thread') /\ OnlyOne(thread, thread', t) /\ AlikeBut(thread, thread', t) /\ thread'[t] = q
  BY <1>1, <1>2, <1>3, <1>4, OneStep
<1>6. FatLine(fat_lock', thread')
  <2>1. q.kind = "fat" => Head(fat_lock) = t
    BY <1>1, <1>3 DEF FatLine
  <2>2. HasFatLock(q) <=> HasFatLock(thread[t])
    BY <1>3 DEF HasFatLock
  <2> QED BY <1>1, <1>5, <2>1, <2>2, FatLineSame
<1>7. BusLine(bus_lock', thread')
  <2>1. BusLine(Tail(bus_lock), thread')
    BY <1>1, <1>3, <1>5, BusLineLeft
  <2> QED BY <2>1 DEF LeaveBus
<1>8. LinesAreSound(fat_lock', bus_lock', thread')
  BY <1>6, <1>7, TwoLines
<1> QED BY <1>2, <1>5, <1>8 DEF q

\* No other thread looks at a block of the FAT.
LEMMA OnlyOneInFat ==
  ASSUME NEW fl, NEW th, NEW nx, NEW t, FatLine(fl, th), OnlyOne(th, nx, t), th[t].kind = "fat"
  PROVE  \A u \in Threads : u # t => nx[u].kind # "fat"
BY DEF FatLine, OnlyOne

\* The drive moves a block.
LEMMA TransferKeeps == ASSUME FatInv, NEW t \in Threads, Transfer(t) PROVE FatInv'
<1> DEFINE r == thread[t]  b == r.cluster  e == r.entry
<1>1. r.pc = "bus" /\ Runs(t) /\ LeaveBus(t) /\ UNCHANGED fat_lock
  BY DEF Transfer
<1>2. /\ AllWorkIsSound(thread) /\ WorkIsSound(r) /\ r \in Work /\ b \in Clusters
      /\ FatLine(fat_lock, thread) /\ TwoCaches(cache) /\ FatCacheIsSound(cache.fat, thread) /\ DiskIsSound(disk)
      /\ unwritten \subseteq Clusters /\ DataCacheIsSound(cache.data, disk, unwritten, thread)
      /\ e \in Entries(r.kind) /\ r.kind \in Kinds
      /\ r.kind = "data" => Holds(cache.data, disk, unwritten, thread, t, e, b)
  BY <1>1, BusIsHad
<1>3. GoesOn(thread, thread', t, Done(r, r.err)) /\ r.err \in BOOLEAN
  <2>1. /\ thread' = [thread EXCEPT ![t] = [r EXCEPT !.pc = IF r.storing THEN "written" ELSE "filled", !.retries = 0]]
        /\ r.err \in BOOLEAN
    BY <1>2 DEF Transfer, Work
  <2>2. Done(r, r.err) = [r EXCEPT !.pc = IF r.storing THEN "written" ELSE "filled", !.retries = 0]
    BY <1>1, <1>2, <2>1, DoneIsSound
  <2> QED BY <2>1, <2>2 DEF GoesOn
<1>4. /\ AllWorkIsSound(thread') /\ LinesAreSound(fat_lock', bus_lock', thread')
      /\ OnlyOne(thread, thread', t) /\ AlikeBut(thread, thread', t) /\ thread'[t] = Done(r, r.err)
      /\ Ended(r, thread'[t], IF r.storing THEN "written" ELSE "filled") /\ thread'[t].err = r.err
  BY <1>1, <1>3, JobEnds
<1>5. CASE r.storing
  <2>1. /\ r.kind = "data" /\ r.write /\ cache' = cache /\ unwritten' = unwritten \ {b}
        /\ disk' = [disk EXCEPT ![b] = cache.data.content[e]]
    BY <1>2, <1>5 DEF Transfer, WorkIsSound, Work, Kinds
  <2>2. DataCacheIsSound(cache.data, disk', unwritten', thread') /\ DiskIsSound(disk')
    BY <1>2, <1>4, <1>5, <2>1, StoredKeepsData
  <2>3. FatCacheIsSound(cache.fat, thread')
    <3>1. thread'[t].kind = "data"
      BY <1>4, <2>1 DEF Ended
    <3> QED BY <1>2, <1>4, <3>1, FatCacheKept
  <2> QED BY <1>2, <1>4, <2>1, <2>2, <2>3 DEF FatInv, TwoCaches
<1>6. CASE ~r.storing /\ r.kind = "data"
  <2> DEFINE d == [cache.data EXCEPT !.content[e] = disk[b]]
  <2>1. UNCHANGED <<disk, unwritten>> /\ cache' = [cache EXCEPT !["data"] = d] /\ "data" \in Kinds /\ "fat" \in Kinds
    <3>1. cache' = [cache EXCEPT !["data"].content[e] = disk[b]] /\ "data" \in Kinds /\ "fat" \in Kinds
      BY <1>6 DEF Transfer, Kinds
    <3> QED BY <1>2, <1>6, <3>1, CacheFields DEF Transfer
  <2>2. DataCacheIsSound(d, disk, unwritten, thread')
    <3>1. thread'[t] = [r EXCEPT !.pc = "filled", !.retries = 0]
      BY <1>1, <1>2, <1>3, <1>4, <1>6, DoneIsSound
    <3> QED BY <1>1, <1>2, <1>4, <1>6, <3>1, ReadKeepsData
  <2> HIDE DEF d
  <2>3. TwoCaches(cache') /\ cache'.data = d /\ cache'.fat = cache.fat
    <3>1. TwoCaches(cache) /\ cache' = [cache EXCEPT !["data"] = d]
      BY <1>2, <2>1
    <3> QED BY <3>1, OneCacheChanges
  <2>4. FatCacheIsSound(cache.fat, thread')
    <3>1. thread'[t].kind = "data"
      BY <1>4, <1>6 DEF Ended
    <3> QED BY <1>2, <1>4, <3>1, FatCacheKept
  <2> QED BY <1>2, <1>4, <2>1, <2>2, <2>3, <2>4 DEF FatInv, TwoCaches
<1>7. CASE ~r.storing /\ r.kind = "fat"
  <2> DEFINE d == [cache.fat EXCEPT !.content[e] = <<b, 0>>]
  <2>1. UNCHANGED <<disk, unwritten>> /\ cache' = [cache EXCEPT !["fat"] = d] /\ "data" \in Kinds /\ "fat" \in Kinds
    <3>1. cache' = [cache EXCEPT !["fat"].content[e] = <<b, 0>>] /\ "data" \in Kinds /\ "fat" \in Kinds
      BY <1>7 DEF Transfer, Kinds
    <3> QED BY <1>2, <1>7, <3>1, CacheFields DEF Transfer
  <2>2. FatCacheIsSound(d, thread')
    <3>1. Ended(r, thread'[t], "filled")
      BY <1>4, <1>7
    <3>2. \A u \in Threads : u # t => thread'[u].kind # "fat"
      BY <1>2, <1>4, <1>7, OnlyOneInFat
    <3>3. e \in 1 .. cache_size.fat
      BY <1>2, <1>7 DEF Entries
    <3> QED BY <1>1, <1>2, <1>7, <3>1, <3>2, <3>3, FatBlockRead
  <2> HIDE DEF d
  <2>3. TwoCaches(cache') /\ cache'.fat = d /\ cache'.data = cache.data
    <3>1. TwoCaches(cache) /\ cache' = [cache EXCEPT !["fat"] = d]
      BY <1>2, <2>1
    <3> QED BY <3>1, OneCacheChanges
  <2>4. DataCacheIsSound(cache.data, disk, unwritten, thread')
    <3>1. ~UsesData(thread'[t]) /\ \A u \in Threads : u # t => thread'[u] = thread[u]
      BY <1>4, <1>7 DEF Ended, UsesData, OnlyOne
    <3> QED BY <1>2, <1>7, <3>1, LeavingKeepsData
  <2> QED BY <1>2, <1>4, <2>1, <2>2, <2>3, <2>4 DEF FatInv, TwoCaches
<1> QED BY <1>2, <1>5, <1>6, <1>7 DEF Kinds

\* The drive reports an error.
LEMMA FailKeeps == ASSUME FatInv, NEW t \in Threads, Fail(t) PROVE FatInv'
<1> DEFINE r == thread[t]  b == r.cluster  e == r.entry
<1>1. r.pc = "bus" /\ Runs(t) /\ LeaveBus(t) /\ UNCHANGED fat_lock /\ UNCHANGED <<disk, cache>>
  BY DEF Fail
<1>2. /\ AllWorkIsSound(thread) /\ WorkIsSound(r) /\ r \in Work /\ b \in Clusters
      /\ FatLine(fat_lock, thread) /\ TwoCaches(cache) /\ FatCacheIsSound(cache.fat, thread) /\ DiskIsSound(disk)
      /\ unwritten \subseteq Clusters /\ DataCacheIsSound(cache.data, disk, unwritten, thread)
      /\ r.kind \in Kinds
      /\ r.kind = "data" => Holds(cache.data, disk, unwritten, thread, t, e, b)
  BY <1>1, BusIsHad
<1>3. GoesOn(thread, thread', t, Done(r, ~r.storing)) /\ (~r.storing) \in BOOLEAN
  BY <1>2 DEF Fail, GoesOn, Done, Work
<1>4. /\ AllWorkIsSound(thread') /\ LinesAreSound(fat_lock', bus_lock', thread')
      /\ OnlyOne(thread, thread', t) /\ AlikeBut(thread, thread', t)
      /\ Ended(r, thread'[t], IF r.storing THEN "written" ELSE "filled") /\ thread'[t].err = ~r.storing
  BY <1>1, <1>3, JobEnds
<1>5. FatCacheIsSound(cache.fat, thread')
  <2>1. thread'[t].kind = r.kind /\ thread'[t].cluster = b /\ thread'[t].entry = e /\ thread'[t].pc \in {"written", "filled"}
    BY <1>4 DEF Ended
  <2>2. thread'[t].kind = "fat" => ~r.storing
    BY <1>2, <2>1 DEF WorkIsSound
  <2> QED BY <1>2, <1>4, <2>1, <2>2, FatCacheKept
<1>6. DataCacheIsSound(cache.data, disk, unwritten', thread') /\ unwritten' \subseteq Clusters
  <2>1. CASE r.storing
    <3>1. r.kind = "data" /\ r.write /\ unwritten' = unwritten \cup {b}
      BY <1>2, <2>1 DEF Fail, WorkIsSound, Work, Kinds
    <3> QED BY <1>2, <1>4, <2>1, <3>1, UnstoredKeepsData
  <2>2. CASE ~r.storing /\ r.kind = "data"
    <3>1. unwritten' = unwritten /\ UsesData(r) /\ thread'[t].err /\ Ended(r, thread'[t], "filled")
      BY <1>1, <1>4, <2>2 DEF Fail, UsesData, HasEntry
    <3> QED BY <1>1, <1>2, <1>4, <2>2, <3>1, FailedReadKeepsData
  <2>3. CASE ~r.storing /\ r.kind = "fat"
    <3>1. ~UsesData(thread'[t]) /\ unwritten' = unwritten /\ \A u \in Threads : u # t => thread'[u] = thread[u]
      BY <1>4, <2>3 DEF Ended, UsesData, Fail, OnlyOne
    <3> QED BY <1>2, <2>3, <3>1, LeavingKeepsData
  <2> QED BY <1>2, <2>1, <2>2, <2>3 DEF Kinds
<1> QED BY <1>1, <1>2, <1>4, <1>5, <1>6 DEF FatInv, TwoCaches

\* The drive is late: make_job tries again, or gives up.
LEMMA LateKeeps == ASSUME FatInv, NEW t \in Threads, Late(t) PROVE FatInv'
<1> DEFINE r == thread[t]  q == [r EXCEPT !.retries = @ + 1]
<1>1. r.pc = "bus" /\ Runs(t) /\ UNCHANGED <<disk, unwritten, cache, fat_lock, bus_lock>> /\ r.retries < max_retries
  BY DEF Late
<1>2. /\ AllWorkIsSound(thread) /\ WorkIsSound(r) /\ r \in Work
      /\ FatLine(fat_lock, thread) /\ BusLine(bus_lock, thread) /\ TwoCaches(cache)
      /\ FatCacheIsSound(cache.fat, thread) /\ DiskIsSound(disk)
      /\ unwritten \subseteq Clusters /\ DataCacheIsSound(cache.data, disk, unwritten, thread)
  BY <1>1, BusIsHad
<1>3. /\ q \in Work /\ q.pc = r.pc /\ q.write = r.write /\ q.cluster = r.cluster /\ q.kind = r.kind
      /\ q.entry = r.entry /\ q.storing = r.storing /\ q.err = r.err /\ q.inode = r.inode /\ q.others = r.others
      /\ q.left = r.left
  <2>1. r.retries + 1 \in 0 .. max_retries
    BY <1>1, <1>2, Fat32Assumption DEF Work
  <2> QED BY <1>2, <2>1 DEF Work
<1>4. GoesOn(thread, thread', t, q)
  BY <1>2 DEF Late, GoesOn, AllWorkIsSound
<1> HIDE DEF q
<1>5. WorkIsSound(q)
  BY <1>2, <1>3 DEF WorkIsSound, HasEntry
<1>6. AllWorkIsSound(thread') /\ OnlyOne(thread, thread', t) /\ AlikeBut(thread, thread', t) /\ thread'[t] = q
  BY <1>1, <1>2, <1>3, <1>4, <1>5, OneStep
<1>7. LinesAreSound(fat_lock', bus_lock', thread')
  <2>1. q.kind = "fat" => Head(fat_lock) = t
    BY <1>2, <1>3 DEF FatLine
  <2>2. (HasFatLock(q) <=> HasFatLock(r)) /\ (q.pc = "bus" <=> r.pc = "bus")
    BY <1>3 DEF HasFatLock
  <2>3. FatLine(fat_lock, thread') /\ BusLine(bus_lock, thread')
    BY <1>2, <1>6, <2>1, <2>2, FatLineSame, BusLineSame
  <2> QED BY <1>1, <2>3, TwoLines
<1>8. FatCacheIsSound(cache.fat, thread')
  BY <1>2, <1>3, <1>6, FatCacheKept
<1>9. DataCacheIsSound(cache.data, disk, unwritten, thread')
  <2>1. \A u \in Threads : Alike(thread[u], thread'[u]) /\ thread'[u].others = thread[u].others
    BY <1>3, <1>6 DEF OnlyOne, Alike
  <2> QED BY <1>2, <2>1, AlikeKeepsData
<1> QED BY <1>1, <1>2, <1>6, <1>7, <1>8, <1>9 DEF FatInv, TwoCaches

\* What the invariant says, for one thread.
LEMMA InvParts ==
  ASSUME FatInv, NEW t \in Threads
  PROVE  /\ AllWorkIsSound(thread) /\ WorkIsSound(thread[t]) /\ thread[t] \in Work
         /\ FatLine(fat_lock, thread) /\ BusLine(bus_lock, thread)
         /\ TwoCaches(cache) /\ FatCacheIsSound(cache.fat, thread) /\ DiskIsSound(disk) /\ unwritten \subseteq Clusters
         /\ DataCacheIsSound(cache.data, disk, unwritten, thread)
<1>1. AllWorkIsSound(thread) /\ WorkIsSound(thread[t]) /\ thread[t] \in Work
  BY DEF FatInv, AllWorkIsSound, WorkIsSound
<1>2. FatLine(fat_lock, thread) /\ BusLine(bus_lock, thread)
  BY TwoLines DEF FatInv
<1> QED BY <1>1, <1>2 DEF FatInv, TwoCaches

\* A call that returns leaves no trace in what the threads do.
LEMMA ReturnIsSound ==
  ASSUME NEW t \in Threads, AllWorkIsSound(thread), Return(t)
  PROVE  /\ AllWorkIsSound(thread') /\ OnlyOne(thread, thread', t) /\ AlikeBut(thread, thread', t)
         /\ thread'[t] = Idle /\ ~UsesData(thread'[t]) /\ ~HasFatLock(thread'[t])
         /\ thread'[t].kind = "data" /\ thread'[t].pc = "idle"
<1>1. GoesOn(thread, thread', t, Idle) /\ WorkIsSound(Idle) /\ Idle.pc = "idle"
  BY IdleIsSound DEF Return, GoesOn
<1>2. AllWorkIsSound(thread') /\ OnlyOne(thread, thread', t) /\ AlikeBut(thread, thread', t) /\ thread'[t] = Idle
  BY <1>1, OneStep
<1> QED BY <1>2, IdleIsSound

\* A thread that goes on without an entry, and has not been storing, leaves both caches sound.
LEMMA CachesKept ==
  ASSUME FatInv, NEW t \in Threads, OnlyOne(thread, thread', t), ~UsesData(thread'[t]), thread'[t].kind = "data",
         ~(thread[t].pc = "bus" /\ thread[t].storing)
  PROVE  FatCacheIsSound(cache.fat, thread') /\ DataCacheIsSound(cache.data, disk, unwritten, thread')
<1>1. FatCacheIsSound(cache.fat, thread) /\ DataCacheIsSound(cache.data, disk, unwritten, thread)
  BY InvParts
<1>2. AlikeBut(thread, thread', t) /\ \A u \in Threads : u # t => thread'[u] = thread[u]
  BY OneIsAlike DEF OnlyOne
<1> QED BY <1>1, <1>2, FatCacheKept, LeavingKeepsData

\* A call that begins.
Called(start, n, write) ==
  [Idle EXCEPT !.pc = IF n = 0 THEN "block" ELSE "walk", !.cluster = start, !.inode = start, !.left = n, !.write = write]

\* The work with which a call begins.
LEMMA CalledIsSound ==
  ASSUME NEW start \in Starts, NEW n \in Nat, NEW write \in BOOLEAN
  PROVE  /\ WorkIsSound(Called(start, n, write))
         /\ Called(start, n, write).pc = IF n = 0 THEN "block" ELSE "walk"
         /\ Called(start, n, write).inode = start /\ Called(start, n, write).write = write
         /\ Called(start, n, write).kind = "data"
<1> DEFINE q == Called(start, n, write)
           pc == IF n = 0 THEN "block" ELSE "walk"
<1>p. pc \in Pcs /\ pc \in {"block", "walk"}
  BY DEF Pcs
<1>q. q = [Idle EXCEPT !.pc = pc, !.cluster = start, !.inode = start, !.left = n, !.write = write]
  BY DEF Called
<1> HIDE DEF pc, q
<1>1. q = [pc |-> pc, write |-> write, cluster |-> start, left |-> n, kind |-> "data",
           entry |-> NONE, storing |-> FALSE, retries |-> 0, err |-> FALSE, others |-> 0, inode |-> start]
  BY <1>q DEF Idle
<1>2. start \in Clusters /\ start \in Numbers /\ start # EOC /\ Owner[start] = start /\ 0 \in 0 .. max_retries
  BY Fat32Assumption, MarksAreApart, OwnersAreGiven DEF Numbers
<1>3. q \in Work
  <2>1. "data" \in Kinds
    BY DEF Kinds
  <2> QED BY <1>1, <1>2, <1>p, <2>1 DEF Work
<1>4. /\ q.pc = pc /\ q.write = write /\ q.cluster = start /\ q.kind = "data"
      /\ q.storing = FALSE /\ q.inode = start
  BY <1>1
<1>5. WorkIsSound(q)
  BY <1>2, <1>3, <1>4, <1>p DEF WorkIsSound, HasEntry
<1> QED BY <1>4, <1>5 DEF q, pc

\* read and write begin.
LEMMA CallKeeps ==
  ASSUME FatInv, NEW t \in Threads, NEW start \in Starts, NEW n \in 0 .. max_clusters, NEW write \in BOOLEAN,
         Call(t, start, n, write)
  PROVE  FatInv'
<1> DEFINE q == Called(start, n, write)
<1>1. /\ AllWorkIsSound(thread) /\ WorkIsSound(thread[t]) /\ thread[t] \in Work
      /\ FatLine(fat_lock, thread) /\ BusLine(bus_lock, thread)
      /\ TwoCaches(cache) /\ DiskIsSound(disk) /\ unwritten \subseteq Clusters
  BY InvParts
<1>2. /\ thread[t].pc = "idle" /\ Careful(t, write, start) /\ thread' = [thread EXCEPT ![t] = q]
      /\ UNCHANGED <<disk, unwritten, cache, bus_lock>> /\ n \in Nat
      /\ IF n = 0 THEN fat_lock' = fat_lock ELSE LockFat(t)
  BY Fat32Assumption DEF Call, Called
<1>3. /\ WorkIsSound(q) /\ q.pc = (IF n = 0 THEN "block" ELSE "walk") /\ q.inode = start /\ q.write = write
      /\ q.kind = "data"
  BY <1>2, CalledIsSound
<1> HIDE DEF q
<1>4. thread'[t] = q /\ thread' = [thread EXCEPT ![t] = thread'[t]]
  BY <1>1, <1>2 DEF AllWorkIsSound
<1>5. \A u \in Threads : u # t => Alone(thread[u], thread'[t]) /\ Alone(thread'[t], thread[u])
  BY <1>2, <1>3, <1>4 DEF Careful, Alone
<1>6. AllWorkIsSound(thread') /\ OnlyOne(thread, thread', t) /\ AlikeBut(thread, thread', t)
  <2>1. WorkIsSound(thread'[t])
    BY <1>3, <1>4
  <2> QED BY <1>1, <1>4, <1>5, <2>1, WorkKept
<1>7. FatCacheIsSound(cache.fat, thread') /\ DataCacheIsSound(cache.data, disk, unwritten, thread')
  <2>1. ~UsesData(thread'[t]) /\ thread'[t].kind = "data" /\ thread[t].pc # "bus"
    BY <1>2, <1>3, <1>4 DEF UsesData, HasEntry
  <2> QED BY <1>6, <2>1, CachesKept
<1>8. ~HasFatLock(thread[t])
  BY <1>1, <1>2 DEF HasFatLock, WorkIsSound
<1>9. FatLine(fat_lock', thread') /\ BusLine(bus_lock', thread')
  <2>1. BusLine(bus_lock, thread')
    BY <1>1, <1>2, <1>3, <1>4, <1>6, BusLineSame
  <2>2. CASE n = 0
    <3>1. (HasFatLock(thread'[t]) <=> HasFatLock(thread[t])) /\ thread'[t].kind # "fat"
      BY <1>3, <1>4, <1>8, <2>2 DEF HasFatLock
    <3>2. FatLine(fat_lock, thread')
      BY <1>1, <1>6, <3>1, FatLineSame
    <3> QED BY <1>2, <2>1, <2>2, <3>2
  <2>3. CASE n # 0
    <3>1. thread'[t].pc = "walk" /\ thread'[t].kind = "data"
      BY <1>3, <1>4, <2>3
    <3>2. FatLine(Append(fat_lock, t), thread')
      BY <1>1, <1>6, <1>8, <3>1, FatLineJoined
    <3> QED BY <1>2, <2>1, <2>3, <3>2 DEF LockFat
  <2> QED BY <2>2, <2>3
<1>10. LinesAreSound(fat_lock', bus_lock', thread')
  BY <1>9, TwoLines
<1> QED BY <1>1, <1>2, <1>6, <1>7, <1>10 DEF FatInv, TwoCaches

\* A write has stored its block.
LEMMA WrittenKeeps == ASSUME FatInv, NEW t \in Threads, Written(t) PROVE FatInv'
<1>1. /\ AllWorkIsSound(thread) /\ WorkIsSound(thread[t]) /\ thread[t] \in Work
      /\ FatLine(fat_lock, thread) /\ BusLine(bus_lock, thread)
      /\ TwoCaches(cache) /\ DiskIsSound(disk) /\ unwritten \subseteq Clusters
  BY InvParts
<1>2. thread[t].pc = "written" /\ Return(t) /\ UNCHANGED <<disk, unwritten, cache, fat_lock, bus_lock>>
  BY DEF Written
<1>3. /\ AllWorkIsSound(thread') /\ OnlyOne(thread, thread', t) /\ AlikeBut(thread, thread', t)
      /\ ~UsesData(thread'[t]) /\ ~HasFatLock(thread'[t]) /\ thread'[t].kind = "data" /\ thread'[t].pc = "idle"
  BY <1>1, <1>2, ReturnIsSound
<1>4. ~HasFatLock(thread[t])
  BY <1>1, <1>2 DEF HasFatLock, WorkIsSound
<1>5. FatCacheIsSound(cache.fat, thread') /\ DataCacheIsSound(cache.data, disk, unwritten, thread')
  BY <1>2, <1>3, CachesKept
<1>6. FatLine(fat_lock, thread') /\ BusLine(bus_lock, thread')
  BY <1>1, <1>2, <1>3, <1>4, FatLineSame, BusLineSame
<1> QED BY <1>1, <1>2, <1>3, <1>5, <1>6, TwoLines DEF FatInv, TwoCaches

\* The next step of the walk after the block of the FAT.
Onward(r, cluster) ==
  [r EXCEPT !.pc = "walk", !.left = @ - 1, !.kind = "data", !.entry = NONE, !.cluster = cluster]

\* The work of a walk that goes on to the next cluster.
LEMMA OnwardIsSound ==
  ASSUME NEW r, WorkIsSound(r), r.kind = "fat", r.cluster \in Clusters
  PROVE  /\ WorkIsSound(Onward(r, FatTable[r.cluster]))
         /\ Onward(r, FatTable[r.cluster]).pc = "walk" /\ Onward(r, FatTable[r.cluster]).kind = "data"
         /\ Onward(r, FatTable[r.cluster]).inode = r.inode /\ Onward(r, FatTable[r.cluster]).write = r.write
<1> DEFINE x == FatTable[r.cluster]  q == Onward(r, x)
<1>1. r \in Work /\ r.left - 1 \in Nat /\ ~r.storing /\ r.inode \in Starts /\ Owner[r.cluster] = r.inode
  BY DEF WorkIsSound, Work
<1>2. x \in Numbers /\ (x \in Clusters => Owner[x] = r.inode)
  BY <1>1, Fat32Assumption, OwnersAreGiven DEF Numbers
<1> HIDE DEF x
<1>3. q = [pc |-> "walk", write |-> r.write, cluster |-> x, left |-> r.left - 1, kind |-> "data",
           entry |-> NONE, storing |-> r.storing, retries |-> r.retries, err |-> r.err, others |-> r.others, inode |-> r.inode]
  <2>1. r = [pc |-> r.pc, write |-> r.write, cluster |-> r.cluster, left |-> r.left, kind |-> r.kind,
          entry |-> r.entry, storing |-> r.storing, retries |-> r.retries, err |-> r.err, others |-> r.others, inode |-> r.inode]
    BY <1>1 DEF Work
  <2>2. q = [[pc |-> r.pc, write |-> r.write, cluster |-> r.cluster, left |-> r.left, kind |-> r.kind,
          entry |-> r.entry, storing |-> r.storing, retries |-> r.retries, err |-> r.err, others |-> r.others, inode |-> r.inode]
          EXCEPT !.pc = "walk", !.left = @ - 1, !.kind = "data", !.entry = NONE, !.cluster = x]
    BY <2>1 DEF Onward
  <2> HIDE DEF q
  <2> QED BY <2>2
<1> HIDE DEF q
<1>4. q \in Work
  BY <1>1, <1>2, <1>3 DEF Work, Pcs, Kinds
<1>5. /\ q.pc = "walk" /\ q.kind = "data" /\ q.inode = r.inode /\ q.write = r.write /\ q.cluster = x /\ ~q.storing
  BY <1>1, <1>3
<1>6. WorkIsSound(q)
  BY <1>1, <1>2, <1>4, <1>5 DEF WorkIsSound, HasEntry
<1> QED BY <1>5, <1>6 DEF q, x

\* The walk has the block of the FAT and follows it.
LEMMA FollowKeeps == ASSUME FatInv, NEW t \in Threads, Follow(t) PROVE FatInv'
<1> DEFINE r == thread[t]  b == r.cluster  e == r.entry
<1>1. /\ AllWorkIsSound(thread) /\ WorkIsSound(r) /\ r \in Work
      /\ FatLine(fat_lock, thread) /\ BusLine(bus_lock, thread)
      /\ TwoCaches(cache) /\ FatCacheIsSound(cache.fat, thread) /\ DiskIsSound(disk) /\ unwritten \subseteq Clusters
  BY InvParts
<1>2. r.pc = "filled" /\ r.kind = "fat" /\ UNCHANGED <<disk, unwritten, bus_lock>>
  BY DEF Follow
<1>3. Head(fat_lock) = t /\ HasFatLock(r)
  BY <1>1, <1>2 DEF FatLine, HasFatLock
<1>4. CASE r.err
  <2>1. fat_lock' = Tail(fat_lock) /\ Return(t) /\ cache' = cache
    BY <1>4 DEF Follow
  <2>2. /\ AllWorkIsSound(thread') /\ OnlyOne(thread, thread', t) /\ AlikeBut(thread, thread', t)
        /\ ~UsesData(thread'[t]) /\ ~HasFatLock(thread'[t]) /\ thread'[t].kind = "data" /\ thread'[t].pc = "idle"
    BY <1>1, <2>1, ReturnIsSound
  <2>3. FatCacheIsSound(cache.fat, thread') /\ DataCacheIsSound(cache.data, disk, unwritten, thread')
    BY <1>2, <2>2, CachesKept
  <2>4. FatLine(Tail(fat_lock), thread') /\ BusLine(bus_lock, thread')
    BY <1>1, <1>2, <1>3, <2>2, FatLineLeft, BusLineSame
  <2> QED BY <1>1, <1>2, <2>1, <2>2, <2>3, <2>4, TwoLines DEF FatInv, TwoCaches
<1>5. CASE ~r.err
  <2> DEFINE q == Onward(r, FatTable[b])  d == [cache.fat EXCEPT !.lba[e] = b]
  <2>1. b \in Clusters /\ e \in 1 .. cache_size.fat /\ cache.fat.content[e][1] = b
    BY <1>1, <1>2, <1>5 DEF WorkIsSound, HasEntry, FatCacheIsSound, Entries
  <2>2. /\ fat_lock' = fat_lock /\ GoesOn(thread, thread', t, q)
        /\ cache' = [cache EXCEPT !["fat"] = d]
    <3>1. /\ cache' = [cache EXCEPT !.fat.lba[e] = b] /\ fat_lock' = fat_lock
          /\ thread' = [thread EXCEPT ![t] = [r EXCEPT !.pc = "walk", !.left = @ - 1,
                   !.kind = "data", !.entry = NONE, !.cluster = FatTable[cache.fat.content[e][1]]]]
      BY <1>5 DEF Follow
    <3>2. "fat" \in Kinds
      BY DEF Kinds
    <3>3. cache' = [cache EXCEPT !["fat"] = d]
      BY <1>1, <3>1, <3>2, CacheFields
    <3>4. GoesOn(thread, thread', t, q)
      BY <2>1, <3>1 DEF GoesOn, Onward
    <3> QED BY <3>1, <3>3, <3>4
  <2>3. /\ WorkIsSound(q) /\ q.pc = "walk" /\ q.kind = "data" /\ q.inode = r.inode /\ q.write = r.write
    BY <1>1, <1>2, <2>1, OnwardIsSound
  <2> HIDE DEF q
  <2>4. AllWorkIsSound(thread') /\ OnlyOne(thread, thread', t) /\ AlikeBut(thread, thread', t) /\ thread'[t] = q
    BY <1>1, <1>2, <2>2, <2>3, OneStep
  <2>5. FatCacheIsSound(d, thread')
    <3>1. \A u \in Threads : thread'[u].kind # "fat"
      BY <1>1, <1>2, <2>3, <2>4, OnlyOneInFat
    <3> QED BY <1>1, <2>1, <3>1, FatBlockNumbered
  <2>6. DataCacheIsSound(cache.data, disk, unwritten, thread')
    <3>1. ~UsesData(thread'[t]) /\ thread'[t].kind = "data"
      BY <2>3, <2>4 DEF UsesData, HasEntry
    <3> QED BY <1>2, <2>4, <3>1, CachesKept
  <2> HIDE DEF d
  <2>7. TwoCaches(cache') /\ cache'.fat = d /\ cache'.data = cache.data
    BY <1>1, <2>2, OneCacheChanges
  <2>8. FatLine(fat_lock, thread') /\ BusLine(bus_lock, thread')
    <3>1. HasFatLock(thread'[t])
      BY <2>3, <2>4 DEF HasFatLock
    <3> QED BY <1>1, <1>2, <1>3, <2>3, <2>4, <3>1, FatLineSame, BusLineSame
  <2> QED BY <1>1, <1>2, <2>2, <2>4, <2>5, <2>6, <2>7, <2>8, TwoLines DEF FatInv, TwoCaches
<1> QED BY <1>4, <1>5

\* A read has its block.
LEMMA TakeBlockKeeps == ASSUME FatInv, NEW t \in Threads, TakeBlock(t) PROVE FatInv'
<1> DEFINE r == thread[t]  b == r.cluster  e == r.entry  N == cache_size.data
<1>1. /\ AllWorkIsSound(thread) /\ WorkIsSound(r) /\ r \in Work
      /\ FatLine(fat_lock, thread) /\ BusLine(bus_lock, thread)
      /\ TwoCaches(cache) /\ FatCacheIsSound(cache.fat, thread) /\ DiskIsSound(disk) /\ unwritten \subseteq Clusters
      /\ DataCacheIsSound(cache.data, disk, unwritten, thread)
  BY InvParts
<1>2. /\ r.pc = "filled" /\ r.kind = "data" /\ ~r.write /\ Return(t) /\ UNCHANGED <<disk, unwritten, fat_lock, bus_lock>>
      /\ cache' = IF r.err THEN cache ELSE [cache EXCEPT !.data.lba[e] = b]
  BY DEF TakeBlock
<1>3. /\ AllWorkIsSound(thread') /\ OnlyOne(thread, thread', t) /\ AlikeBut(thread, thread', t)
      /\ ~UsesData(thread'[t]) /\ ~HasFatLock(thread'[t]) /\ thread'[t].kind = "data" /\ thread'[t].pc = "idle"
  BY <1>1, <1>2, ReturnIsSound
<1>4. FatCacheIsSound(cache.fat, thread') /\ DataCacheIsSound(cache.data, disk, unwritten, thread')
  BY <1>2, <1>3, CachesKept
<1>5. LinesAreSound(fat_lock', bus_lock', thread')
  <2>1. ~HasFatLock(r)
    BY <1>2 DEF HasFatLock
  <2>2. FatLine(fat_lock, thread') /\ BusLine(bus_lock, thread')
    BY <1>1, <1>2, <1>3, <2>1, FatLineSame, BusLineSame
  <2> QED BY <1>2, <2>2, TwoLines
<1>6. CASE r.err
  BY <1>1, <1>2, <1>3, <1>4, <1>5, <1>6 DEF FatInv, TwoCaches
<1>7. CASE ~r.err
  <2> DEFINE d == [cache.data EXCEPT !.lba[e] = b]
  <2>1. Holds(cache.data, disk, unwritten, thread, t, e, b) /\ UsesData(r)
    BY <1>1, <1>2, <1>7 DEF Holds, UsesData, HasEntry, WorkIsSound
  <2>2. Filled(cache.data, d, e, b, cache.data.content[e], N)
    <3>1. e \in 1 .. N /\ b \in Clusters /\ N \in Nat /\ CacheShape(cache.data, N) /\ cache.data.content[e] \in Contents
      <4>1. Holds(cache.data, disk, unwritten, thread, t, e, b)
        BY <2>1
      <4> HIDE DEF r, b, e
      <4>2. /\ e \in 1 .. cache_size.data /\ CacheShape(cache.data, cache_size.data)
            /\ cache.data.content \in [1 .. cache_size.data -> Contents]
        BY <4>1, HeldEntry
      <4>3. b \in Clusters
        BY <4>1 DEF Holds
      <4>4. cache_size.data \in Nat
        BY MarksAreApart
      <4> QED BY <4>2, <4>3, <4>4
    <3>2. Filled(cache.data, [cache.data EXCEPT !.lba[e] = b, !.content[e] = cache.data.content[e]], e, b,
                 cache.data.content[e], N)
      BY <3>1, FilledIsSound
    <3>3. [cache.data EXCEPT !.lba[e] = b, !.content[e] = cache.data.content[e]] = d
      BY <3>1 DEF CacheShape
    <3> QED BY <3>2, <3>3
  <2>3. DataCacheIsSound(d, disk, unwritten, thread')
    BY <1>2, <1>3, <1>7, <2>1, <2>2, TakeKeepsData
  <2>4. cache' = [cache EXCEPT !["data"] = d]
    <3>1. "data" \in Kinds
      BY DEF Kinds
    <3> QED BY <1>1, <1>2, <1>7, <3>1, CacheFields
  <2> HIDE DEF d
  <2>5. TwoCaches(cache') /\ cache'.data = d /\ cache'.fat = cache.fat
    BY <1>1, <2>4, OneCacheChanges
  <2> QED BY <1>1, <1>2, <1>3, <1>4, <1>5, <2>3, <2>5 DEF FatInv, TwoCaches
<1> QED BY <1>6, <1>7

\* A write that has its block goes on to store it.
Storing(r) == [r EXCEPT !.pc = "bus", !.storing = TRUE, !.retries = 0]

\* The work of a write that stores its block.
LEMMA StoringIsSound ==
  ASSUME NEW r, WorkIsSound(r), r.pc = "filled", ~r.err, r.kind = "data", r.write
  PROVE  /\ WorkIsSound(Storing(r)) /\ Storing(r).pc = "bus" /\ Storing(r).kind = "data"
         /\ Storing(r).inode = r.inode /\ Storing(r).write = r.write
<1> DEFINE q == Storing(r)
<1>1. r \in Work /\ r.cluster \in Clusters /\ r.entry \in Entries(r.kind) /\ 0 \in 0 .. max_retries
  BY Fat32Assumption DEF WorkIsSound, HasEntry
<1>3. q = [pc |-> "bus", write |-> r.write, cluster |-> r.cluster, left |-> r.left, kind |-> r.kind,
           entry |-> r.entry, storing |-> TRUE, retries |-> 0, err |-> r.err, others |-> r.others, inode |-> r.inode]
  <2>1. r = [pc |-> r.pc, write |-> r.write, cluster |-> r.cluster, left |-> r.left, kind |-> r.kind,
          entry |-> r.entry, storing |-> r.storing, retries |-> r.retries, err |-> r.err, others |-> r.others, inode |-> r.inode]
    BY <1>1 DEF Work
  <2>2. q = [[pc |-> r.pc, write |-> r.write, cluster |-> r.cluster, left |-> r.left, kind |-> r.kind,
          entry |-> r.entry, storing |-> r.storing, retries |-> r.retries, err |-> r.err, others |-> r.others, inode |-> r.inode]
          EXCEPT !.pc = "bus", !.storing = TRUE, !.retries = 0]
    BY <2>1 DEF Storing
  <2> HIDE DEF q
  <2> QED BY <2>2
<1> HIDE DEF q
<1>4. q \in Work
  BY <1>1, <1>3 DEF Work, Pcs
<1>5. /\ q.pc = "bus" /\ q.kind = "data" /\ q.inode = r.inode /\ q.write = r.write /\ q.cluster = r.cluster /\ q.storing
      /\ q.entry = r.entry
  BY <1>3
<1>6. WorkIsSound(q)
  BY <1>1, <1>4, <1>5 DEF WorkIsSound, HasEntry
<1> QED BY <1>5, <1>6 DEF q

\* A write has its block and changes it.
LEMMA PutBlockKeeps == ASSUME FatInv, NEW t \in Threads, PutBlock(t) PROVE FatInv'
<1> DEFINE r == thread[t]  b == r.cluster  e == r.entry  N == cache_size.data
<1>1. /\ AllWorkIsSound(thread) /\ WorkIsSound(r) /\ r \in Work
      /\ FatLine(fat_lock, thread) /\ BusLine(bus_lock, thread)
      /\ TwoCaches(cache) /\ FatCacheIsSound(cache.fat, thread) /\ DiskIsSound(disk) /\ unwritten \subseteq Clusters
      /\ DataCacheIsSound(cache.data, disk, unwritten, thread)
  BY InvParts
<1>2. r.pc = "filled" /\ r.kind = "data" /\ r.write /\ UNCHANGED <<disk, unwritten, fat_lock>> /\ ~HasFatLock(r)
  BY DEF PutBlock, HasFatLock
<1>3. CASE r.err
  <2>1. Return(t) /\ UNCHANGED <<cache, bus_lock>>
    BY <1>3 DEF PutBlock
  <2>2. /\ AllWorkIsSound(thread') /\ OnlyOne(thread, thread', t) /\ AlikeBut(thread, thread', t)
        /\ ~UsesData(thread'[t]) /\ ~HasFatLock(thread'[t]) /\ thread'[t].kind = "data" /\ thread'[t].pc = "idle"
    BY <1>1, <2>1, ReturnIsSound
  <2>3. FatCacheIsSound(cache.fat, thread') /\ DataCacheIsSound(cache.data, disk, unwritten, thread')
    BY <1>2, <2>2, CachesKept
  <2>4. FatLine(fat_lock, thread') /\ BusLine(bus_lock, thread')
    BY <1>1, <1>2, <2>2, FatLineSame, BusLineSame
  <2> QED BY <1>1, <1>2, <2>1, <2>2, <2>3, <2>4, TwoLines DEF FatInv, TwoCaches
<1>4. CASE ~r.err
  <2> DEFINE q == Storing(r)
             old == cache.data.content[e]
             x == [old EXCEPT ![2] = (@ + 1) % versions]
             d == [cache.data EXCEPT !.lba[e] = b, !.content[e] = x]
  <2>1. Holds(cache.data, disk, unwritten, thread, t, e, b)
    BY <1>1, <1>2, <1>4 DEF Holds, UsesData, HasEntry, WorkIsSound
  <2>2. /\ e \in 1 .. N /\ b \in Clusters /\ N \in Nat /\ CacheShape(cache.data, N)
        /\ cache.data.content \in [1 .. N -> Contents] /\ old \in Contents
    <3>1. /\ e \in 1 .. N /\ CacheShape(cache.data, N) /\ cache.data.content \in [1 .. N -> Contents]
      BY <2>1, HeldEntry
    <3> QED BY <2>1, <3>1, MarksAreApart DEF Holds
  <2>3. old[1] = b
    BY <1>2, <1>4, <2>1, FoundBlock
  <2>4. x \in Contents /\ x[1] = b
    <3>1. PICK y \in Clusters \cup {NONE}, v \in 0 .. versions - 1 : old = <<y, v>>
      <4> HIDE DEF old
      <4> QED BY <2>2 DEF Contents
    <3>2. x = <<y, (v + 1) % versions>>
      BY <3>1
    <3>3. (v + 1) % versions \in 0 .. versions - 1
      BY Fat32Assumption
    <3> QED BY <2>3, <3>1, <3>2, <3>3 DEF Contents
  <2>5. bus_lock' = Append(bus_lock, t) /\ GoesOn(thread, thread', t, q) /\ cache' = [cache EXCEPT !["data"] = d]
    <3>1. /\ cache' = [cache EXCEPT !.data.lba[e] = b, !.data.content[e][2] = (@ + 1) % versions]
          /\ bus_lock' = Append(bus_lock, t) /\ GoesOn(thread, thread', t, q)
      BY <1>4 DEF PutBlock, GoesOn, Storing
    <3>2. [cache EXCEPT !.data.lba[e] = b, !.data.content[e][2] = (@ + 1) % versions] = [cache EXCEPT !["data"] = d]
      <4>1. cache.data = [lba |-> cache.data.lba, content |-> cache.data.content, order |-> cache.data.order]
        BY <2>2 DEF CacheShape
      <4> QED BY <1>1, <2>2, <4>1 DEF TwoCaches, Kinds
    <3> QED BY <3>1, <3>2
  <2>6. Filled(cache.data, d, e, b, x, N)
    <3> HIDE DEF x
    <3> QED BY <2>2, <2>4, FilledIsSound
  <2>7. WorkIsSound(q) /\ q.pc = "bus" /\ q.kind = "data" /\ q.inode = r.inode /\ q.write = r.write
    BY <1>1, <1>2, <1>4, StoringIsSound
  <2>8. AllWorkIsSound(thread') /\ OnlyOne(thread, thread', t) /\ AlikeBut(thread, thread', t) /\ thread'[t] = q
    <3>1. r.pc # "idle" /\ q.inode = r.inode /\ q.write = r.write
      BY <1>2, <2>7
    <3> HIDE DEF q, d, x
    <3> QED BY <1>1, <2>5, <2>7, <3>1, OneStep
  <2> HIDE DEF d, x
  <2>9. DataCacheIsSound(d, disk, unwritten, thread')
    <3>1. thread'[t] = [r EXCEPT !.pc = "bus", !.storing = TRUE, !.retries = 0]
      BY <2>8 DEF Storing
    <3> QED BY <1>2, <1>4, <2>1, <2>4, <2>6, <2>8, <3>1, PutKeepsData
  <2> HIDE DEF q
  <2>10. TwoCaches(cache') /\ cache'.data = d /\ cache'.fat = cache.fat
    BY <1>1, <2>5, OneCacheChanges
  <2>11. FatCacheIsSound(cache.fat, thread')
    BY <1>1, <2>7, <2>8, FatCacheKept
  <2>12. FatLine(fat_lock, thread') /\ BusLine(Append(bus_lock, t), thread')
    <3>1. ~HasFatLock(thread'[t])
      BY <2>7, <2>8 DEF HasFatLock
    <3> QED BY <1>1, <1>2, <2>7, <2>8, <3>1, FatLineSame, BusLineJoined
  <2> QED BY <1>1, <1>2, <2>5, <2>8, <2>9, <2>10, <2>11, <2>12, TwoLines DEF FatInv, TwoCaches
<1> QED BY <1>3, <1>4

\* What a thread is given: the entry e of a cache, in which its block is found or has to be read.
Given(r, k, e) == [r EXCEPT !.kind = k, !.entry = e, !.others = 0]
Missed(r, k, e) == [Given(r, k, e) EXCEPT !.pc = "bus", !.retries = 0]
Ready(r, k, e, missing) == [Given(r, k, e) EXCEPT !.pc = "filled", !.err = missing]
Sought(r, q, k, e, missing) ==
  /\ q.kind = k /\ q.entry = e /\ q.others = 0 /\ ~q.storing
  /\ q.cluster = r.cluster /\ q.write = r.write /\ q.inode = r.inode
  /\ IF missing THEN q.pc = "bus" \/ (q.pc = "filled" /\ q.err) ELSE q.pc = "filled"

\* The work of a thread that has been given an entry.
LEMMA GivenIsSound ==
  ASSUME NEW r, WorkIsSound(r), r.pc \in {"walk", "block"}, NEW k \in Kinds, NEW e \in Entries(k),
         k = "fat" => r.left > 0, NEW missing \in BOOLEAN, ~missing => r.cluster \in Clusters
  PROVE  /\ r.cluster \in Clusters => WorkIsSound(Missed(r, k, e))
         /\ missing => Sought(r, Missed(r, k, e), k, e, missing)
         /\ WorkIsSound(Ready(r, k, e, missing))
         /\ Sought(r, Ready(r, k, e, missing), k, e, missing)
         /\ Missed(r, k, e).pc = "bus"
         /\ Ready(r, k, e, missing).pc = "filled"
<1> DEFINE g == Given(r, k, e)
           p == Missed(r, k, e)
           q == Ready(r, k, e, missing)
<1>1. /\ r \in Work /\ r.storing = FALSE /\ e \in Nat /\ 0 \in 0 .. max_retries /\ r.inode \in Starts /\ r.cluster \in Numbers
      /\ r.cluster \in Clusters => Owner[r.cluster] = r.inode
  <2>1. r \in Work /\ ~r.storing /\ r.inode \in Starts /\ r.cluster \in Numbers
        /\ (r.cluster \in Clusters => Owner[r.cluster] = r.inode)
    BY DEF WorkIsSound
  <2>2. e \in Nat
    BY DEF Entries
  <2>3. r.storing \in BOOLEAN
    BY <2>1 DEF Work
  <2> QED BY <2>1, <2>2, <2>3, Fat32Assumption
<1>2. g = [pc |-> r.pc, write |-> r.write, cluster |-> r.cluster, left |-> r.left, kind |-> k,
           entry |-> e, storing |-> FALSE, retries |-> r.retries, err |-> r.err, others |-> 0, inode |-> r.inode]
  <2>1. r = [pc |-> r.pc, write |-> r.write, cluster |-> r.cluster, left |-> r.left, kind |-> r.kind,
          entry |-> r.entry, storing |-> FALSE, retries |-> r.retries, err |-> r.err, others |-> r.others, inode |-> r.inode]
    BY <1>1 DEF Work
  <2>2. g = [[pc |-> r.pc, write |-> r.write, cluster |-> r.cluster, left |-> r.left, kind |-> r.kind,
          entry |-> r.entry, storing |-> FALSE, retries |-> r.retries, err |-> r.err, others |-> r.others, inode |-> r.inode]
          EXCEPT !.kind = k, !.entry = e, !.others = 0]
    BY <2>1 DEF Given
  <2> HIDE DEF g
  <2> QED BY <2>2
<1> HIDE DEF g
<1>3. p = [pc |-> "bus", write |-> r.write, cluster |-> r.cluster, left |-> r.left, kind |-> k,
           entry |-> e, storing |-> FALSE, retries |-> 0, err |-> r.err, others |-> 0, inode |-> r.inode]
  <2>1. p = [[pc |-> r.pc, write |-> r.write, cluster |-> r.cluster, left |-> r.left, kind |-> k,
           entry |-> e, storing |-> FALSE, retries |-> r.retries, err |-> r.err, others |-> 0, inode |-> r.inode]
             EXCEPT !.pc = "bus", !.retries = 0]
    BY <1>2 DEF Missed, g
  <2> HIDE DEF p
  <2> QED BY <2>1
<1>4. q = [pc |-> "filled", write |-> r.write, cluster |-> r.cluster, left |-> r.left, kind |-> k,
           entry |-> e, storing |-> FALSE, retries |-> r.retries, err |-> missing, others |-> 0, inode |-> r.inode]
  <2>1. q = [[pc |-> r.pc, write |-> r.write, cluster |-> r.cluster, left |-> r.left, kind |-> k,
           entry |-> e, storing |-> FALSE, retries |-> r.retries, err |-> r.err, others |-> 0, inode |-> r.inode]
             EXCEPT !.pc = "filled", !.err = missing]
    BY <1>2 DEF Ready, g
  <2> HIDE DEF q
  <2> QED BY <2>1
<1> HIDE DEF p, q
<1>5. p \in Work
  BY <1>1, <1>3 DEF Work, Pcs
<1>6. q \in Work
  BY <1>1, <1>4 DEF Work, Pcs
<1>7. /\ p.pc = "bus" /\ p.write = r.write /\ p.cluster = r.cluster /\ p.left = r.left /\ p.kind = k /\ p.entry = e
      /\ ~p.storing /\ p.others = 0 /\ p.inode = r.inode
  BY <1>3
<1>8. /\ q.pc = "filled" /\ q.write = r.write /\ q.cluster = r.cluster /\ q.left = r.left /\ q.kind = k /\ q.entry = e
      /\ ~q.storing /\ q.others = 0 /\ q.inode = r.inode /\ q.err = missing
  BY <1>4
<1>9. r.cluster \in Clusters => WorkIsSound(p)
  BY <1>1, <1>5, <1>7 DEF WorkIsSound, HasEntry
<1>10. WorkIsSound(q)
  BY <1>1, <1>6, <1>8 DEF WorkIsSound, HasEntry
<1>11. (missing => Sought(r, p, k, e, missing)) /\ Sought(r, q, k, e, missing)
  BY <1>7, <1>8 DEF Sought
<1> QED BY <1>7, <1>8, <1>9, <1>10, <1>11 DEF p, q, g

\* What the lookup does, before the block is read.
Looked(t, k, e, missing) ==
  /\ Finds(cache[k], thread[t].cluster, e, missing, cache_size[k])
  /\ Claimed(cache[k], Claim(cache[k], e, missing), e, missing, cache_size[k])
  /\ cache' = [cache EXCEPT ![k] = Claim(cache[k], e, missing)]
  /\ Seek(t, k, e, missing)

\* get_fat_block and get_data_block are a lookup.
LEMMA GetBlockLooks ==
  ASSUME NEW t \in Threads, NEW k \in Kinds, TwoCaches(cache), CacheShape(cache[k], cache_size[k]),
         thread[t].cluster \in Numbers, GetBlock(t, k)
  PROVE  \E e \in Entries(k), missing \in BOOLEAN : Looked(t, k, e, missing) /\ (~missing => thread[t].cluster \in Clusters)
<1> DEFINE c == cache[k]  b == thread[t].cluster  e == Chosen(c, b)  N == cache_size[k]
<1>1. N \in Nat \ {0} /\ Entries(k) = 1 .. N /\ INVALID \notin Numbers
  BY Fat32Assumption, MarksAreApart DEF Kinds, Entries
<1>2. /\ e \in 1 .. N
      /\ c.lba[e] = b => First(c, e)
      /\ c.lba[e] # b => /\ \A f \in 1 .. N : c.lba[f] # b
                         /\ Place(c.order, e) = 1
  BY <1>1, ChosenIsFirst
<1>3. cache' = [cache EXCEPT ![k] = Claim(c, e, c.lba[e] # b)] /\ Seek(t, k, e, c.lba[e] # b)
  BY DEF GetBlock
<1>4. CASE c.lba[e] = b
  <2>1. (c.lba[e] # b) = FALSE
    BY <1>4
  <2>2. Finds(c, b, e, FALSE, N)
    BY <1>2, <1>4 DEF Finds
  <2>3. Claimed(c, Claim(c, e, FALSE), e, FALSE, N)
    BY <1>1, <1>2, ClaimIsClaimed
  <2>4. b \in Clusters
    BY <1>1, <1>2, <1>4 DEF CacheShape
  <2>5. Looked(t, k, e, FALSE)
    BY <1>3, <2>1, <2>2, <2>3 DEF Looked
  <2> QED BY <1>1, <1>2, <2>4, <2>5
<1>5. CASE c.lba[e] # b
  <2>1. (c.lba[e] # b) = TRUE
    BY <1>5
  <2>2. Finds(c, b, e, TRUE, N)
    BY <1>2, <1>5 DEF Finds
  <2>3. Claimed(c, Claim(c, e, TRUE), e, TRUE, N)
    BY <1>1, <1>2, ClaimIsClaimed
  <2>5. Looked(t, k, e, TRUE)
    BY <1>3, <2>1, <2>2, <2>3 DEF Looked
  <2> QED BY <1>1, <1>2, <2>5
<1> QED BY <1>4, <1>5

\* The thread goes on with the entry: it has joined the line for the bus, or has no block to wait for.
Waits(t, k, q) ==
  /\ thread' = [Watch(t, k) EXCEPT ![t] = q]
  /\ \/ q.pc = "bus" /\ bus_lock' = Append(bus_lock, t)
     \/ q.pc = "filled" /\ bus_lock' = bus_lock

\* The block is found, or the thread joins the line for the bus, or the volume has no such block.
LEMMA SeekGives ==
  ASSUME NEW t \in Threads, WorkIsSound(thread[t]), thread[t].pc \in {"walk", "block"}, NEW k \in Kinds,
         NEW e \in Entries(k), k = "fat" => thread[t].left > 0, NEW missing \in BOOLEAN,
         ~missing => thread[t].cluster \in Clusters, Seek(t, k, e, missing)
  PROVE  \E q : WorkIsSound(q) /\ Sought(thread[t], q, k, e, missing) /\ Waits(t, k, q)
<1> DEFINE r == thread[t]  g == Given(r, k, e)
           p == Missed(r, k, e)
           q == Ready(r, k, e, missing)
<1>1. /\ r.cluster \in Clusters => WorkIsSound(p)
      /\ missing => Sought(r, p, k, e, missing)
      /\ WorkIsSound(q) /\ Sought(r, q, k, e, missing) /\ p.pc = "bus" /\ q.pc = "filled"
  <2>1. CASE missing = TRUE
    <3>1. /\ r.cluster \in Clusters => WorkIsSound(Missed(r, k, e))
          /\ Sought(r, Missed(r, k, e), k, e, TRUE)
          /\ WorkIsSound(Ready(r, k, e, TRUE))
          /\ Sought(r, Ready(r, k, e, TRUE), k, e, TRUE)
          /\ Missed(r, k, e).pc = "bus"
          /\ Ready(r, k, e, TRUE).pc = "filled"
      BY GivenIsSound
    <3> QED BY <2>1, <3>1
  <2>2. CASE missing = FALSE
    <3>1. /\ r.cluster \in Clusters => WorkIsSound(Missed(r, k, e))
          /\ WorkIsSound(Ready(r, k, e, FALSE))
          /\ Sought(r, Ready(r, k, e, FALSE), k, e, FALSE)
          /\ Missed(r, k, e).pc = "bus"
          /\ Ready(r, k, e, FALSE).pc = "filled"
      BY <2>2, GivenIsSound
    <3> QED BY <2>2, <3>1
  <2> QED BY <2>1, <2>2
<1>2. r \in Work /\ g.cluster = r.cluster
  BY DEF WorkIsSound, Work, Given
<1>3. IF missing /\ g.cluster \in Clusters
      THEN thread' = [Watch(t, k) EXCEPT ![t] = p] /\ bus_lock' = Append(bus_lock, t)
      ELSE thread' = [Watch(t, k) EXCEPT ![t] = q] /\ bus_lock' = bus_lock
  BY DEF Seek, Given, Missed, Ready
<1> HIDE DEF p, q, g
<1>4. CASE missing /\ g.cluster \in Clusters
  BY <1>1, <1>2, <1>3, <1>4 DEF Waits
<1>5. CASE ~(missing /\ g.cluster \in Clusters)
  BY <1>1, <1>3, <1>5 DEF Waits
<1> QED BY <1>4, <1>5

\* The threads after one of them has been given an entry of the data cache.
LEMMA WatchedWork ==
  ASSUME FatInv, NEW t \in Threads, NEW q, Waits(t, "data", q), WorkIsSound(q), thread[t].pc # "idle",
         q.inode = thread[t].inode, q.write = thread[t].write
  PROVE  /\ AllWorkIsSound(thread') /\ AlikeBut(thread, thread', t) /\ thread'[t] = q
         /\ \A u \in Threads : u # t /\ UsesData(thread[u]) => thread'[u].others = thread[u].others + 1
<1> DEFINE w == Watch(t, "data")
<1>1. /\ AllWorkIsSound(thread) /\ thread \in [Threads -> Work] /\ \A u \in Threads : WorkIsSound(thread[u])
      /\ q \in Work
  BY InvParts DEF AllWorkIsSound, WorkIsSound
<1>2. \A u \in Threads : u \in Using <=> UsesData(thread[u])
  BY DEF Using, UsesData, HasEntry
<1>3. /\ DOMAIN w = Threads
      /\ \A u \in Threads : w[u] = IF u \in Using \ {t} THEN [thread[u] EXCEPT !.others = @ + 1] ELSE thread[u]
  BY DEF Watch
<1> HIDE DEF w
<1>4. ASSUME NEW u \in Threads
      PROVE  /\ w[u] \in Work /\ Alike(thread[u], w[u]) /\ w[u].left = thread[u].left
             /\ u \in Using \ {t} => w[u].others = thread[u].others + 1
  <2>1. CASE u \in Using \ {t}
    <3>1. w[u] = [thread[u] EXCEPT !.others = @ + 1] /\ thread[u] \in Work
      BY <1>1, <1>3, <2>1
    <3>2. thread[u].others + 1 \in Nat
      BY <1>1 DEF Work
    <3> QED BY <3>1, <3>2, <2>1 DEF Work, Alike
  <2>2. CASE u \notin Using \ {t}
    BY <1>1, <1>3, <2>2 DEF Alike
  <2> QED BY <2>1, <2>2
<1>5. thread' = [w EXCEPT ![t] = q]
  BY DEF Waits, w
<1>6. /\ DOMAIN thread' = Threads /\ thread'[t] = q /\ thread' = [u \in Threads |-> thread'[u]]
      /\ \A u \in Threads : u # t => thread'[u] = w[u]
  <2>1. w = [u \in Threads |-> w[u]]
    BY DEF w, Watch
  <2> QED BY <1>3, <1>5, <2>1
<1>7. ASSUME NEW u \in Threads PROVE WorkIsSound(thread'[u])
  <2>1. CASE u = t
    BY <1>6, <2>1
  <2>2. CASE u # t
    <3>1. WorkIsSound(thread[u]) /\ Alike(thread[u], w[u]) /\ w[u] \in Work /\ w[u].left = thread[u].left
      BY <1>1, <1>4
    <3>2. WorkIsSound(w[u])
      BY <3>1 DEF WorkIsSound, Alike, HasEntry
    <3> QED BY <1>6, <2>2, <3>2
  <2> QED BY <2>1, <2>2
<1>8. AlikeBut(thread, thread', t)
  BY <1>4, <1>6 DEF AlikeBut
<1>9. ASSUME NEW u \in Threads, NEW v \in Threads, u # v PROVE Alone(thread'[u], thread'[v])
  <2>1. \A x \in Threads : /\ thread'[x].inode = thread[x].inode /\ thread'[x].write = thread[x].write
                           /\ thread'[x].pc # "idle" => thread[x].pc # "idle"
    BY <1>6, <1>8 DEF AlikeBut, Alike
  <2>2. Alone(thread[u], thread[v])
    BY <1>1, <1>9 DEF AllWorkIsSound
  <2> QED BY <2>1, <2>2 DEF Alone
<1>10. thread' \in [Threads -> Work]
  BY <1>6, <1>7 DEF WorkIsSound
<1>11. \A u \in Threads : u # t /\ UsesData(thread[u]) => thread'[u].others = thread[u].others + 1
  BY <1>2, <1>4, <1>6
<1> QED BY <1>6, <1>7, <1>8, <1>9, <1>10, <1>11 DEF AllWorkIsSound

\* Nobody waits so long that its entry comes to be the next that is taken.
LEMMA RoomIsLeft ==
  ASSUME NEW t \in Threads, Roomy(t)
  PROVE  \A u \in Threads : u # t /\ UsesData(thread[u]) => thread[u].others < cache_size.data - 1
BY DEF Roomy, Using, UsesData, HasEntry

\* The data cache after a lookup in it, or in the other one.
LEMMA DataKeptByAsk ==
  ASSUME FatInv, NEW t \in Threads, thread[t].pc = "block", Roomy(t), NEW e, NEW missing \in BOOLEAN,
         Looked(t, "data", e, missing), NEW q, WorkIsSound(q), Sought(thread[t], q, "data", e, missing),
         Waits(t, "data", q)
  PROVE  /\ AllWorkIsSound(thread') /\ AlikeBut(thread, thread', t) /\ thread'[t] = q
         /\ DataCacheIsSound(Claim(cache.data, e, missing), disk, unwritten, thread')
<1> DEFINE N == cache_size.data  d == Claim(cache.data, e, missing)
<1>1. /\ AllWorkIsSound(thread') /\ AlikeBut(thread, thread', t) /\ thread'[t] = q
      /\ \A u \in Threads : u # t /\ UsesData(thread[u]) => thread'[u].others = thread[u].others + 1
  <2>1. q.inode = thread[t].inode /\ q.write = thread[t].write
    BY DEF Sought
  <2> QED BY <2>1, WatchedWork
<1>2. AllWorkIsSound(thread) /\ DataCacheIsSound(cache.data, disk, unwritten, thread)
  BY InvParts
<1>3. Finds(cache.data, thread[t].cluster, e, missing, N) /\ Claimed(cache.data, d, e, missing, N)
  BY DEF Looked
<1>4. Asks(thread, thread', t, e, missing, N)
  <2>1. \A u \in Threads : u # t => Alike(thread[u], thread'[u])
    BY <1>1 DEF AlikeBut
  <2>2. \A u \in Threads : u # t /\ UsesData(thread[u]) => thread[u].others < N - 1
    BY RoomIsLeft
  <2>3. Sought(thread[t], thread'[t], "data", e, missing)
    BY <1>1
  <2> QED BY <1>1, <2>1, <2>2, <2>3 DEF Asks, Sought
<1>5. AskedFor(cache.data, d, disk, unwritten, thread, thread', t, e, missing)
  BY <1>2, <1>3, <1>4 DEF AskedFor
<1> HIDE DEF d
<1>6. DataCacheIsSound(d, disk, unwritten, thread')
  <2>1. CASE missing = TRUE
    <3>1. AskedFor(cache.data, d, disk, unwritten, thread, thread', t, e, TRUE)
      BY <1>5, <2>1
    <3> QED BY <3>1, AskKeepsData
  <2>2. CASE missing = FALSE
    <3>1. AskedFor(cache.data, d, disk, unwritten, thread, thread', t, e, FALSE)
      BY <1>5, <2>2
    <3> QED BY <3>1, AskKeepsData
  <2> QED BY <2>1, <2>2
<1> QED BY <1>1, <1>6 DEF d

\* A call asks for a block of its data.
LEMMA AskBlockKeeps == ASSUME FatInv, NEW t \in Threads, AskBlock(t) PROVE FatInv'
<1>1. /\ AllWorkIsSound(thread) /\ WorkIsSound(thread[t]) /\ thread[t] \in Work
      /\ FatLine(fat_lock, thread) /\ BusLine(bus_lock, thread)
      /\ TwoCaches(cache) /\ FatCacheIsSound(cache.fat, thread) /\ DiskIsSound(disk) /\ unwritten \subseteq Clusters
      /\ DataCacheIsSound(cache.data, disk, unwritten, thread)
  BY InvParts
<1>2. /\ thread[t].pc = "block" /\ Roomy(t) /\ GetBlock(t, "data") /\ UNCHANGED <<disk, unwritten, fat_lock>>
      /\ "data" \in Kinds /\ "data" # "fat" /\ thread[t].kind = "data"
  <2>1. thread[t].kind = "data"
    BY <1>1 DEF AskBlock, WorkIsSound, Work, Kinds
  <2> QED BY <2>1, NotBlocked DEF AskBlock, Kinds
<1>3. PICK e \in Entries("data"), missing \in BOOLEAN :
        Looked(t, "data", e, missing) /\ (~missing => thread[t].cluster \in Clusters)
  <2>1. CacheShape(cache["data"], cache_size["data"]) /\ thread[t].cluster \in Numbers
    BY <1>1, <1>2 DEF DataCacheIsSound, WorkIsSound
  <2> QED BY <1>1, <1>2, <2>1, GetBlockLooks
<1>4. PICK q : WorkIsSound(q) /\ Sought(thread[t], q, "data", e, missing) /\ Waits(t, "data", q)
  <2>1. Seek(t, "data", e, missing)
    BY <1>3 DEF Looked
  <2>2. CASE missing = TRUE
    <3>1. \E q : WorkIsSound(q) /\ Sought(thread[t], q, "data", e, TRUE) /\ Waits(t, "data", q)
      BY <1>1, <1>2, <2>1, <2>2, SeekGives
    <3> QED BY <2>2, <3>1
  <2>3. CASE missing = FALSE
    <3>1. \E q : WorkIsSound(q) /\ Sought(thread[t], q, "data", e, FALSE) /\ Waits(t, "data", q)
      BY <1>1, <1>2, <1>3, <2>1, <2>3, SeekGives
    <3> QED BY <2>3, <3>1
  <2> QED BY <2>2, <2>3
<1> DEFINE d == Claim(cache.data, e, missing)
<1>5. /\ AllWorkIsSound(thread') /\ AlikeBut(thread, thread', t) /\ thread'[t] = q
      /\ DataCacheIsSound(d, disk, unwritten, thread')
  <2>1. CASE missing = TRUE
    <3>1. Looked(t, "data", e, TRUE) /\ Sought(thread[t], q, "data", e, TRUE)
      BY <1>3, <1>4, <2>1
    <3>2. /\ AllWorkIsSound(thread') /\ AlikeBut(thread, thread', t) /\ thread'[t] = q
          /\ DataCacheIsSound(Claim(cache.data, e, TRUE), disk, unwritten, thread')
      BY <1>2, <1>4, <3>1, DataKeptByAsk
    <3> QED BY <2>1, <3>2
  <2>2. CASE missing = FALSE
    <3>1. Looked(t, "data", e, FALSE) /\ Sought(thread[t], q, "data", e, FALSE)
      BY <1>3, <1>4, <2>2
    <3>2. /\ AllWorkIsSound(thread') /\ AlikeBut(thread, thread', t) /\ thread'[t] = q
          /\ DataCacheIsSound(Claim(cache.data, e, FALSE), disk, unwritten, thread')
      BY <1>2, <1>4, <3>1, DataKeptByAsk
    <3> QED BY <2>2, <3>2
  <2> QED BY <2>1, <2>2
<1>6. cache' = [cache EXCEPT !["data"] = d]
  BY <1>3 DEF Looked
<1> HIDE DEF d
<1>7. TwoCaches(cache') /\ cache'.data = d /\ cache'.fat = cache.fat
  BY <1>1, <1>6, OneCacheChanges
<1>8. q.kind = "data" /\ ((q.pc = "bus" /\ bus_lock' = Append(bus_lock, t)) \/ (q.pc = "filled" /\ bus_lock' = bus_lock))
  <2>1. q.kind = "data"
    BY <1>4 DEF Sought
  <2>2. (q.pc = "bus" /\ bus_lock' = Append(bus_lock, t)) \/ (q.pc = "filled" /\ bus_lock' = bus_lock)
    BY <1>4 DEF Waits
  <2> QED BY <2>1, <2>2
<1>9. FatCacheIsSound(cache.fat, thread')
  BY <1>1, <1>5, <1>8, FatCacheKept
<1>10. FatLine(fat_lock, thread') /\ BusLine(bus_lock', thread')
  <2>1. ~HasFatLock(thread'[t]) /\ ~HasFatLock(thread[t]) /\ thread'[t].kind # "fat"
    BY <1>2, <1>5, <1>8 DEF HasFatLock
  <2>2. FatLine(fat_lock, thread')
    BY <1>1, <1>5, <2>1, FatLineSame
  <2>3. BusLine(bus_lock', thread')
    BY <1>1, <1>2, <1>5, <1>8, BusLineSame, BusLineJoined
  <2> QED BY <2>2, <2>3
<1> QED BY <1>1, <1>2, <1>5, <1>7, <1>9, <1>10, TwoLines DEF FatInv, TwoCaches

\* A lookup in the cache of the FAT, by the thread that has its lock.
LEMMA FatBlockSought ==
  ASSUME FatInv, NEW t \in Threads, thread[t].pc = "walk", Runs(t), NEW e, NEW missing \in BOOLEAN,
         Looked(t, "fat", e, missing), NEW q, WorkIsSound(q), Sought(thread[t], q, "fat", e, missing), Waits(t, "fat", q)
  PROVE  /\ AllWorkIsSound(thread') /\ OnlyOne(thread, thread', t) /\ AlikeBut(thread, thread', t) /\ thread'[t] = q
         /\ FatCacheIsSound(Claim(cache.fat, e, missing), thread')
<1> DEFINE N == cache_size.fat  d == Claim(cache.fat, e, missing)
<1>1. /\ AllWorkIsSound(thread) /\ WorkIsSound(thread[t]) /\ FatLine(fat_lock, thread) /\ FatCacheIsSound(cache.fat, thread)
      /\ thread \in [Threads -> Work] /\ Head(fat_lock) = t
  BY InvParts, NotBlocked DEF AllWorkIsSound
<1>2. GoesOn(thread, thread', t, q)
  <2>1. Watch(t, "fat") = [u \in Threads |-> thread[u]]
    BY DEF Watch
  <2>2. Watch(t, "fat") = thread
    BY <1>1, <2>1
  <2> QED BY <2>2 DEF Waits, GoesOn
<1>3. q.inode = thread[t].inode /\ q.write = thread[t].write /\ q.entry = e /\ q.cluster = thread[t].cluster
  BY DEF Sought
<1>4. AllWorkIsSound(thread') /\ OnlyOne(thread, thread', t) /\ AlikeBut(thread, thread', t) /\ thread'[t] = q
  BY <1>1, <1>2, <1>3, OneStep
<1>5. \A u \in Threads : u # t => thread'[u].kind # "fat"
  <2>1. thread[t].kind # "fat"
    BY <1>1 DEF WorkIsSound
  <2>2. \A u \in Threads : thread[u].kind # "fat"
    BY <1>1, <2>1, NobodyInFat
  <2> QED BY <1>4, <2>2 DEF OnlyOne
<1>6. Finds(cache.fat, thread'[t].cluster, e, missing, N) /\ Claimed(cache.fat, d, e, missing, N)
  BY <1>3, <1>4 DEF Looked
<1> HIDE DEF d
<1>7. FatCacheIsSound(d, thread')
  <2>1. CASE missing = TRUE
    <3>1. /\ Finds(cache.fat, thread'[t].cluster, e, TRUE, N) /\ Claimed(cache.fat, d, e, TRUE, N)
          /\ Sought(thread[t], thread'[t], "fat", e, TRUE)
      BY <1>4, <1>6, <2>1
    <3>2. thread'[t].entry = e /\ (thread'[t].pc = "bus" \/ (thread'[t].pc = "filled" /\ thread'[t].err))
      BY <3>1 DEF Sought
    <3> QED BY <1>1, <1>5, <3>1, <3>2, FatBlockAsked
  <2>2. CASE missing = FALSE
    <3>1. /\ Finds(cache.fat, thread'[t].cluster, e, FALSE, N) /\ Claimed(cache.fat, d, e, FALSE, N)
          /\ Sought(thread[t], thread'[t], "fat", e, FALSE)
      BY <1>4, <1>6, <2>2
    <3>2. thread'[t].entry = e /\ thread'[t].pc = "filled"
      BY <3>1 DEF Sought
    <3> QED BY <1>1, <1>5, <3>1, <3>2, FatBlockAsked
  <2> QED BY <2>1, <2>2
<1> QED BY <1>4, <1>7 DEF d

\* The walk asks for a block of the FAT.
LEMMA FatLookupKeeps ==
  ASSUME FatInv, NEW t \in Threads, thread[t].pc = "walk", Runs(t), thread[t].left > 0, GetBlock(t, "fat"),
         UNCHANGED <<disk, unwritten, fat_lock>>
  PROVE  FatInv'
<1>1. /\ AllWorkIsSound(thread) /\ WorkIsSound(thread[t]) /\ thread[t] \in Work
      /\ FatLine(fat_lock, thread) /\ BusLine(bus_lock, thread)
      /\ TwoCaches(cache) /\ FatCacheIsSound(cache.fat, thread) /\ DiskIsSound(disk) /\ unwritten \subseteq Clusters
      /\ DataCacheIsSound(cache.data, disk, unwritten, thread)
  BY InvParts
<1>2. "fat" \in Kinds /\ Head(fat_lock) = t
  BY NotBlocked DEF Kinds
<1>3. PICK e \in Entries("fat"), missing \in BOOLEAN :
        Looked(t, "fat", e, missing) /\ (~missing => thread[t].cluster \in Clusters)
  <2>1. CacheShape(cache["fat"], cache_size["fat"]) /\ thread[t].cluster \in Numbers
    BY <1>1, <1>2 DEF FatCacheIsSound, WorkIsSound
  <2> QED BY <1>1, <1>2, <2>1, GetBlockLooks
<1>4. PICK q : WorkIsSound(q) /\ Sought(thread[t], q, "fat", e, missing) /\ Waits(t, "fat", q)
  <2>1. Seek(t, "fat", e, missing)
    BY <1>3 DEF Looked
  <2>2. CASE missing = TRUE
    <3>1. \E q : WorkIsSound(q) /\ Sought(thread[t], q, "fat", e, TRUE) /\ Waits(t, "fat", q)
      BY <1>1, <1>2, <2>1, <2>2, SeekGives
    <3> QED BY <2>2, <3>1
  <2>3. CASE missing = FALSE
    <3>1. \E q : WorkIsSound(q) /\ Sought(thread[t], q, "fat", e, FALSE) /\ Waits(t, "fat", q)
      BY <1>1, <1>2, <1>3, <2>1, <2>3, SeekGives
    <3> QED BY <2>3, <3>1
  <2> QED BY <2>2, <2>3
<1> DEFINE d == Claim(cache.fat, e, missing)
<1>5. /\ AllWorkIsSound(thread') /\ OnlyOne(thread, thread', t) /\ AlikeBut(thread, thread', t) /\ thread'[t] = q
      /\ FatCacheIsSound(d, thread')
  <2>1. CASE missing = TRUE
    <3>1. Looked(t, "fat", e, TRUE) /\ Sought(thread[t], q, "fat", e, TRUE)
      BY <1>3, <1>4, <2>1
    <3>2. /\ AllWorkIsSound(thread') /\ OnlyOne(thread, thread', t) /\ AlikeBut(thread, thread', t) /\ thread'[t] = q
          /\ FatCacheIsSound(Claim(cache.fat, e, TRUE), thread')
      BY <1>4, <3>1, FatBlockSought
    <3> QED BY <2>1, <3>2
  <2>2. CASE missing = FALSE
    <3>1. Looked(t, "fat", e, FALSE) /\ Sought(thread[t], q, "fat", e, FALSE)
      BY <1>3, <1>4, <2>2
    <3>2. /\ AllWorkIsSound(thread') /\ OnlyOne(thread, thread', t) /\ AlikeBut(thread, thread', t) /\ thread'[t] = q
          /\ FatCacheIsSound(Claim(cache.fat, e, FALSE), thread')
      BY <1>4, <3>1, FatBlockSought
    <3> QED BY <2>2, <3>2
  <2> QED BY <2>1, <2>2
<1>6. cache' = [cache EXCEPT !["fat"] = d]
  BY <1>3 DEF Looked
<1> HIDE DEF d
<1>7. TwoCaches(cache') /\ cache'.fat = d /\ cache'.data = cache.data
  BY <1>1, <1>6, OneCacheChanges
<1>8. q.kind = "fat" /\ ((q.pc = "bus" /\ bus_lock' = Append(bus_lock, t)) \/ (q.pc = "filled" /\ bus_lock' = bus_lock))
  <2>1. q.kind = "fat"
    BY <1>4 DEF Sought
  <2>2. (q.pc = "bus" /\ bus_lock' = Append(bus_lock, t)) \/ (q.pc = "filled" /\ bus_lock' = bus_lock)
    BY <1>4 DEF Waits
  <2> QED BY <2>1, <2>2
<1>9. DataCacheIsSound(cache.data, disk, unwritten, thread')
  <2>1. ~UsesData(thread'[t]) /\ \A u \in Threads : u # t => thread'[u] = thread[u]
    BY <1>5, <1>8 DEF UsesData, OnlyOne
  <2> QED BY <1>1, <2>1, LeavingKeepsData
<1>10. FatLine(fat_lock, thread') /\ BusLine(bus_lock', thread')
  <2>1. HasFatLock(thread'[t]) /\ HasFatLock(thread[t])
    BY <1>5, <1>8 DEF HasFatLock
  <2>2. FatLine(fat_lock, thread')
    BY <1>1, <1>2, <1>5, <2>1, FatLineSame
  <2>3. BusLine(bus_lock', thread')
    BY <1>1, <1>5, <1>8, BusLineSame, BusLineJoined
  <2> QED BY <2>2, <2>3
<1> QED BY <1>1, <1>5, <1>7, <1>9, <1>10, TwoLines DEF FatInv, TwoCaches

\* The walk has ended, in the cluster that is wanted or at the end of the chain.
LEMMA WalkEndsKeeps ==
  ASSUME FatInv, NEW t \in Threads, thread[t].pc = "walk", Runs(t), fat_lock' = Tail(fat_lock),
         IF thread[t].cluster = EOC THEN Return(t) ELSE thread' = [thread EXCEPT ![t].pc = "block"],
         UNCHANGED <<disk, unwritten, cache, bus_lock>>
  PROVE  FatInv'
<1> DEFINE r == thread[t]  q == [r EXCEPT !.pc = "block"]
<1>1. /\ AllWorkIsSound(thread) /\ WorkIsSound(r) /\ r \in Work
      /\ FatLine(fat_lock, thread) /\ BusLine(bus_lock, thread)
      /\ TwoCaches(cache) /\ DiskIsSound(disk) /\ unwritten \subseteq Clusters
  BY InvParts
<1>2. Head(fat_lock) = t /\ HasFatLock(r) /\ r.kind = "data"
  BY <1>1, NotBlocked DEF HasFatLock, WorkIsSound, Work, Kinds
<1>3. /\ AllWorkIsSound(thread') /\ OnlyOne(thread, thread', t) /\ AlikeBut(thread, thread', t)
      /\ ~UsesData(thread'[t]) /\ ~HasFatLock(thread'[t]) /\ thread'[t].kind = "data" /\ thread'[t].pc # "bus"
  <2>1. CASE r.cluster = EOC
    BY <1>1, <2>1, ReturnIsSound
  <2>2. CASE r.cluster # EOC
    <3>1. GoesOn(thread, thread', t, q)
      BY <2>2 DEF GoesOn
    <3>2. /\ q \in Work /\ q.pc = "block" /\ q.write = r.write /\ q.cluster = r.cluster /\ q.kind = r.kind
          /\ q.storing = r.storing /\ q.inode = r.inode
      BY <1>1 DEF Work, Pcs
    <3> HIDE DEF q
    <3>3. WorkIsSound(q)
      BY <1>1, <1>2, <2>2, <3>2 DEF WorkIsSound, HasEntry
    <3>4. AllWorkIsSound(thread') /\ OnlyOne(thread, thread', t) /\ AlikeBut(thread, thread', t) /\ thread'[t] = q
      BY <1>1, <3>1, <3>2, <3>3, OneStep
    <3> QED BY <1>2, <3>2, <3>4 DEF UsesData, HasEntry, HasFatLock
  <2> QED BY <2>1, <2>2
<1>4. FatCacheIsSound(cache.fat, thread') /\ DataCacheIsSound(cache.data, disk, unwritten, thread')
  BY <1>3, CachesKept
<1>5. FatLine(Tail(fat_lock), thread') /\ BusLine(bus_lock, thread')
  BY <1>1, <1>2, <1>3, FatLineLeft, BusLineSame
<1> QED BY <1>1, <1>3, <1>4, <1>5, TwoLines DEF FatInv, TwoCaches

\* The walk asks for the next block of the FAT, or is done.
LEMMA NextClusterKeeps == ASSUME FatInv, NEW t \in Threads, NextCluster(t) PROVE FatInv'
<1>1. thread[t].pc = "walk" /\ Runs(t) /\ UNCHANGED <<disk, unwritten>>
  BY DEF NextCluster
<1>2. CASE thread[t].left > 0 /\ thread[t].cluster # EOC
  BY <1>1, <1>2, FatLookupKeeps DEF NextCluster
<1>3. CASE ~(thread[t].left > 0 /\ thread[t].cluster # EOC)
  <2>1. /\ fat_lock' = Tail(fat_lock) /\ UNCHANGED <<disk, unwritten, cache, bus_lock>>
        /\ IF thread[t].cluster = EOC THEN Return(t) ELSE thread' = [thread EXCEPT ![t].pc = "block"]
    BY <1>1, <1>3 DEF NextCluster
  <2> QED BY <1>1, <2>1, WalkEndsKeeps
<1> QED BY <1>2, <1>3

-----------------------------------------------------------------------------
(* The theorem *)

\* A step of nobody.
LEMMA NothingKeeps == ASSUME FatInv, UNCHANGED fatVars PROVE FatInv'
BY DEF FatInv, fatVars

\* Every step keeps the invariant.
LEMMA FatStepKeeps == ASSUME FatInv, [FatNext]_fatVars PROVE FatInv'
<1>1. CASE UNCHANGED fatVars
  BY <1>1, NothingKeeps
<1>2. ASSUME NEW t \in Threads, NEW start \in Starts, NEW n \in 0 .. max_clusters, NEW write \in BOOLEAN,
             Call(t, start, n, write)
      PROVE  FatInv'
  <2>1. CASE write = TRUE
    BY <1>2, <2>1, CallKeeps
  <2>2. CASE write = FALSE
    BY <1>2, <2>2, CallKeeps
  <2> QED BY <2>1, <2>2
<1>3. ASSUME NEW t \in Threads, Step(t) PROVE FatInv'
  BY <1>3, TransferKeeps, FailKeeps, LateKeeps, NextClusterKeeps, FollowKeeps, AskBlockKeeps, TakeBlockKeeps,
     PutBlockKeeps, WrittenKeeps DEF Step
<1> QED BY <1>1, <1>2, <1>3 DEF FatNext

\* A cache in which nothing has been looked up.
LEMMA EmptyCacheIsSound ==
  ASSUME NEW k \in Kinds
  PROVE  /\ CacheShape(EmptyCache(k), cache_size[k]) /\ Labelled(EmptyCache(k))
         /\ \A e \in DOMAIN EmptyCache(k).lba : EmptyCache(k).lba[e] = INVALID
<1> DEFINE N == cache_size[k]  c == EmptyCache(k)
<1>1. N \in Nat \ {0} /\ Entries(k) = 1 .. N /\ Garbage \in Contents
  BY Fat32Assumption DEF Kinds, Entries, Garbage, Contents
<1>2. c = [lba |-> [e \in 1 .. N |-> INVALID], content |-> [e \in 1 .. N |-> Garbage], order |-> [e \in 1 .. N |-> e]]
  BY <1>1 DEF EmptyCache
<1> HIDE DEF c
<1>3. /\ c.lba = [e \in 1 .. N |-> INVALID] /\ c.content = [e \in 1 .. N |-> Garbage] /\ c.order = [e \in 1 .. N |-> e]
      /\ c = [lba |-> c.lba, content |-> c.content, order |-> c.order]
  BY <1>2
<1>4. Ordered(c.order, N)
  <2> DEFINE o == c.order
  <2>1. o \in [1 .. N -> 1 .. N] /\ \A i \in 1 .. N : o[i] = i
    BY <1>3
  <2> HIDE DEF o
  <2>2. o \in Seq(1 .. N) /\ Len(o) = N
    BY <1>1, <2>1, TableIsSeq
  <2>3. Once(o)
    BY <2>1, <2>2 DEF Once
  <2>4. Range(o) = 1 .. N
    BY <2>1 DEF Range
  <2> QED BY <2>2, <2>3, <2>4 DEF Ordered, o
<1>5. c.lba \in [1 .. N -> Clusters \cup {INVALID}] /\ c.content \in [1 .. N -> Contents]
  BY <1>1, <1>3
<1>6. c.order \in Seq(1 .. N)
  BY <1>4 DEF Ordered
<1>7. CacheShape(c, N)
  BY <1>3, <1>4, <1>5, <1>6 DEF CacheShape
<1>8. \A e \in DOMAIN c.lba : c.lba[e] = INVALID
  BY <1>3
<1> QED BY <1>7, <1>8 DEF Labelled, c

\* The invariant holds of the volume that has just been mounted.
LEMMA FatInitIsSound == ASSUME FatInit PROVE FatInv
<1>1. /\ disk = [b \in Clusters |-> <<b, 0>>] /\ unwritten = {} /\ cache = [k \in Kinds |-> EmptyCache(k)]
      /\ fat_lock = <<>> /\ bus_lock = <<>> /\ thread = [t \in Threads |-> Idle]
  BY DEF FatInit
<1>2. WorkIsSound(Idle) /\ ~UsesData(Idle) /\ ~HasFatLock(Idle) /\ Idle.kind = "data" /\ Idle.pc = "idle" /\ Idle \in Work
  BY IdleIsSound DEF WorkIsSound
<1>3. \A t \in Threads : thread[t] = Idle
  BY <1>1
<1>4. AllWorkIsSound(thread)
  <2>1. thread \in [Threads -> Work]
    BY <1>1, <1>2
  <2> QED BY <1>2, <1>3, <2>1 DEF AllWorkIsSound, Alone
<1>5. LinesAreSound(fat_lock, bus_lock, thread)
  <2>1. <<>> \in Seq(Threads) /\ Once(<<>>) /\ Range(<<>>) = {}
    BY RangeOfEmpty DEF Once
  <2> QED BY <1>1, <1>2, <1>3, <2>1 DEF LinesAreSound
<1>6. DOMAIN cache = Kinds /\ cache = [k \in Kinds |-> cache[k]] /\ cache.fat = EmptyCache("fat") /\ cache.data = EmptyCache("data")
  BY <1>1 DEF Kinds
<1>7. /\ CacheShape(cache.fat, cache_size.fat) /\ Labelled(cache.fat)
      /\ CacheShape(cache.data, cache_size.data) /\ Labelled(cache.data)
      /\ \A e \in DOMAIN cache.data.lba : cache.data.lba[e] = INVALID
  <2>1. "fat" \in Kinds /\ "data" \in Kinds
    BY DEF Kinds
  <2> QED BY <1>6, <2>1, EmptyCacheIsSound
<1>8. FatCacheIsSound(cache.fat, thread)
  BY <1>2, <1>3, <1>7 DEF FatCacheIsSound
<1>9. DiskIsSound(disk)
  BY <1>1, Fat32Assumption DEF DiskIsSound, Blocks
<1>10. DataCacheIsSound(cache.data, disk, unwritten, thread)
  <2>1. CopiesGoFirst(cache.data) /\ FoundIsTrue(cache.data, disk, unwritten, thread)
    BY <1>7 DEF CopiesGoFirst, FoundIsTrue, First
  <2> QED BY <1>2, <1>3, <1>7, <2>1 DEF DataCacheIsSound
<1> QED BY <1>1, <1>4, <1>5, <1>6, <1>8, <1>9, <1>10 DEF FatInv

\* The invariant implies the types.
LEMMA FatTypes == ASSUME FatInv PROVE FatTypeOK
<1>1. disk \in [Clusters -> Blocks] /\ unwritten \subseteq Clusters
  BY DEF FatInv, DiskIsSound
<1>2. ASSUME NEW k \in Kinds
      PROVE  /\ cache[k].lba \in [Entries(k) -> Clusters \cup {INVALID}]
             /\ cache[k].order \in [Entries(k) -> Entries(k)] /\ IsInjective(cache[k].order)
  <2> DEFINE N == cache_size[k]  o == cache[k].order
  <2>1. CacheShape(cache[k], N) /\ Entries(k) = 1 .. N /\ N \in Nat
    BY Fat32Assumption DEF FatInv, FatCacheIsSound, DataCacheIsSound, Kinds, Entries
  <2>2. cache[k].lba \in [1 .. N -> Clusters \cup {INVALID}] /\ Ordered(o, N)
    BY <2>1 DEF CacheShape
  <2> HIDE DEF o
  <2>3. o \in [1 .. N -> 1 .. N]
    <3>1. o \in Seq(1 .. N) /\ Len(o) = N
      BY <2>2 DEF Ordered
    <3>2. o \in [1 .. Len(o) -> 1 .. N]
      BY <3>1, LenProperties, ElementOfSeq
    <3> QED BY <3>1, <3>2
  <2>4. IsInjective(o)
    BY <2>2, <2>3 DEF Ordered, Once, IsInjective
  <2> QED BY <2>1, <2>2, <2>3, <2>4 DEF o
<1>3. Range(fat_lock) \cup Range(bus_lock) \subseteq Threads
  <2>1. fat_lock \in Seq(Threads) /\ bus_lock \in Seq(Threads)
    BY DEF FatInv, LinesAreSound
  <2> QED BY <2>1, RangeOfQueue
<1>4. \A t \in Threads : thread[t].retries \in 0 .. max_retries
  BY InvParts DEF Work
<1> QED BY <1>1, <1>2, <1>3, <1>4 DEF FatTypeOK

\* The invariant implies what is promised of the caches.
LEMMA FatSound == ASSUME FatInv PROVE CacheIsSound
<1> DEFINE c == cache.data  N == cache_size.data
<1>1. FatTypeOK
  BY FatTypes
<1>2. FatBlocksTrue
  <2>1. Labelled(cache.fat) /\ CacheShape(cache.fat, cache_size.fat)
    BY DEF FatInv, FatCacheIsSound
  <2>2. DOMAIN cache.fat.lba = Entries("fat")
    BY <2>1, MarksAreApart DEF CacheShape
  <2> QED BY <2>1, <2>2 DEF FatBlocksTrue, Labelled
<1>3. RightBlock
  <2>1. ASSUME NEW t \in Using
        PROVE  /\ thread[t].pc = "filled" /\ ~thread[t].err => c.content[thread[t].entry][1] = thread[t].cluster
               /\ thread[t].storing => c.content[thread[t].entry][1] = thread[t].cluster
    <3> DEFINE e == thread[t].entry  b == thread[t].cluster
    <3>1. t \in Threads /\ UsesData(thread[t])
      BY DEF Using, UsesData, HasEntry
    <3>2. AllWorkIsSound(thread) /\ WorkIsSound(thread[t]) /\ DiskIsSound(disk) /\ DataCacheIsSound(c, disk, unwritten, thread)
      BY <3>1, InvParts
    <3>3. ASSUME thread[t].pc = "filled", ~thread[t].err PROVE c.content[e][1] = b
      <4>1. Holds(c, disk, unwritten, thread, t, e, b)
        BY <3>1, <3>2, <3>3 DEF Holds, WorkIsSound
      <4> QED BY <3>3, <4>1, FoundBlock
    <3>4. ASSUME thread[t].storing PROVE c.content[e][1] = b
      <4>1. e \in 1 .. N /\ thread[t].cluster \in Numbers /\ DOMAIN c.lba = 1 .. N /\ INVALID \notin Numbers
        <5>1. e \in 1 .. N /\ thread[t].cluster \in Numbers
          BY <3>1, <3>2, MarksAreApart DEF WorkIsSound, UsesData, HasEntry
        <5>2. DOMAIN c.lba = 1 .. N /\ INVALID \notin Numbers
          BY <3>2, MarksAreApart DEF DataCacheIsSound, CacheShape
        <5> QED BY <5>1, <5>2
      <4>2. c.lba[e] = b /\ Labelled(c)
        BY <3>1, <3>2, <3>4 DEF DataCacheIsSound, EntryIsSound
      <4> QED BY <4>1, <4>2 DEF Labelled
    <3> QED BY <3>3, <3>4
  <2>2. \A b \in Clusters : disk[b][1] = b
    BY DEF FatInv, DiskIsSound
  <2> QED BY <2>1, <2>2 DEF RightBlock
<1>4. CacheIsCoherent
  <2> SUFFICES ASSUME NEW b \in Range(c.lba) \ {INVALID}, b \notin unwritten,
                      \A t \in Using : thread[t].storing => thread[t].cluster # b
               PROVE  c.content[Chosen(c, b)] = disk[b]
    BY DEF CacheIsCoherent
  <2>1. DataCacheIsSound(c, disk, unwritten, thread) /\ CacheShape(c, N) /\ N \in Nat \ {0}
    BY MarksAreApart DEF FatInv, DataCacheIsSound
  <2>2. PICK f \in 1 .. N : c.lba[f] = b
    BY <2>1 DEF CacheShape, Range
  <2>3. b \in Numbers /\ DOMAIN c.lba = 1 .. N
    BY <2>1, <2>2 DEF CacheShape, Numbers
  <2>4. Chosen(c, b) \in 1 .. N /\ c.lba[Chosen(c, b)] = b /\ First(c, Chosen(c, b))
    BY <2>1, <2>2, <2>3, ChosenIsFirst
  <2>5. \A u \in Threads : ~Stores(thread[u], b)
    <3>1. ASSUME NEW u \in Threads, Stores(thread[u], b) PROVE FALSE
      <4>1. thread[u].pc = "bus" /\ thread[u].storing /\ thread[u].cluster = b
        BY <3>1 DEF Stores
      <4>2. thread[u].kind = "data"
        BY <4>1, InvParts DEF WorkIsSound, Work, Kinds
      <4> QED BY <4>1, <4>2 DEF Using
    <3> QED BY <3>1
  <2> QED BY <2>1, <2>3, <2>4, <2>5 DEF DataCacheIsSound, FoundIsTrue
<1>5. LocksAreReturned
  <2>1. /\ fat_lock \in Seq(Threads) /\ \A u \in Threads : u \in Range(fat_lock) <=> HasFatLock(thread[u])
        /\ bus_lock \in Seq(Threads) /\ \A u \in Threads : u \in Range(bus_lock) <=> thread[u].pc = "bus"
    BY DEF FatInv, LinesAreSound
  <2>2. Range(fat_lock) \subseteq Threads /\ Range(bus_lock) \subseteq Threads
    BY <2>1, RangeOfQueue
  <2> QED BY <2>1, <2>2 DEF LocksAreReturned, HasFatLock
<1> QED BY <1>1, <1>2, <1>3, <1>4, <1>5 DEF CacheIsSound

\* The caches of a FAT volume stay sound, on every sound volume, for all sizes of the caches and any
\* number of threads, with drives that are late and that fail, as long as no more threads than
\* entries choose before one is done and nobody else uses a file that is written: a thread that
\* has waited for its block has that block, whatever came into the cache meanwhile, writes go to
\* their own place, of two copies of a block the one is found that the disk has, and both locks
\* are given back (fat32.cc: get_cache_entry, get_fat_block, get_data_block, read, write; ata.cc: make_job).
THEOREM CacheStaysSound == FatSpec => []CacheIsSound
<1>1. FatInit => FatInv
  BY FatInitIsSound
<1>2. FatInv /\ [FatNext]_fatVars => FatInv'
  BY FatStepKeeps
<1>3. FatInv => CacheIsSound
  BY FatSound
<1> QED BY <1>1, <1>2, <1>3, PTL DEF FatSpec
=============================================================================
