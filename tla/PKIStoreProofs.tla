--------------------------- MODULE PKIStoreProofs ---------------------------
(***************************************************************************)
(* Proofs about the embedded CA's directory for any number of processes, key  *)
(* generations and lost files.                                              *)
(*                                                                         *)
(* What makes an interrupted start harmless is the order of the files: the     *)
(* intermediate's key is written last, so a directory that has it is complete *)
(* and of one generation (Complete), and no process opens a complete one for   *)
(* writing.  The same order makes the server pair safe: its key comes last.    *)
(* The invariant says, per state of a process, how far it is (Progress), and   *)
(* that everything handed out or signed stems from the complete directory.     *)
(***************************************************************************)
EXTENDS PKIStore, TLAPS

W2 == <<"rootKey", "intCert", "intKey">>
W3 == <<"intCert", "intKey">>
W4 == <<"intKey">>
S1 == <<"srvCert", "srvKey">>
S2 == <<"srvKey">>
CaLeft == {CaOrder, W2, W3, W4}

\* The files a process still has to go through belong to what it is doing.
TodoShape ==
  \A p \in Proc : /\ at[p] \in {"off", "up"} => todo[p] = << >>
                  /\ at[p] \in {"read", "write"} => todo[p] \in CaLeft
                  /\ at[p] = "bundle" => todo[p] = <<"bundle">>
                  /\ at[p] = "srv" => todo[p] \in {S1, S2}

\* An Authority that has been made or verified has an intermediate under its own root.
MemChain == \A p \in Proc : at[p] \in {"write", "bundle", "up", "srv"} => mem[p]["rootCert"] = mem[p]["intCert"]

\* The intermediate's key is the last CA file: where it is, the others are, of its generation.
HasCA == disk["intKey"] # 0
Complete == HasCA => \A f \in CaFile : disk[f] = disk["intKey"]

\* How far a process has read the CA files, or written them.
ReadSoFar(p) ==
  /\ todo[p] \in {W2, W3, W4} => mem[p]["rootCert"] = disk["rootCert"]
  /\ todo[p] \in {W3, W4} => mem[p]["rootKey"] = disk["rootKey"]
  /\ todo[p] = W4 => mem[p]["intCert"] = disk["intCert"]

Progress(p) ==
  /\ at[p] = "read" => HasCA /\ ReadSoFar(p)
  /\ at[p] = "write" => /\ ~HasCA /\ ReadSoFar(p) /\ mem[p]["intKey"] # 0
                        /\ \A f \in CaFile : mem[p][f] = mem[p]["intKey"]
  /\ at[p] \in {"bundle", "up", "srv"} => HasCA /\ \A f \in CaFile : mem[p][f] = disk[f]
  /\ at[p] \in {"up", "srv"} => disk["bundle"] = disk["rootCert"]
  /\ at[p] = "srv" => /\ disk["srvKey"] = 0 /\ pair[p] \in 1 .. gen /\ signer[pair[p]] = disk["intCert"]
                      /\ todo[p] = S2 => disk["srvCert"] = pair[p]

\* While processes follow one another:
Directory ==
  /\ \A p, q \in Proc : at[p] # "off" /\ at[q] # "off" => p = q
  /\ Complete
  /\ \A p \in Proc : Progress(p)
  /\ \A c \in issued : HasCA /\ c.root = disk["rootCert"]
  /\ disk["srvKey"] # 0 => /\ HasCA /\ disk["srvCert"] = disk["srvKey"] /\ disk["srvKey"] \in 1 .. gen
                           /\ signer[disk["srvKey"]] = disk["intCert"]

PKIInv == TypeOK /\ TodoShape /\ MemChain /\ ChainsUp /\ (solo => Directory)

-----------------------------------------------------------------------------

\* The lists of files and how they are walked through.
LEMMA Walk ==
  /\ Head(CaOrder) = "rootCert" /\ Tail(CaOrder) = W2 /\ Len(CaOrder) = 4
  /\ Head(W2) = "rootKey" /\ Tail(W2) = W3 /\ Len(W2) = 3
  /\ Head(W3) = "intCert" /\ Tail(W3) = W4 /\ Len(W3) = 2
  /\ Head(W4) = "intKey" /\ Len(W4) = 1
  /\ Head(<<"bundle">>) = "bundle" /\ Len(<<"bundle">>) = 1
  /\ Head(S1) = "srvCert" /\ Tail(S1) = S2 /\ Len(S1) = 2
  /\ Head(S2) = "srvKey" /\ Len(S2) = 1
  BY DEF CaOrder, W2, W3, W4, S1, S2

More(w) == Len(w) > 1 /\ Len(w) # 1
Last(w) == Len(w) = 1 /\ ~(Len(w) > 1)

\* One step on: the CA lists lead to one another, and end with the intermediate's key.
LEMMA WalkOn ==
  /\ \A w \in CaLeft : \/ w = CaOrder /\ Head(w) = "rootCert" /\ Tail(w) = W2 /\ More(w)
                       \/ w = W2 /\ Head(w) = "rootKey" /\ Tail(w) = W3 /\ More(w)
                       \/ w = W3 /\ Head(w) = "intCert" /\ Tail(w) = W4 /\ More(w)
                       \/ w = W4 /\ Head(w) = "intKey" /\ Last(w)
  /\ \A w \in {S1, S2} : \/ w = S1 /\ Head(w) = "srvCert" /\ Tail(w) = S2 /\ More(w)
                         \/ w = S2 /\ Head(w) = "srvKey" /\ Last(w)
  /\ CaOrder # W2 /\ CaOrder # W3 /\ CaOrder # W4 /\ W2 # W3 /\ W2 # W4 /\ W3 # W4 /\ S1 # S2
  <1>1. CaOrder # W2 /\ CaOrder # W3 /\ CaOrder # W4 /\ W2 # W3 /\ W2 # W4 /\ W3 # W4 /\ S1 # S2
    BY Walk
  <1>2. More(CaOrder) /\ More(W2) /\ More(W3) /\ Last(W4) /\ More(S1) /\ Last(S2)
    BY Walk DEF More, Last
  <1>3. ASSUME NEW w \in CaLeft
        PROVE  \/ w = CaOrder /\ Head(w) = "rootCert" /\ Tail(w) = W2 /\ More(w)
               \/ w = W2 /\ Head(w) = "rootKey" /\ Tail(w) = W3 /\ More(w)
               \/ w = W3 /\ Head(w) = "intCert" /\ Tail(w) = W4 /\ More(w)
               \/ w = W4 /\ Head(w) = "intKey" /\ Last(w)
    BY <1>2, Walk, Zenon DEF CaLeft
  <1>4. ASSUME NEW w \in {S1, S2}
        PROVE  \/ w = S1 /\ Head(w) = "srvCert" /\ Tail(w) = S2 /\ More(w)
               \/ w = S2 /\ Head(w) = "srvKey" /\ Last(w)
    BY <1>2, Walk, Zenon
  <1> QED BY <1>1, <1>3, <1>4, Zenon

\* They are lists of files of the directory.
LEMMA ListsOfFiles ==
  /\ CaLeft \subseteq Seq(File) /\ {S1, S2, << >>, <<"bundle">>} \subseteq Seq(File)
  /\ CaFile \subseteq File /\ {"bundle", "srvCert", "srvKey"} \subseteq File
  BY DEF CaLeft, CaOrder, W2, W3, W4, S1, S2, File, CaFile

\* The fresh directory.
LEMMA PKIInit == Init => PKIInv
  <1> SUFFICES ASSUME Init PROVE PKIInv
    OBVIOUS
  <1>1. TypeOK
    BY PKIAssumption DEF Init, TypeOK, Gen
  <1>2. TodoShape /\ MemChain /\ ChainsUp
    BY DEF Init, TodoShape, MemChain, ChainsUp
  <1>3. at = [p \in Proc |-> "off"] /\ disk = [f \in File |-> 0] /\ issued = {}
    BY DEF Init
  <1>4. Directory
    BY <1>3, ListsOfFiles DEF Directory, Complete, HasCA, Progress, CaFile
  <1> QED BY <1>1, <1>2, <1>4 DEF PKIInv

\* Every step keeps the types, and goes through the lists of files in their order.
LEMMA ShapeStep == PKIInv /\ [Next]_vars => TypeOK' /\ TodoShape'
  <1> SUFFICES ASSUME PKIInv, [Next]_vars PROVE TypeOK' /\ TodoShape'
    OBVIOUS
  <1>1. TypeOK /\ TodoShape
    BY DEF PKIInv
  <1>2. ASSUME NEW p \in Proc, NEW s \in {"off", "read", "write", "bundle", "up", "srv"}, NEW files \in Seq(File),
               goto(p, s, files),
               s \in {"off", "up"} => files = << >>,
               s \in {"read", "write"} => files \in CaLeft,
               s = "bundle" => files = <<"bundle">>,
               s = "srv" => files \in {S1, S2}
        PROVE  /\ at' \in [Proc -> {"off", "read", "write", "bundle", "up", "srv"}]
               /\ todo' \in [Proc -> Seq(File)] /\ TodoShape'
    BY <1>1, <1>2 DEF goto, TypeOK, TodoShape
  <1>3. gen \in Nat /\ (gen < MaxGen => gen + 1 \in Gen) /\ 0 \in Gen
    BY <1>1, PKIAssumption DEF TypeOK, Gen
  <1>4. ASSUME NEW p \in Proc, Open(p) PROVE TypeOK' /\ TodoShape'
    <2>1. CASE AllPresent
      <3>1. goto(p, "read", CaOrder) /\ UNCHANGED <<gen, mem>>
        BY <1>4, <2>1 DEF Open
      <3>2. /\ at' \in [Proc -> {"off", "read", "write", "bundle", "up", "srv"}]
            /\ todo' \in [Proc -> Seq(File)] /\ TodoShape'
        BY <1>2, <3>1, ListsOfFiles DEF CaLeft
      <3> QED BY <1>1, <1>4, <3>1, <3>2 DEF Open, TypeOK
    <2>2. CASE ~AllPresent
      <3>1. /\ goto(p, "write", CaOrder) /\ gen < MaxGen /\ gen' = gen + 1
            /\ mem' = [mem EXCEPT ![p] = [f \in CaFile |-> gen']]
        BY <1>4, <2>2 DEF Open
      <3>2. /\ at' \in [Proc -> {"off", "read", "write", "bundle", "up", "srv"}]
            /\ todo' \in [Proc -> Seq(File)] /\ TodoShape'
        BY <1>2, <3>1, ListsOfFiles DEF CaLeft
      <3>3. gen' \in Gen /\ mem' \in [Proc -> [CaFile -> Gen]]
        BY <1>1, <1>3, <3>1 DEF TypeOK
      <3> QED BY <1>1, <1>4, <3>2, <3>3 DEF Open, TypeOK
    <2> QED BY <2>1, <2>2
  <1>5. ASSUME NEW p \in Proc, ReadFile(p) PROVE TypeOK' /\ TodoShape'
    <2>1. todo[p] \in CaLeft /\ Head(todo[p]) \in CaFile
      BY <1>1, <1>5, Walk DEF ReadFile, TodoShape, CaLeft, CaFile
    <2>2. disk[Head(todo[p])] \in Gen
      BY <1>1, <2>1, ListsOfFiles DEF TypeOK
    <2>3. mem' = [mem EXCEPT ![p][Head(todo[p])] = disk[Head(todo[p])]]
      BY <1>5 DEF ReadFile
    <2>4. mem' \in [Proc -> [CaFile -> Gen]]
      BY <1>1, <2>1, <2>2, <2>3 DEF TypeOK
    <2>5. Len(todo[p]) > 1 => Tail(todo[p]) \in CaLeft
      BY <2>1, WalkOn, Zenon DEF CaLeft, More, Last
    <2>6. \/ goto(p, "off", << >>)
          \/ goto(p, "read", Tail(todo[p])) /\ Len(todo[p]) > 1
          \/ goto(p, "bundle", <<"bundle">>)
      BY <1>5 DEF ReadFile
    <2>7. /\ at' \in [Proc -> {"off", "read", "write", "bundle", "up", "srv"}]
          /\ todo' \in [Proc -> Seq(File)] /\ TodoShape'
      BY <1>2, <2>5, <2>6, ListsOfFiles
    <2> QED BY <1>1, <1>5, <2>4, <2>7 DEF ReadFile, TypeOK
  <1>6. ASSUME NEW p \in Proc, RemoveOld(p) PROVE TypeOK' /\ TodoShape'
    <2>1. /\ disk' = [disk EXCEPT ![Head(todo[p])] = 0] /\ cut' = [cut EXCEPT ![p] = TRUE]
          /\ UNCHANGED <<gen, signer, at, todo, mem, pair, issued, losses, solo>>
      BY <1>6 DEF RemoveOld
    <2> QED BY <1>1, <1>3, <2>1 DEF TypeOK, TodoShape
  <1>7. ASSUME NEW p \in Proc, RenameNew(p) PROVE TypeOK' /\ TodoShape'
    <2>1. /\ at[p] = "write" => todo[p] \in CaLeft
          /\ at[p] = "bundle" => todo[p] = <<"bundle">>
          /\ at[p] = "srv" => todo[p] \in {S1, S2}
          /\ at[p] \in {"write", "bundle", "srv"}
      BY <1>1, <1>7 DEF TodoShape, RenameNew, Writing
    <2>2. Content(p, Head(todo[p])) \in Gen
      BY <1>1 DEF Content, TypeOK, CaFile
    <2>3. /\ disk' = [disk EXCEPT ![Head(todo[p])] = Content(p, Head(todo[p]))]
          /\ cut' = [cut EXCEPT ![p] = FALSE] /\ UNCHANGED <<gen, signer, mem, pair, issued, losses, solo>>
      BY <1>7 DEF RenameNew
    <2>4. \/ goto(p, at[p], Tail(todo[p])) /\ Len(todo[p]) > 1
          \/ goto(p, "bundle", <<"bundle">>)
          \/ goto(p, "up", << >>)
      BY <1>7 DEF RenameNew
    <2>a. ~(1 > 1)
      OBVIOUS
    <2>5. Len(todo[p]) > 1 => /\ at[p] # "bundle"
                              /\ at[p] = "write" => Tail(todo[p]) \in CaLeft
                              /\ at[p] = "srv" => Tail(todo[p]) = S2
      BY <2>1, <2>a, Walk, WalkOn, Zenon DEF CaLeft, More, Last
    <2>6. /\ at' \in [Proc -> {"off", "read", "write", "bundle", "up", "srv"}]
          /\ todo' \in [Proc -> Seq(File)] /\ TodoShape'
      BY <1>2, <2>1, <2>4, <2>5, ListsOfFiles
    <2>7. disk' \in [File -> Gen] /\ cut' \in [Proc -> BOOLEAN]
      BY <1>1, <2>2, <2>3 DEF TypeOK
    <2> QED BY <1>1, <2>3, <2>6, <2>7 DEF TypeOK
  <1>8. ASSUME NEW p \in Proc, IssueClientCertificate(p) PROVE TypeOK' /\ TodoShape'
    <2>1. [leaf |-> mem[p]["intKey"], int |-> mem[p]["intCert"], root |-> mem[p]["rootCert"]]
            \in [leaf : Gen, int : Gen, root : Gen]
      BY <1>1 DEF TypeOK, CaFile
    <2> QED BY <1>1, <1>8, <2>1 DEF IssueClientCertificate, TypeOK, TodoShape
  <1>9. ASSUME NEW p \in Proc, EnsureServerTLSMaterial(p) PROVE TypeOK' /\ TodoShape'
    <2>1. gen' \in Gen /\ goto(p, "srv", S1) /\ mem[p]["intKey"] \in Gen
      BY <1>1, <1>3, <1>9 DEF EnsureServerTLSMaterial, S1, TypeOK, CaFile
    <2>2. /\ at' \in [Proc -> {"off", "read", "write", "bundle", "up", "srv"}]
          /\ todo' \in [Proc -> Seq(File)] /\ TodoShape'
      BY <1>2, <2>1, ListsOfFiles
    <2> QED BY <1>1, <1>9, <2>1, <2>2 DEF EnsureServerTLSMaterial, TypeOK
  <1>10. ASSUME NEW p \in Proc, Die(p) PROVE TypeOK' /\ TodoShape'
    <2>1. /\ at' \in [Proc -> {"off", "read", "write", "bundle", "up", "srv"}]
          /\ todo' \in [Proc -> Seq(File)] /\ TodoShape'
      BY <1>2, <1>10, ListsOfFiles DEF Die
    <2> QED BY <1>1, <1>3, <1>10, <2>1 DEF Die, TypeOK
  <1>11. ASSUME NEW f \in CaFile, Lose(f) PROVE TypeOK' /\ TodoShape'
    <2>1. losses' \in 0 .. MaxLosses
      BY <1>1, <1>11, PKIAssumption DEF Lose, TypeOK
    <2> QED BY <1>1, <1>3, <1>11, <2>1 DEF Lose, TypeOK, TodoShape
  <1>12. CASE UNCHANGED vars
    BY <1>1, <1>12 DEF vars, TypeOK, TodoShape
  <1> QED BY <1>4, <1>5, <1>6, <1>7, <1>8, <1>9, <1>10, <1>11, <1>12 DEF Next

\* What ReadFile does with the list it has: the next file into memory, then on, or the end.
LEMMA ReadCases ==
  ASSUME PKIInv, NEW p \in Proc, ReadFile(p)
  PROVE  \E f \in CaFile :
           /\ mem' = [mem EXCEPT ![p][f] = disk[f]]
           /\ \/ at' = [at EXCEPT ![p] = "off"]
              \/ /\ at' = [at EXCEPT ![p] = "read"]
                 /\ \/ todo[p] = CaOrder /\ f = "rootCert" /\ todo' = [todo EXCEPT ![p] = W2]
                    \/ todo[p] = W2 /\ f = "rootKey" /\ todo' = [todo EXCEPT ![p] = W3]
                    \/ todo[p] = W3 /\ f = "intCert" /\ todo' = [todo EXCEPT ![p] = W4]
              \/ /\ at' = [at EXCEPT ![p] = "bundle"] /\ todo[p] = W4 /\ f = "intKey"
                 /\ mem'[p]["rootCert"] = mem'[p]["intCert"]
  <1> DEFINE f == Head(todo[p])
  <1>1. todo[p] \in CaLeft /\ at[p] = "read"
    BY DEF ReadFile, PKIInv, TodoShape
  <1>2. \/ todo[p] = CaOrder /\ f = "rootCert" /\ Tail(todo[p]) = W2 /\ More(todo[p])
        \/ todo[p] = W2 /\ f = "rootKey" /\ Tail(todo[p]) = W3 /\ More(todo[p])
        \/ todo[p] = W3 /\ f = "intCert" /\ Tail(todo[p]) = W4 /\ More(todo[p])
        \/ todo[p] = W4 /\ f = "intKey" /\ Last(todo[p])
    BY <1>1, WalkOn, Zenon
  <1>3. /\ mem' = [mem EXCEPT ![p][f] = disk[f]]
        /\ \/ goto(p, "off", << >>)
           \/ Len(todo[p]) > 1 /\ goto(p, "read", Tail(todo[p]))
           \/ Len(todo[p]) = 1 /\ goto(p, "bundle", <<"bundle">>) /\ mem'[p]["rootCert"] = mem'[p]["intCert"]
    BY DEF ReadFile
  <1>4. f \in CaFile
    BY <1>2 DEF CaFile
  <1> HIDE DEF f
  <1>5. CASE goto(p, "off", << >>)
    BY <1>3, <1>4, <1>5 DEF goto
  <1>6. CASE Len(todo[p]) > 1 /\ goto(p, "read", Tail(todo[p]))
    <2>1. at' = [at EXCEPT ![p] = "read"]
      BY <1>6 DEF goto
    <2>2. \/ todo[p] = CaOrder /\ f = "rootCert" /\ todo' = [todo EXCEPT ![p] = W2]
          \/ todo[p] = W2 /\ f = "rootKey" /\ todo' = [todo EXCEPT ![p] = W3]
          \/ todo[p] = W3 /\ f = "intCert" /\ todo' = [todo EXCEPT ![p] = W4]
      BY <1>2, <1>6, Zenon DEF goto, More, Last
    <2> QED BY <1>3, <1>4, <2>1, <2>2
  <1>7. CASE Len(todo[p]) = 1 /\ goto(p, "bundle", <<"bundle">>) /\ mem'[p]["rootCert"] = mem'[p]["intCert"]
    <2>1. todo[p] = W4 /\ f = "intKey"
      BY <1>2, <1>7, Zenon DEF More, Last
    <2>2. at' = [at EXCEPT ![p] = "bundle"] /\ mem'[p]["rootCert"] = mem'[p]["intCert"]
      BY <1>7 DEF goto
    <2> QED BY <1>3, <1>4, <2>1, <2>2
  <1> QED BY <1>3, <1>5, <1>6, <1>7

\* What RenameNew does with the list it has: the next file gets its content, then on, or the end.
LEMMA RenameCases ==
  ASSUME PKIInv, NEW p \in Proc, RenameNew(p)
  PROVE  \/ /\ at[p] = "write" /\ at' = [at EXCEPT ![p] = "write"]
            /\ \/ /\ todo[p] = CaOrder /\ todo' = [todo EXCEPT ![p] = W2]
                  /\ disk' = [disk EXCEPT !["rootCert"] = mem[p]["rootCert"]]
               \/ /\ todo[p] = W2 /\ todo' = [todo EXCEPT ![p] = W3]
                  /\ disk' = [disk EXCEPT !["rootKey"] = mem[p]["rootKey"]]
               \/ /\ todo[p] = W3 /\ todo' = [todo EXCEPT ![p] = W4]
                  /\ disk' = [disk EXCEPT !["intCert"] = mem[p]["intCert"]]
         \/ /\ at[p] = "write" /\ at' = [at EXCEPT ![p] = "bundle"] /\ todo[p] = W4
            /\ disk' = [disk EXCEPT !["intKey"] = mem[p]["intKey"]]
         \/ /\ at[p] = "bundle" /\ at' = [at EXCEPT ![p] = "up"]
            /\ disk' = [disk EXCEPT !["bundle"] = mem[p]["rootCert"]]
         \/ /\ at[p] = "srv" /\ at' = [at EXCEPT ![p] = "srv"] /\ todo' = [todo EXCEPT ![p] = S2]
            /\ disk' = [disk EXCEPT !["srvCert"] = pair[p]]
         \/ /\ at[p] = "srv" /\ at' = [at EXCEPT ![p] = "up"] /\ todo[p] = S2
            /\ disk' = [disk EXCEPT !["srvKey"] = pair[p]]
  <1>1. /\ at[p] \in {"write", "bundle", "srv"}
        /\ at[p] = "write" => todo[p] \in CaLeft
        /\ at[p] = "bundle" => todo[p] = <<"bundle">>
        /\ at[p] = "srv" => todo[p] \in {S1, S2}
    BY DEF RenameNew, Writing, PKIInv, TodoShape
  <1>2. /\ disk' = [disk EXCEPT ![Head(todo[p])] = Content(p, Head(todo[p]))]
        /\ Len(todo[p]) > 1 => goto(p, at[p], Tail(todo[p]))
        /\ ~(Len(todo[p]) > 1) /\ at[p] = "write" => goto(p, "bundle", <<"bundle">>)
        /\ ~(Len(todo[p]) > 1) /\ at[p] # "write" => goto(p, "up", << >>)
    BY DEF RenameNew
  <1>3. /\ \A f \in CaFile : Content(p, f) = mem[p][f]
        /\ Content(p, "bundle") = mem[p]["rootCert"]
        /\ Content(p, "srvCert") = pair[p] /\ Content(p, "srvKey") = pair[p]
    BY DEF Content, CaFile
  <1>4. {"rootCert", "rootKey", "intCert", "intKey"} \subseteq CaFile
    BY DEF CaFile
  <1>5. CASE at[p] = "write"
    <2>1. \/ todo[p] = CaOrder /\ Head(todo[p]) = "rootCert" /\ Tail(todo[p]) = W2 /\ More(todo[p])
          \/ todo[p] = W2 /\ Head(todo[p]) = "rootKey" /\ Tail(todo[p]) = W3 /\ More(todo[p])
          \/ todo[p] = W3 /\ Head(todo[p]) = "intCert" /\ Tail(todo[p]) = W4 /\ More(todo[p])
          \/ todo[p] = W4 /\ Head(todo[p]) = "intKey" /\ Last(todo[p])
      BY <1>1, <1>5, WalkOn, Zenon
    <2>2. \/ /\ at' = [at EXCEPT ![p] = "write"]
             /\ \/ /\ todo[p] = CaOrder /\ todo' = [todo EXCEPT ![p] = W2] /\ Head(todo[p]) = "rootCert"
                \/ /\ todo[p] = W2 /\ todo' = [todo EXCEPT ![p] = W3] /\ Head(todo[p]) = "rootKey"
                \/ /\ todo[p] = W3 /\ todo' = [todo EXCEPT ![p] = W4] /\ Head(todo[p]) = "intCert"
          \/ at' = [at EXCEPT ![p] = "bundle"] /\ todo[p] = W4 /\ Head(todo[p]) = "intKey"
      BY <1>2, <1>5, <2>1, Zenon DEF goto, More, Last
    <2>3. \A f \in CaFile : Head(todo[p]) = f => disk' = [disk EXCEPT ![f] = mem[p][f]]
      BY <1>2, <1>3, Zenon
    <2> QED BY <1>4, <1>5, <2>2, <2>3
  <1>6. CASE at[p] = "bundle"
    <2>1. Head(todo[p]) = "bundle" /\ Len(todo[p]) = 1
      BY <1>1, <1>6, Walk, Zenon
    <2>2. ~(Len(todo[p]) > 1)
      BY <2>1
    <2>3. disk' = [disk EXCEPT !["bundle"] = mem[p]["rootCert"]]
      BY <1>2, <1>3, <2>1, Zenon
    <2>4. goto(p, "up", << >>)
      BY <1>2, <1>6, <2>2
    <2> QED BY <1>6, <2>3, <2>4 DEF goto
  <1>7. CASE at[p] = "srv"
    <2>1. \/ todo[p] = S1 /\ Head(todo[p]) = "srvCert" /\ Tail(todo[p]) = S2 /\ More(todo[p])
          \/ todo[p] = S2 /\ Head(todo[p]) = "srvKey" /\ Last(todo[p])
      BY <1>1, <1>7, WalkOn, Zenon
    <2>2. CASE todo[p] = S1 /\ Head(todo[p]) = "srvCert" /\ Tail(todo[p]) = S2 /\ More(todo[p])
      <3>1. goto(p, "srv", S2) /\ disk' = [disk EXCEPT !["srvCert"] = pair[p]]
        BY <1>2, <1>3, <1>7, <2>2, Zenon DEF More
      <3> QED BY <1>7, <3>1 DEF goto
    <2>3. CASE todo[p] = S2 /\ Head(todo[p]) = "srvKey" /\ Last(todo[p])
      <3>1. goto(p, "up", << >>) /\ disk' = [disk EXCEPT !["srvKey"] = pair[p]]
        BY <1>2, <1>3, <1>7, <2>3 DEF Last
      <3> QED BY <1>7, <2>3, <3>1 DEF goto
    <2> QED BY <2>1, <2>2, <2>3
  <1> QED BY <1>1, <1>5, <1>6, <1>7

\* An Authority is complete in memory before it signs, and signs only with its own key.
LEMMA ChainStep == PKIInv /\ [Next]_vars => MemChain' /\ ChainsUp'
  <1> SUFFICES ASSUME PKIInv, [Next]_vars PROVE MemChain' /\ ChainsUp'
    OBVIOUS
  <1>1. /\ at \in [Proc -> {"off", "read", "write", "bundle", "up", "srv"}]
        /\ mem \in [Proc -> [CaFile -> Gen]] /\ MemChain /\ ChainsUp
        /\ {"rootCert", "rootKey", "intCert", "intKey"} \subseteq CaFile
    BY DEF PKIInv, TypeOK, CaFile
  <1>2. ASSUME UNCHANGED <<mem, issued>>,
               \A p \in Proc : at'[p] \in {"write", "bundle", "up", "srv"} => at[p] \in {"write", "bundle", "up", "srv"}
        PROVE  MemChain' /\ ChainsUp'
    BY <1>1, <1>2 DEF MemChain, ChainsUp
  <1>3. ASSUME NEW p \in Proc, Open(p) PROVE MemChain' /\ ChainsUp'
    <2>1. CASE AllPresent
      <3>1. UNCHANGED <<mem, issued>> /\ at' = [at EXCEPT ![p] = "read"]
        BY <1>3, <2>1 DEF Open, goto
      <3> QED BY <1>1, <1>2, <3>1
    <2>2. CASE ~AllPresent
      <3>1. /\ UNCHANGED issued /\ at' = [at EXCEPT ![p] = "write"]
            /\ mem' = [mem EXCEPT ![p] = [f \in CaFile |-> gen']]
        BY <1>3, <2>2 DEF Open, goto
      <3> QED BY <1>1, <3>1 DEF MemChain, ChainsUp
    <2> QED BY <2>1, <2>2
  <1>4. ASSUME NEW p \in Proc, ReadFile(p) PROVE MemChain' /\ ChainsUp'
    <2>1. PICK f \in CaFile : mem' = [mem EXCEPT ![p][f] = disk[f]]
      BY <1>4, ReadCases
    <2>2. /\ UNCHANGED issued
          /\ \A q \in Proc : q # p => at'[q] = at[q]
          /\ at'[p] \in {"off", "read"} \/ (at'[p] = "bundle" /\ mem'[p]["rootCert"] = mem'[p]["intCert"])
      BY <1>1, <1>4 DEF ReadFile, goto
    <2> QED BY <1>1, <2>1, <2>2 DEF MemChain, ChainsUp
  <1>5. ASSUME NEW p \in Proc, RemoveOld(p) PROVE MemChain' /\ ChainsUp'
    BY <1>2, <1>5 DEF RemoveOld
  <1>6. ASSUME NEW p \in Proc, RenameNew(p) PROVE MemChain' /\ ChainsUp'
    <2>1. UNCHANGED <<mem, issued>> /\ at[p] \in {"write", "bundle", "srv"} /\ \A q \in Proc : q # p => at'[q] = at[q]
      BY <1>1, <1>6 DEF RenameNew, Writing, goto
    <2> QED BY <1>2, <2>1
  <1>7. ASSUME NEW p \in Proc, IssueClientCertificate(p) PROVE MemChain' /\ ChainsUp'
    <2> DEFINE c == [leaf |-> mem[p]["intKey"], int |-> mem[p]["intCert"], root |-> mem[p]["rootCert"]]
    <2>1. at[p] = "up" /\ CanSign(p) /\ issued' = issued \cup {c} /\ UNCHANGED <<at, mem>>
      BY <1>7 DEF IssueClientCertificate
    <2>2. c.leaf = c.int /\ c.int = c.root
      BY <1>1, <2>1 DEF CanSign, MemChain
    <2> HIDE DEF c
    <2> QED BY <1>1, <2>1, <2>2 DEF MemChain, ChainsUp
  <1>8. ASSUME NEW p \in Proc, EnsureServerTLSMaterial(p) PROVE MemChain' /\ ChainsUp'
    <2>1. UNCHANGED <<mem, issued>> /\ at[p] = "up" /\ \A q \in Proc : q # p => at'[q] = at[q]
      BY <1>1, <1>8 DEF EnsureServerTLSMaterial, goto
    <2> QED BY <1>2, <2>1
  <1>9. ASSUME NEW p \in Proc, Die(p) PROVE MemChain' /\ ChainsUp'
    <2>1. UNCHANGED issued /\ at' = [at EXCEPT ![p] = "off"] /\ mem' = [mem EXCEPT ![p] = [f \in CaFile |-> 0]]
      BY <1>9 DEF Die, goto
    <2> QED BY <1>1, <2>1 DEF MemChain, ChainsUp
  <1>10. ASSUME NEW f \in CaFile, Lose(f) PROVE MemChain' /\ ChainsUp'
    BY <1>2, <1>10 DEF Lose
  <1>11. CASE UNCHANGED vars
    BY <1>2, <1>11 DEF vars
  <1> QED BY <1>3, <1>4, <1>5, <1>6, <1>7, <1>8, <1>9, <1>10, <1>11 DEF Next

\* While processes follow one another, each finds and leaves the directory in order.
LEMMA DirectoryStep == PKIInv /\ [Next]_vars => (solo => Directory)'
  <1> SUFFICES ASSUME PKIInv, [Next]_vars, solo' PROVE Directory'
    OBVIOUS
  <1>1. /\ at \in [Proc -> {"off", "read", "write", "bundle", "up", "srv"}]
        /\ todo \in [Proc -> Seq(File)] /\ gen \in Nat /\ pair \in [Proc -> Gen] /\ signer \in [Gen -> Gen]
        /\ mem \in [Proc -> [CaFile -> Gen]] /\ disk \in [File -> Gen]
        /\ CaFile = {"rootCert", "rootKey", "intCert", "intKey"}
        /\ File = {"rootCert", "rootKey", "intCert", "intKey", "bundle", "srvCert", "srvKey"}
    BY DEF PKIInv, TypeOK, CaFile, File, Gen
  <1>2. solo
    BY DEF Next, Open, ReadFile, RemoveOld, RenameNew, IssueClientCertificate, EnsureServerTLSMaterial,
           Die, Lose, vars
  <1> DEFINE Issued == \A c \in issued : HasCA /\ c.root = disk["rootCert"]
             SrvPair == disk["srvKey"] # 0 =>
                          /\ HasCA /\ disk["srvCert"] = disk["srvKey"] /\ disk["srvKey"] \in 1 .. gen
                          /\ signer[disk["srvKey"]] = disk["intCert"]
  <1>3. /\ \A p, q \in Proc : at[p] # "off" /\ at[q] # "off" => p = q
        /\ Complete /\ (\A p \in Proc : Progress(p)) /\ Issued /\ SrvPair
    BY <1>2 DEF PKIInv, Directory
  <1>4. ASSUME NEW p \in Proc, \A q \in Proc \ {p} : at'[q] = "off",
               Complete', Progress(p)', Issued', SrvPair'
        PROVE  Directory'
    <2>1. \A q \in Proc : Progress(q)'
      BY <1>4 DEF Progress
    <2> QED BY <1>4, <2>1 DEF Directory
  <1>5. ASSUME NEW p \in Proc, at[p] # "off" PROVE \A q \in Proc \ {p} : at[q] = "off"
    BY <1>3, <1>5
  <1>6. ASSUME NEW p \in Proc, Open(p) PROVE Directory'
    <2>1. /\ \A q \in Proc : at[q] = "off"
          /\ UNCHANGED <<disk, signer, pair, issued>>
      BY <1>6 DEF Open
    <2>2. CASE AllPresent
      <3>1. at' = [at EXCEPT ![p] = "read"] /\ todo' = [todo EXCEPT ![p] = CaOrder] /\ UNCHANGED <<gen, mem>>
        BY <1>6, <2>2 DEF Open, goto
      <3>2. at'[p] = "read" /\ todo'[p] = CaOrder /\ \A q \in Proc \ {p} : at'[q] = "off"
        BY <1>1, <2>1, <3>1
      <3>3. HasCA
        BY <1>1, <2>2 DEF AllPresent, HasCA
      <3>4. Progress(p)'
        BY <2>1, <3>2, <3>3, WalkOn DEF Progress, ReadSoFar, HasCA
      <3>5. Complete' /\ Issued' /\ SrvPair'
        BY <1>3, <2>1, <3>1 DEF Complete, HasCA
      <3> QED BY <1>4, <3>2, <3>4, <3>5
    <2>3. CASE ~AllPresent
      <3>1. /\ at' = [at EXCEPT ![p] = "write"] /\ todo' = [todo EXCEPT ![p] = CaOrder] /\ gen' = gen + 1
            /\ mem' = [mem EXCEPT ![p] = [f \in CaFile |-> gen']]
        BY <1>6, <2>3 DEF Open, goto
      <3>2. at'[p] = "write" /\ todo'[p] = CaOrder /\ \A q \in Proc \ {p} : at'[q] = "off"
        BY <1>1, <2>1, <3>1
      <3>3. ~HasCA
        BY <1>1, <1>3, <2>3 DEF AllPresent, HasCA, Complete
      <3>4. \A f \in CaFile : mem'[p][f] = gen + 1
        BY <1>1, <3>1
      <3>5. gen + 1 # 0
        BY <1>1
      <3>6. Progress(p)'
        BY <1>1, <2>1, <3>2, <3>3, <3>4, <3>5, WalkOn DEF Progress, ReadSoFar, HasCA
      <3>7. Complete' /\ Issued' /\ SrvPair'
        BY <1>1, <1>3, <2>1, <3>1, <3>3 DEF Complete, HasCA
      <3> QED BY <1>4, <3>2, <3>6, <3>7
    <2> QED BY <2>2, <2>3
  <1>7. ASSUME NEW p \in Proc, ReadFile(p) PROVE Directory'
    <2>1. at[p] = "read" /\ UNCHANGED <<disk, gen, signer, pair, issued>>
      BY <1>7 DEF ReadFile
    <2>2. PICK f \in CaFile :
           /\ mem' = [mem EXCEPT ![p][f] = disk[f]]
           /\ \/ at' = [at EXCEPT ![p] = "off"]
              \/ /\ at' = [at EXCEPT ![p] = "read"]
                 /\ \/ todo[p] = CaOrder /\ f = "rootCert" /\ todo' = [todo EXCEPT ![p] = W2]
                    \/ todo[p] = W2 /\ f = "rootKey" /\ todo' = [todo EXCEPT ![p] = W3]
                    \/ todo[p] = W3 /\ f = "intCert" /\ todo' = [todo EXCEPT ![p] = W4]
              \/ at' = [at EXCEPT ![p] = "bundle"] /\ todo[p] = W4 /\ f = "intKey"
      BY <1>7, ReadCases
    <2>3. \A q \in Proc \ {p} : at'[q] = "off"
      BY <1>1, <1>5, <2>1, <2>2
    <2>4. mem'[p][f] = disk[f] /\ \A g \in CaFile : g # f => mem'[p][g] = mem[p][g]
      BY <1>1, <2>2
    <2>5. Complete' /\ Issued' /\ SrvPair'
      BY <1>3, <2>1 DEF Complete, HasCA
    <2>6. HasCA /\ ReadSoFar(p)
      BY <1>3, <2>1 DEF Progress
    <2>7. CASE at' = [at EXCEPT ![p] = "off"]
      <3>1. at'[p] = "off"
        BY <1>1, <2>7
      <3>2. Progress(p)'
        BY <3>1 DEF Progress
      <3> QED BY <1>4, <2>3, <2>5, <3>2
    <2>8. CASE /\ at' = [at EXCEPT ![p] = "read"]
               /\ \/ todo[p] = CaOrder /\ f = "rootCert" /\ todo' = [todo EXCEPT ![p] = W2]
                  \/ todo[p] = W2 /\ f = "rootKey" /\ todo' = [todo EXCEPT ![p] = W3]
                  \/ todo[p] = W3 /\ f = "intCert" /\ todo' = [todo EXCEPT ![p] = W4]
      <3>1. /\ at'[p] = "read"
            /\ \/ todo[p] = CaOrder /\ f = "rootCert" /\ todo'[p] = W2
               \/ todo[p] = W2 /\ f = "rootKey" /\ todo'[p] = W3
               \/ todo[p] = W3 /\ f = "intCert" /\ todo'[p] = W4
        BY <1>1, <2>8
      <3>2. ReadSoFar(p)'
        BY <1>1, <2>1, <2>4, <2>6, <3>1, WalkOn DEF ReadSoFar
      <3>3. Progress(p)'
        BY <2>1, <2>6, <3>1, <3>2 DEF Progress, HasCA
      <3> QED BY <1>4, <2>3, <2>5, <3>3
    <2>9. CASE at' = [at EXCEPT ![p] = "bundle"] /\ todo[p] = W4 /\ f = "intKey"
      <3>1. at'[p] = "bundle"
        BY <1>1, <2>9
      <3>2. \A g \in CaFile : mem'[p][g] = disk[g]
        BY <1>1, <2>4, <2>6, <2>9 DEF ReadSoFar
      <3>3. Progress(p)'
        BY <2>1, <2>6, <3>1, <3>2 DEF Progress, HasCA
      <3> QED BY <1>4, <2>3, <2>5, <3>3
    <2> QED BY <2>2, <2>7, <2>8, <2>9
  <1>8. ASSUME NEW p \in Proc, RemoveOld(p) PROVE Directory'
    <2>1. /\ at[p] \in {"write", "bundle", "srv"} /\ disk' = [disk EXCEPT ![Head(todo[p])] = 0]
          /\ UNCHANGED <<gen, signer, at, todo, mem, pair, issued>>
      BY <1>8 DEF RemoveOld, Writing
    <2>2. \A q \in Proc \ {p} : at'[q] = "off"
      BY <1>5, <2>1
    <2>3. CASE at[p] = "write"
      <3>1. \/ todo[p] = CaOrder /\ disk' = [disk EXCEPT !["rootCert"] = 0]
            \/ todo[p] = W2 /\ disk' = [disk EXCEPT !["rootKey"] = 0]
            \/ todo[p] = W3 /\ disk' = [disk EXCEPT !["intCert"] = 0]
            \/ todo[p] = W4 /\ disk' = [disk EXCEPT !["intKey"] = 0]
        BY <2>1, <2>3, WalkOn, Zenon DEF PKIInv, TodoShape
      <3>2. ~HasCA /\ ReadSoFar(p)
        BY <1>3, <2>3 DEF Progress
      <3>3. ~HasCA' /\ disk'["srvKey"] = disk["srvKey"]
        BY <1>1, <3>1, <3>2 DEF HasCA
      <3>4. ReadSoFar(p)'
        BY <1>1, <2>1, <3>1, <3>2, WalkOn DEF ReadSoFar
      <3>5. Progress(p)'
        BY <1>3, <2>1, <2>3, <3>3, <3>4 DEF Progress
      <3>6. Complete' /\ Issued' /\ SrvPair'
        BY <1>3, <2>1, <3>2, <3>3 DEF Complete
      <3> QED BY <1>4, <2>2, <3>5, <3>6
    <2>4. CASE at[p] = "bundle"
      <3>1. disk' = [disk EXCEPT !["bundle"] = 0]
        BY <2>1, <2>4, Walk, Zenon DEF PKIInv, TodoShape
      <3>2. \A f \in File \ {"bundle"} : disk'[f] = disk[f]
        BY <1>1, <3>1
      <3>3. Progress(p)'
        BY <1>1, <1>3, <2>1, <2>4, <3>2 DEF Progress, HasCA
      <3>4. Complete' /\ Issued' /\ SrvPair'
        BY <1>1, <1>3, <2>1, <3>2 DEF Complete, HasCA
      <3> QED BY <1>4, <2>2, <3>3, <3>4
    <2>5. CASE at[p] = "srv"
      <3>1. \/ todo[p] = S1 /\ disk' = [disk EXCEPT !["srvCert"] = 0]
            \/ todo[p] = S2 /\ disk' = [disk EXCEPT !["srvKey"] = 0]
        BY <2>1, <2>5, WalkOn, Zenon DEF PKIInv, TodoShape
      <3>2. disk["srvKey"] = 0 /\ HasCA
        BY <1>3, <2>5 DEF Progress
      <3>3. /\ disk'["srvKey"] = 0 /\ \A f \in CaFile \cup {"bundle"} : disk'[f] = disk[f]
            /\ todo[p] = S2 => disk'["srvCert"] = disk["srvCert"]
        BY <1>1, <3>1, <3>2, WalkOn
      <3>4. Progress(p)'
        BY <1>1, <1>3, <2>1, <2>5, <3>3 DEF Progress, HasCA
      <3>5. Complete' /\ Issued' /\ SrvPair'
        BY <1>1, <1>3, <2>1, <3>3 DEF Complete, HasCA
      <3> QED BY <1>4, <2>2, <3>4, <3>5
    <2> QED BY <2>1, <2>3, <2>4, <2>5
  <1>9. ASSUME NEW p \in Proc, RenameNew(p) PROVE Directory'
    <2>1. UNCHANGED <<gen, signer, mem, pair, issued>> /\ at[p] \in {"write", "bundle", "srv"}
      BY <1>9 DEF RenameNew, Writing
    <2>2. \A q \in Proc \ {p} : at'[q] = "off"
      BY <1>1, <1>5, <1>9, <2>1 DEF RenameNew, goto
    <2>3. CASE /\ at[p] = "write" /\ at' = [at EXCEPT ![p] = "write"]
               /\ \/ /\ todo[p] = CaOrder /\ todo' = [todo EXCEPT ![p] = W2]
                     /\ disk' = [disk EXCEPT !["rootCert"] = mem[p]["rootCert"]]
                  \/ /\ todo[p] = W2 /\ todo' = [todo EXCEPT ![p] = W3]
                     /\ disk' = [disk EXCEPT !["rootKey"] = mem[p]["rootKey"]]
                  \/ /\ todo[p] = W3 /\ todo' = [todo EXCEPT ![p] = W4]
                     /\ disk' = [disk EXCEPT !["intCert"] = mem[p]["intCert"]]
      <3>1. at'[p] = "write" /\ ~HasCA /\ ReadSoFar(p)
        BY <1>1, <1>3, <2>3 DEF Progress
      <3>2. ~HasCA' /\ disk'["srvKey"] = disk["srvKey"]
        BY <1>1, <2>3, <3>1 DEF HasCA
      <3>3. ReadSoFar(p)'
        <4>1. \/ todo[p] = CaOrder /\ todo'[p] = W2 /\ disk' = [disk EXCEPT !["rootCert"] = mem[p]["rootCert"]]
              \/ todo[p] = W2 /\ todo'[p] = W3 /\ disk' = [disk EXCEPT !["rootKey"] = mem[p]["rootKey"]]
              \/ todo[p] = W3 /\ todo'[p] = W4 /\ disk' = [disk EXCEPT !["intCert"] = mem[p]["intCert"]]
          BY <1>1, <2>3
        <4> QED BY <1>1, <2>1, <3>1, <4>1, WalkOn DEF ReadSoFar
      <3>4. Progress(p)'
        BY <1>3, <2>1, <2>3, <3>1, <3>2, <3>3 DEF Progress
      <3>5. Complete' /\ Issued' /\ SrvPair'
        BY <1>3, <2>1, <3>1, <3>2 DEF Complete
      <3> QED BY <1>4, <2>2, <3>4, <3>5
    <2>4. CASE /\ at[p] = "write" /\ at' = [at EXCEPT ![p] = "bundle"] /\ todo[p] = W4
               /\ disk' = [disk EXCEPT !["intKey"] = mem[p]["intKey"]]
      <3>1. /\ at'[p] = "bundle" /\ ~HasCA /\ ReadSoFar(p) /\ mem[p]["intKey"] # 0
            /\ \A f \in CaFile : mem[p][f] = mem[p]["intKey"]
        BY <1>1, <1>3, <2>4 DEF Progress
      <3>2. \A f \in CaFile : disk'[f] = mem[p][f]
        BY <1>1, <2>4, <3>1 DEF ReadSoFar
      <3>3. HasCA' /\ Complete' /\ disk'["srvKey"] = disk["srvKey"]
        BY <1>1, <2>4, <3>1, <3>2 DEF HasCA, Complete
      <3>4. Progress(p)'
        BY <2>1, <3>1, <3>2, <3>3 DEF Progress
      <3>5. Issued' /\ SrvPair'
        BY <1>3, <2>1, <3>1, <3>3
      <3> QED BY <1>4, <2>2, <3>3, <3>4, <3>5
    <2>5. CASE /\ at[p] = "bundle" /\ at' = [at EXCEPT ![p] = "up"]
               /\ disk' = [disk EXCEPT !["bundle"] = mem[p]["rootCert"]]
      <3>1. /\ at'[p] = "up" /\ disk'["bundle"] = mem[p]["rootCert"]
            /\ \A f \in File \ {"bundle"} : disk'[f] = disk[f]
        BY <1>1, <2>5
      <3>2. Progress(p)'
        BY <1>1, <1>3, <2>1, <2>5, <3>1 DEF Progress, HasCA
      <3>3. Complete' /\ Issued' /\ SrvPair'
        BY <1>1, <1>3, <2>1, <3>1 DEF Complete, HasCA
      <3> QED BY <1>4, <2>2, <3>2, <3>3
    <2>6. CASE /\ at[p] = "srv" /\ at' = [at EXCEPT ![p] = "srv"] /\ todo' = [todo EXCEPT ![p] = S2]
               /\ disk' = [disk EXCEPT !["srvCert"] = pair[p]]
      <3>1. /\ at'[p] = "srv" /\ todo'[p] = S2 /\ disk'["srvCert"] = pair[p]
            /\ \A f \in File \ {"srvCert"} : disk'[f] = disk[f]
        BY <1>1, <2>6
      <3>2. Progress(p)'
        BY <1>1, <1>3, <2>1, <2>6, <3>1 DEF Progress, HasCA
      <3>3. disk["srvKey"] = 0
        BY <1>3, <2>6 DEF Progress
      <3>4. Complete' /\ Issued' /\ SrvPair'
        BY <1>1, <1>3, <2>1, <3>1, <3>3 DEF Complete, HasCA
      <3> QED BY <1>4, <2>2, <3>2, <3>4
    <2>7. CASE /\ at[p] = "srv" /\ at' = [at EXCEPT ![p] = "up"] /\ todo[p] = S2
               /\ disk' = [disk EXCEPT !["srvKey"] = pair[p]]
      <3>1. at'[p] = "up" /\ disk'["srvKey"] = pair[p] /\ \A f \in File \ {"srvKey"} : disk'[f] = disk[f]
        BY <1>1, <2>7
      <3>2. /\ HasCA /\ disk["srvCert"] = pair[p] /\ pair[p] \in 1 .. gen /\ signer[pair[p]] = disk["intCert"]
            /\ disk["bundle"] = disk["rootCert"] /\ \A f \in CaFile : mem[p][f] = disk[f]
        BY <1>3, <2>7 DEF Progress
      <3>3. Progress(p)'
        BY <1>1, <2>1, <3>1, <3>2 DEF Progress, HasCA
      <3>4. Complete' /\ Issued' /\ SrvPair'
        BY <1>1, <1>3, <2>1, <3>1, <3>2 DEF Complete, HasCA
      <3> QED BY <1>4, <2>2, <3>3, <3>4
    <2> QED BY <1>9, <2>3, <2>4, <2>5, <2>6, <2>7, RenameCases
  <1>10. ASSUME NEW p \in Proc, IssueClientCertificate(p) PROVE Directory'
    <2> DEFINE c == [leaf |-> mem[p]["intKey"], int |-> mem[p]["intCert"], root |-> mem[p]["rootCert"]]
    <2>1. at[p] = "up" /\ issued' = issued \cup {c} /\ UNCHANGED <<disk, gen, signer, at, todo, mem, pair>>
      BY <1>10 DEF IssueClientCertificate
    <2>2. HasCA /\ c.root = disk["rootCert"]
      BY <1>1, <1>3, <2>1 DEF Progress
    <2> HIDE DEF c
    <2>3. Issued'
      BY <1>3, <2>1, <2>2 DEF HasCA
    <2>4. Complete' /\ Progress(p)' /\ SrvPair' /\ \A q \in Proc \ {p} : at'[q] = "off"
      BY <1>3, <1>5, <2>1 DEF Complete, HasCA, Progress, ReadSoFar
    <2> QED BY <1>4, <2>3, <2>4
  <1>11. ASSUME NEW p \in Proc, EnsureServerTLSMaterial(p) PROVE Directory'
    <2>1. /\ at[p] = "up" /\ CanSign(p) /\ (disk["srvCert"] = 0 \/ disk["srvKey"] = 0)
          /\ gen' = gen + 1 /\ signer' = [signer EXCEPT ![gen'] = mem[p]["intKey"]]
          /\ pair' = [pair EXCEPT ![p] = gen'] /\ at' = [at EXCEPT ![p] = "srv"]
          /\ todo' = [todo EXCEPT ![p] = S1] /\ gen < MaxGen /\ UNCHANGED <<disk, mem, issued>>
      BY <1>11 DEF EnsureServerTLSMaterial, goto, S1
    <2>2. disk["srvKey"] = 0
      BY <1>1, <1>3, <2>1
    <2>3. /\ HasCA /\ disk["bundle"] = disk["rootCert"] /\ \A f \in CaFile : mem[p][f] = disk[f]
      BY <1>3, <2>1 DEF Progress
    <2>4. gen' \in Gen /\ gen' \in 1 .. gen'
      BY <1>1, <2>1, PKIAssumption DEF Gen
    <2>5. at'[p] = "srv" /\ todo'[p] = S1 /\ pair'[p] = gen' /\ \A q \in Proc \ {p} : at'[q] = "off"
      BY <1>1, <1>5, <2>1
    <2>6. signer'[gen'] = disk["intCert"]
      BY <1>1, <2>1, <2>3, <2>4 DEF CanSign
    <2>7. Progress(p)'
      BY <2>1, <2>2, <2>3, <2>4, <2>5, <2>6, WalkOn DEF Progress, HasCA
    <2>8. Complete' /\ Issued' /\ SrvPair'
      BY <1>3, <2>1, <2>2 DEF Complete, HasCA
    <2> QED BY <1>4, <2>5, <2>7, <2>8
  <1>12. ASSUME NEW p \in Proc, Die(p) PROVE Directory'
    <2>1. UNCHANGED <<disk, gen, signer, issued>> /\ at' = [at EXCEPT ![p] = "off"] /\ at[p] # "off"
      BY <1>12 DEF Die, goto
    <2>2. at'[p] = "off" /\ \A q \in Proc \ {p} : at'[q] = "off"
      BY <1>1, <1>5, <2>1
    <2>3. Progress(p)' /\ Complete' /\ Issued' /\ SrvPair'
      BY <1>3, <2>1, <2>2 DEF Progress, Complete, HasCA
    <2> QED BY <1>4, <2>2, <2>3
  <1>13. ASSUME NEW f \in CaFile, Lose(f) PROVE Directory'
    BY <1>13 DEF Lose
  <1>14. CASE UNCHANGED vars
    BY <1>2, <1>14 DEF vars, PKIInv, Directory, Complete, HasCA, Progress, ReadSoFar
  <1> QED BY <1>6, <1>7, <1>8, <1>9, <1>10, <1>11, <1>12, <1>13, <1>14 DEF Next

\* The store's inductive invariant.
THEOREM PKIInvariant == Spec => []PKIInv
  <1>1. PKIInv /\ [Next]_vars => PKIInv'
    BY ShapeStep, ChainStep, DirectoryStep DEF PKIInv
  <1> QED BY <1>1, PKIInit, PTL DEF Spec

\* For any number of processes, deaths and lost files: only chains that verify were handed out;
\* and while processes follow one another, wherever one of them died, a directory taken for
\* complete is of one generation and a server pair on disk fits and stems from it.
THEOREM StoreIsSound == Spec => []StoreInv
  <1>1. PKIInv => StoreInv
    <2> SUFFICES ASSUME PKIInv PROVE StoreInv
      OBVIOUS
    <2>1. CaFile = {"rootCert", "rootKey", "intCert", "intKey"}
      BY DEF CaFile
    <2>2. SameGeneration
      BY <2>1 DEF SameGeneration, AllPresent, PKIInv, Directory, Complete, HasCA
    <2>3. ServerPairMatches
      BY DEF ServerPairMatches, PKIInv, Directory
    <2> QED BY <2>2, <2>3 DEF StoreInv, PKIInv
  <1> QED BY <1>1, PKIInvariant, PTL

\* A running server trusts every client certificate the store ever issued, in memory and in the
\* bundle on disk, however often processes that follow one another were interrupted.
THEOREM IssuedStayTrusted == Spec => []ClientsStayTrusted
  <1>1. PKIInv => ClientsStayTrusted
    <2> SUFFICES ASSUME PKIInv, solo, NEW p \in Proc, at[p] \in {"up", "srv"}, NEW c \in issued
                 PROVE  c.root = mem[p]["rootCert"] /\ c.root = disk["bundle"]
      BY DEF ClientsStayTrusted
    <2>1. "rootCert" \in CaFile
      BY DEF CaFile
    <2> QED BY <2>1 DEF PKIInv, Directory, Progress
  <1> QED BY <1>1, PKIInvariant, PTL

\* LoadOrInitialize never touches CA files it takes for complete: while processes follow one
\* another and nothing is lost, no step of theirs changes one of the four, however many start,
\* die between two file operations and start again.
THEOREM AuthorityStays == Spec => [][AllPresent /\ solo' => \A f \in CaFile : disk'[f] = disk[f]]_vars
  <1> DEFINE Kept == AllPresent /\ solo' => \A f \in CaFile : disk'[f] = disk[f]
  <1>1. PKIInv /\ [Next]_vars => [Kept]_vars
    <2> SUFFICES ASSUME PKIInv, Next, AllPresent, solo', NEW f \in CaFile PROVE disk'[f] = disk[f]
      OBVIOUS
    <2>1. TypeOK /\ TodoShape
      BY DEF PKIInv
    <2>2. HasCA
      BY DEF AllPresent, HasCA, CaFile
    <2>3. ASSUME NEW p \in Proc, NEW x, Writing(p), solo, disk' = [disk EXCEPT ![Head(todo[p])] = x]
          PROVE  disk'[f] = disk[f]
      <3>1. at[p] \in {"bundle", "srv"}
        BY <2>2, <2>3 DEF Writing, PKIInv, Directory, Progress
      <3>2. todo[p] \in {<<"bundle">>, S1, S2}
        BY <2>1, <3>1 DEF TodoShape
      <3>3. Head(todo[p]) \in {"bundle", "srvCert", "srvKey"}
        BY <3>2 DEF S1, S2
      <3> QED BY <2>1, <2>3, <3>3 DEF TypeOK, CaFile, File
    <2>4. CASE \E p \in Proc : RemoveOld(p) \/ RenameNew(p)
      BY <2>3, <2>4 DEF RemoveOld, RenameNew
    <2>5. CASE \E g \in CaFile : Lose(g)
      BY <2>5 DEF Lose
    <2>6. CASE UNCHANGED disk
      BY <2>6
    <2> QED BY <2>4, <2>5, <2>6
      DEF Next, Open, ReadFile, IssueClientCertificate, EnsureServerTLSMaterial, Die
  <1> QED BY <1>1, PKIInvariant, PTL DEF Spec
=============================================================================
