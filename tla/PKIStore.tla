------------------------------ MODULE PKIStore ------------------------------
(***************************************************************************)
(* The embedded CA's directory: LoadOrInitialize, EnsureServerTLSMaterial and *)
(* IssueClientCertificate, run by server and command-line processes that may  *)
(* die between any two file operations.  A file holds the number of the key    *)
(* generation it stems from, 0 when it is missing: a certificate and a key    *)
(* belong together, and the intermediate verifies against the root, exactly    *)
(* when they are of one generation.                                          *)
(***************************************************************************)
EXTENDS Naturals, Sequences

CONSTANTS
  Proc,      \* processes opening the directory: serve, setup, pki bootstrap
  MaxGen,    \* bound: key generations
  MaxLosses  \* bound: CA files that disappear from the directory

ASSUME PKIAssumption == MaxGen \in Nat /\ MaxLosses \in Nat

CaFile == {"rootCert", "rootKey", "intCert", "intKey"}
File == CaFile \cup {"bundle", "srvCert", "srvKey"}
Gen == 0 .. MaxGen

\* The order in which generateAndPersist writes and loadFromDisk reads.
CaOrder == <<"rootCert", "rootKey", "intCert", "intKey">>

VARIABLES
  disk,    \* what each file holds
  gen,     \* generations drawn so far
  signer,  \* the CA generation that signed a server key pair
  at,      \* "off", "read", "write", "bundle", "up", "srv"
  todo,    \* files a process still has to read or write
  cut,     \* its next file is removed and the rename is pending
  mem,     \* the Authority in memory, per process
  pair,    \* the server key pair a process is writing
  issued,  \* chains handed out: the keys behind leaf, intermediate and root
  losses,  \* files lost so far
  solo     \* ghost: one process at a time has used the directory, and no file was lost

vars == <<disk, gen, signer, at, todo, cut, mem, pair, issued, losses, solo>>

Init ==
  /\ disk = [f \in File |-> 0] /\ gen = 0 /\ signer = [g \in Gen |-> 0]
  /\ at = [p \in Proc |-> "off"] /\ todo = [p \in Proc |-> << >>]
  /\ cut = [p \in Proc |-> FALSE] /\ mem = [p \in Proc |-> [f \in CaFile |-> 0]]
  /\ pair = [p \in Proc |-> 0] /\ issued = {} /\ losses = 0 /\ solo = TRUE

goto(p, s, files) ==
  /\ at' = [at EXCEPT ![p] = s]
  /\ todo' = [todo EXCEPT ![p] = files]

\* Mutant: the bundle counts as CA material.
AllPresentBundle == \A f \in CaFile \cup {"bundle"} : disk[f] # 0

AllPresent == \A f \in CaFile : disk[f] # 0

\* LoadOrInitialize: load, or draw a fresh root and intermediate.
Open(p) ==
  /\ at[p] = "off"
  /\ \/ /\ AllPresent
        /\ goto(p, "read", CaOrder)
        /\ UNCHANGED <<gen, mem>>
     \/ /\ ~AllPresent /\ gen < MaxGen
        /\ gen' = gen + 1
        /\ mem' = [mem EXCEPT ![p] = [f \in CaFile |-> gen']]
        /\ goto(p, "write", CaOrder)
  /\ solo' = (solo /\ \A q \in Proc : at[q] = "off")
  /\ UNCHANGED <<disk, signer, cut, pair, issued, losses>>

\* Mutant: verifyHierarchy is not called.
ReadUnchecked(p) ==
  /\ at[p] = "read"
  /\ mem' = [mem EXCEPT ![p][Head(todo[p])] = disk[Head(todo[p])]]
  /\ IF Len(todo[p]) > 1 THEN goto(p, "read", Tail(todo[p])) ELSE goto(p, "bundle", <<"bundle">>)
  /\ UNCHANGED <<disk, gen, signer, cut, pair, issued, losses, solo>>

\* loadFromDisk reads one file after another, then verifyHierarchy; the keys are not
\* compared with their certificates.
ReadFile(p) ==
  LET f == Head(todo[p]) IN
  /\ at[p] = "read"
  /\ mem' = [mem EXCEPT ![p][f] = disk[f]]
  /\ \/ disk[f] = 0 /\ goto(p, "off", << >>)
     \/ disk[f] # 0 /\ Len(todo[p]) > 1 /\ goto(p, "read", Tail(todo[p]))
     \/ /\ disk[f] # 0 /\ Len(todo[p]) = 1
        /\ IF mem'[p]["rootCert"] = mem'[p]["intCert"]
           THEN goto(p, "bundle", <<"bundle">>) ELSE goto(p, "off", << >>)
  /\ UNCHANGED <<disk, gen, signer, cut, pair, issued, losses, solo>>

\* What a process is about to write into a file.
Content(p, f) ==
  CASE f \in CaFile -> mem[p][f]
    [] f = "bundle" -> mem[p]["rootCert"]
    [] OTHER        -> pair[p]

Writing(p) == at[p] \in {"write", "bundle", "srv"}

\* writeFileExclusive: the finished temporary file replaces the old one by remove and rename.
RemoveOld(p) ==
  /\ Writing(p) /\ ~cut[p]
  /\ disk' = [disk EXCEPT ![Head(todo[p])] = 0]
  /\ cut' = [cut EXCEPT ![p] = TRUE]
  /\ UNCHANGED <<gen, signer, at, todo, mem, pair, issued, losses, solo>>

RenameNew(p) ==
  /\ Writing(p) /\ cut[p]
  /\ disk' = [disk EXCEPT ![Head(todo[p])] = Content(p, Head(todo[p]))]
  /\ cut' = [cut EXCEPT ![p] = FALSE]
  /\ IF Len(todo[p]) > 1 THEN goto(p, at[p], Tail(todo[p]))
     ELSE IF at[p] = "write" THEN goto(p, "bundle", <<"bundle">>)
     ELSE goto(p, "up", << >>)
  /\ UNCHANGED <<gen, signer, mem, pair, issued, losses, solo>>

\* x509.CreateCertificate refuses a key that is not the parent certificate's.
CanSign(p) == mem[p]["intKey"] = mem[p]["intCert"]

IssueClientCertificate(p) ==
  /\ at[p] = "up" /\ CanSign(p)
  /\ issued' = issued \cup {[leaf |-> mem[p]["intKey"], int |-> mem[p]["intCert"],
                             root |-> mem[p]["rootCert"]]}
  /\ UNCHANGED <<disk, gen, signer, at, todo, cut, mem, pair, losses, solo>>

\* EnsureServerTLSMaterial: a pair is minted when either file is missing.
EnsureServerTLSMaterial(p) ==
  /\ at[p] = "up" /\ CanSign(p)
  /\ disk["srvCert"] = 0 \/ disk["srvKey"] = 0
  /\ gen < MaxGen
  /\ gen' = gen + 1
  /\ signer' = [signer EXCEPT ![gen'] = mem[p]["intKey"]]
  /\ pair' = [pair EXCEPT ![p] = gen']
  /\ goto(p, "srv", <<"srvCert", "srvKey">>)
  /\ UNCHANGED <<disk, cut, mem, issued, losses, solo>>

\* The process exits, is killed, or one of its file operations fails.
Die(p) ==
  /\ at[p] # "off"
  /\ goto(p, "off", << >>)
  /\ cut' = [cut EXCEPT ![p] = FALSE] /\ pair' = [pair EXCEPT ![p] = 0]
  /\ mem' = [mem EXCEPT ![p] = [f \in CaFile |-> 0]]
  /\ UNCHANGED <<disk, gen, signer, issued, losses, solo>>

\* A CA file disappears from the directory: a partial restore, a mistaken rm.
Lose(f) ==
  /\ losses < MaxLosses /\ disk[f] # 0
  /\ losses' = losses + 1 /\ solo' = FALSE
  /\ disk' = [disk EXCEPT ![f] = 0]
  /\ UNCHANGED <<gen, signer, at, todo, cut, mem, pair, issued>>

Next ==
  \/ \E p \in Proc : \/ Open(p) \/ ReadFile(p) \/ RemoveOld(p) \/ RenameNew(p)
                     \/ IssueClientCertificate(p) \/ EnsureServerTLSMaterial(p) \/ Die(p)
  \/ \E f \in CaFile : Lose(f)

Spec == Init /\ [][Next]_vars

-----------------------------------------------------------------------------

TypeOK ==
  /\ disk \in [File -> Gen] /\ gen \in Gen /\ signer \in [Gen -> Gen]
  /\ at \in [Proc -> {"off", "read", "write", "bundle", "up", "srv"}]
  /\ todo \in [Proc -> Seq(File)] /\ cut \in [Proc -> BOOLEAN]
  /\ mem \in [Proc -> [CaFile -> Gen]] /\ pair \in [Proc -> Gen]
  /\ issued \subseteq [leaf : Gen, int : Gen, root : Gen]
  /\ losses \in 0 .. MaxLosses /\ solo \in BOOLEAN

\* Whatever point of generateAndPersist a process died at, a directory that LoadOrInitialize
\* takes for complete holds one generation: the next start comes up and can sign.  This takes
\* processes that follow one another.
SameGeneration ==
  solo /\ AllPresent => \A f, g \in CaFile : disk[f] = disk[g]

\* "reload should preserve root material": a running server trusts every client certificate the
\* store ever issued, in memory and in the bundle its TLS listener reads; restarts and
\* interrupted starts never change the root, while processes follow one another.
ClientsStayTrusted ==
  solo => \A p \in Proc : at[p] \in {"up", "srv"} =>
            \A c \in issued : c.root = mem[p]["rootCert"] /\ c.root = disk["bundle"]

\* The server's TLS key fits its certificate, and the CA on disk signed it.
ServerPairMatches ==
  solo /\ disk["srvCert"] # 0 /\ disk["srvKey"] # 0 =>
    /\ disk["srvCert"] = disk["srvKey"]
    /\ signer[disk["srvCert"]] = disk["intCert"]

\* Every chain handed to an agent verifies, leaf under intermediate under root, even when
\* two processes initialise the directory at once or files have been lost from it.
ChainsUp == \A c \in issued : c.leaf = c.int /\ c.int = c.root

\* What every state of the directory and its processes satisfies: however many run and whatever
\* was lost, types, and only chains that verify were handed out; after processes that follow one
\* another, wherever one of them died, CA files that are taken for complete are one generation,
\* and a server pair fits and stems from it.
StoreInv == TypeOK /\ ChainsUp /\ SameGeneration /\ ServerPairMatches
=============================================================================
