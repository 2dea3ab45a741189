----------------------------- MODULE BackupsProofs -----------------------------
(***************************************************************************)
(* Proofs about Backups, for any number of writes, backups and crashes.    *)
(***************************************************************************)
EXTENDS Backups, SequenceFacts, FiniteSetTheorems, SequenceTheorems, TLAPS

-----------------------------------------------------------------------------
(* Functions, greatest elements and chains.                                *)

(* f laid over g has the entries of both, and those of f win.              *)
LEMMA OverFacts ==
    ASSUME NEW f, NEW g
    PROVE  /\ DOMAIN Over(f, g) = DOMAIN f \cup DOMAIN g
           /\ \A x \in DOMAIN f : Over(f, g)[x] = f[x]
           /\ \A x \in DOMAIN g \ DOMAIN f : Over(f, g)[x] = g[x]
           /\ \A S : (\A x \in DOMAIN f : f[x] \in S) /\ (\A x \in DOMAIN g : g[x] \in S)
                     => Over(f, g) \in [DOMAIN f \cup DOMAIN g -> S]
BY DEF Over

(* One entry is added, or takes the place of an old one.                   *)
LEMMA WithFacts ==
    ASSUME NEW f, NEW k, NEW v
    PROVE  /\ DOMAIN With(f, k, v) = DOMAIN f \cup {k} /\ With(f, k, v)[k] = v
           /\ \A x \in DOMAIN f : x # k => With(f, k, v)[x] = f[x]
           /\ \A S : v \in S /\ (\A x \in DOMAIN f : f[x] \in S)
                     => With(f, k, v) \in [DOMAIN f \cup {k} -> S]
BY DEF With

(* A part of a function.                                                   *)
LEMMA RestrictFacts ==
    ASSUME NEW f, NEW T
    PROVE  /\ DOMAIN Restrict(f, T) = T
           /\ \A x \in T : Restrict(f, T)[x] = f[x]
           /\ \A S : (\A x \in T : f[x] \in S) => Restrict(f, T) \in [T -> S]
BY DEF Restrict

(* The empty function.                                                     *)
LEMMA EmptyFunction == DOMAIN <<>> = {} /\ \A S : <<>> \in [DOMAIN <<>> -> S]
<1>1. DOMAIN <<>> = {}
  OBVIOUS
<1>2. <<>> = [x \in {} |-> {}]
  OBVIOUS
<1> QED
  BY <1>1, <1>2

(* The greatest element of a bounded set of naturals.                      *)
LEMMA MaxFacts ==
    ASSUME NEW S \in SUBSET Nat, S # {}, NEW B \in Nat, \A x \in S : x <= B
    PROVE  Max(S) \in S /\ \A x \in S : x <= Max(S)
<1>1. PICK m \in S : \A x \in S : x <= m
  BY GreatestElement
<1>2. \A x \in S : m >= x
  BY <1>1
<1>3. \E x \in S : \A y \in S : x >= y
  BY <1>2
<1>4. Max(S) \in S /\ \A y \in S : Max(S) >= y
  BY <1>3 DEF Max
<1> QED
  BY <1>4

Closed(T, S, base) == S \cup {base[c] : c \in T} \subseteq T \cup {0}

(* What S leads to is closed, contains S, and is the least such set.       *)
LEMMA ReachFacts ==
    ASSUME NEW base, NEW S, NEW A, A \subseteq DOMAIN base, Closed(A, S, base)
    PROVE  /\ Reach(S, base) \subseteq A
           /\ Closed(Reach(S, base), S, base)
<1>. DEFINE R == Reach(S, base)
<1>1. R = {b \in DOMAIN base : \A T \in SUBSET DOMAIN base : Closed(T, S, base) => b \in T}
  BY DEF Reach, Closed
<1>. HIDE DEF R
<1>2. R \subseteq A
  BY <1>1
<1>3. ASSUME NEW s \in S, s # 0 PROVE s \in R
  <2>1. \A T \in SUBSET DOMAIN base : Closed(T, S, base) => s \in T
    BY <1>3 DEF Closed
  <2>2. s \in DOMAIN base
    BY <2>1
  <2> QED
    BY <1>1, <2>1, <2>2
<1>4. ASSUME NEW c \in R, base[c] # 0 PROVE base[c] \in R
  <2>1. ASSUME NEW T \in SUBSET DOMAIN base, Closed(T, S, base) PROVE base[c] \in T
    <3>1. c \in T
      BY <1>1, <2>1
    <3> QED
      BY <1>4, <2>1, <3>1 DEF Closed
  <2>2. base[c] \in DOMAIN base
    BY <2>1
  <2> QED
    BY <1>1, <2>1, <2>2
<1>5. Closed(R, S, base)
  BY <1>3, <1>4 DEF Closed
<1> QED
  BY <1>2, <1>5 DEF R

(* What S leads to depends only on the bases within a closed set.          *)
LEMMA ReachAgree ==
    ASSUME NEW f, NEW g, NEW S, NEW A, A \subseteq DOMAIN f, A \subseteq DOMAIN g,
           S \subseteq A \cup {0}, \A a \in A : f[a] = g[a] /\ f[a] \in A \cup {0}
    PROVE  Reach(S, f) = Reach(S, g)
<1>1. ASSUME NEW p, NEW q, A \subseteq DOMAIN p, A \subseteq DOMAIN q,
             \A a \in A : p[a] = q[a] /\ p[a] \in A \cup {0}
      PROVE  Reach(S, p) \subseteq Reach(S, q)
  <2>1. Closed(A, S, p)
    BY <1>1 DEF Closed
  <2>2. Reach(S, p) \subseteq A
    BY <1>1, <2>1, ReachFacts
  <2>3. ASSUME NEW b \in Reach(S, p), NEW T \in SUBSET DOMAIN q, Closed(T, S, q) PROVE b \in T
    <3>1. Closed(T \cap A, S, p)
      BY <1>1, <2>3 DEF Closed
    <3>2. T \cap A \subseteq DOMAIN p
      BY <1>1
    <3>3. Reach(S, p) \subseteq T \cap A
      BY <3>1, <3>2, ReachFacts
    <3> QED
      BY <3>3
  <2>4. ASSUME NEW b \in Reach(S, p) PROVE b \in Reach(S, q)
    <3>1. b \in DOMAIN q
      BY <1>1, <2>2
    <3> QED
      BY <2>3, <3>1 DEF Reach, Closed
  <2> QED
    BY <2>4
<1>2. Reach(S, f) \subseteq Reach(S, g)
  BY <1>1
<1>3. Reach(S, g) \subseteq Reach(S, f)
  BY <1>1
<1> QED
  BY <1>2, <1>3

-----------------------------------------------------------------------------
(* Types.                                                                  *)

Tables == UNION {[S -> SUBSET Nat] : S \in SUBSET Nat}

Manifests == [names : SUBSET Nat, next : Nat]

Wals == [recs : SUBSET Nat, flushed : SUBSET Nat]

Infos == [type : Types \cup {"none"}, baseId : Nat, base : Nat, newFiles : SUBSET Nat]

Flaws == {"raced", "degraded", "orphan", "clash"}

Dirs == [files : Tables, recs : SUBSET Nat, flushed : SUBSET Nat, manifest : Manifests,
         info : Infos, taken : SUBSET Nat, flaws : SUBSET Flaws]

Jobs == [pc : {"idle", "copy", "wal", "finish", "clear", "restore", "reinitialize", "delete",
               "unlist"},
         id : Nat, type : Types, tables : SUBSET Nat, next : Nat, raced : BOOLEAN, target : Nat,
         todo : SUBSET Nat]

TypeOK ==
    /\ status \in {"up", "down", "stuck"}
    /\ files \in Tables /\ manifest \in Manifests /\ wal \in Wals
    /\ mem \subseteq Nat /\ imm \subseteq Nat
    /\ worker \in [pc : {"idle", "wal", "compact"}, tab : SUBSET Nat]
    /\ degraded \in BOOLEAN
    /\ infos \in [DOMAIN infos -> Infos] /\ listed \subseteq DOMAIN infos
    /\ last \in DOMAIN infos \cup {0}
    /\ dirs \in [DOMAIN dirs -> Dirs] /\ entries \in Seq(Nat) /\ job \in Jobs
    /\ written \in Nat /\ made \in Nat /\ upsets \in Nat
    /\ prior \in [id : Nat, writes : SUBSET Nat, from : SUBSET Flaws]
    /\ torn \in Nat

-----------------------------------------------------------------------------
(* Bookkeeping: what is listed, in memory and in the manifest file, which  *)
(* directories there are, and what a deletion under way will still delete. *)

Entered == ToSet(entries)

Good == Entered \ {torn}

(* A process that is not up has nothing in memory.                         *)
Blank ==
    status # "up" =>
        /\ job = NoJob /\ degraded = FALSE /\ imm = {} /\ worker.pc = "idle" /\ worker.tab = {}
        /\ DOMAIN infos = {} /\ listed = {} /\ last = 0

Numbered ==
    /\ DOMAIN infos \cup DOMAIN dirs \cup Entered \subseteq 1 .. made
    /\ \A i, j \in 1 .. Len(entries) : entries[i] = entries[j] => i = j
    /\ \A b \in DOMAIN infos : infos[b].base \in DOMAIN infos \cup {0} /\ infos[b].base < b
    /\ \A b \in DOMAIN infos : infos[b].baseId < b

Listing ==
    /\ status = "up" => listed = Entered
    /\ DOMAIN dirs \subseteq Entered \cup Partial
    /\ BackingUp => /\ job.id = made /\ job.id \in DOMAIN dirs
                    /\ job.id \notin Entered /\ job.id \notin DOMAIN infos
                    /\ job.type = "incremental" => last # 0
                    /\ job.target \in listed \cup {0}
                    /\ job.target # 0 => job.type = "full"
    /\ job.pc \in {"clear", "restore", "reinitialize"} =>
           /\ job.id = made /\ job.id \in listed /\ job.type = "full"
           /\ job.target \in listed /\ job.target < job.id

Deleting ==
    /\ job.pc \in {"delete", "unlist"} =>
           /\ job.todo \subseteq listed
           /\ \A b \in listed : infos[b].baseId \in job.todo => b \in job.todo
    /\ job.pc = "unlist" => /\ torn = job.id /\ job.id \in job.todo
                            /\ \A b \in listed : infos[b].baseId # job.id
    /\ status = "up" /\ job.pc # "unlist" => torn = 0
    /\ torn # 0 => torn \in Entered /\ torn \notin DOMAIN dirs

Orphan(e) == "orphan" \in dirs[e].flaws

(* The directory of an entered backup is complete, and so are those it     *)
(* rests on, unless it is an orphan.                                       *)
Complete ==
    \A e \in Good :
        /\ e \in DOMAIN dirs
        /\ dirs[e].info.type # "none" /\ dirs[e].info.baseId < e
        /\ dirs[e].info.type = "incremental" <=> dirs[e].info.baseId # 0
        /\ DOMAIN dirs[e].files = dirs[e].info.newFiles
        /\ dirs[e].info.baseId = 0 => ~Orphan(e)
        /\ dirs[e].info.baseId \notin Good \cup {0} => Orphan(e)
        /\ dirs[e].info.baseId \in Good => (Orphan(e) <=> Orphan(dirs[e].info.baseId))

(* What is in memory of a backup is what its directory says, but that an   *)
(* orphan may have lost its base.                                          *)
Agree ==
    status = "up" => \A b \in listed \ {torn} :
        /\ infos[b].type = dirs[b].info.type /\ infos[b].baseId = dirs[b].info.baseId
        /\ infos[b].newFiles = dirs[b].info.newFiles
        /\ infos[b].base = infos[b].baseId \/ (infos[b].base = 0 /\ Orphan(b))

Copied == job.pc \in {"wal", "finish"} => DOMAIN dirs[job.id].files = NewFiles

Books == Blank /\ Numbered /\ Listing /\ Deleting /\ Complete /\ Agree /\ Copied

-----------------------------------------------------------------------------
(* What a restore leaves in the directory.                                 *)

(* A set of tables is a function from names to sets of writes.             *)
LEMMA TablesFacts ==
    /\ \A f : f \in Tables <=> DOMAIN f \subseteq Nat /\ f \in [DOMAIN f -> SUBSET Nat]
    /\ \A S \in SUBSET Nat : \A f \in [S -> SUBSET Nat] : f \in Tables
    /\ <<>> \in Tables
<1>1. ASSUME NEW f, f \in Tables PROVE DOMAIN f \subseteq Nat /\ f \in [DOMAIN f -> SUBSET Nat]
  <2>1. PICK S \in SUBSET Nat : f \in [S -> SUBSET Nat]
    BY <1>1 DEF Tables
  <2> QED
    BY <2>1
<1>2. ASSUME NEW S \in SUBSET Nat, NEW f \in [S -> SUBSET Nat] PROVE f \in Tables
  BY DEF Tables
<1>3. <<>> \in Tables
  <2>1. DOMAIN <<>> \in SUBSET Nat /\ <<>> \in [DOMAIN <<>> -> SUBSET Nat]
    BY EmptyFunction
  <2> QED
    BY <1>2, <2>1
<1> QED
  BY <1>1, <1>2, <1>3

OverlayIn(D, c) ==
    [n \in UNION {DOMAIN D[b].files : b \in c} |->
        D[Max({b \in c : n \in DOMAIN D[b].files})].files[n]]

(* Every table comes from the youngest backup that has it.                 *)
LEMMA OverlayFacts ==
    ASSUME NEW D, NEW c \in SUBSET Nat, NEW B \in Nat, \A b \in c : b <= B,
           \A b \in c : D[b].files \in Tables
    PROVE  /\ OverlayIn(D, c) \in Tables
           /\ DOMAIN OverlayIn(D, c) = UNION {DOMAIN D[b].files : b \in c}
           /\ \A n \in DOMAIN OverlayIn(D, c) : \E b \in c :
                 /\ n \in DOMAIN D[b].files /\ OverlayIn(D, c)[n] = D[b].files[n]
                 /\ \A a \in c : n \in DOMAIN D[a].files => a <= b
<1>. DEFINE N == UNION {DOMAIN D[b].files : b \in c}
            H(n) == {b \in c : n \in DOMAIN D[b].files}
            O == OverlayIn(D, c)
<1>1. O = [n \in N |-> D[Max(H(n))].files[n]]
  BY DEF OverlayIn
<1>2. ASSUME NEW n \in N PROVE Max(H(n)) \in H(n) /\ \A a \in H(n) : a <= Max(H(n))
  <2>1. H(n) # {} /\ H(n) \in SUBSET Nat /\ \A x \in H(n) : x <= B
    OBVIOUS
  <2>. HIDE DEF H
  <2> QED
    BY <2>1, MaxFacts
<1>3. N \subseteq Nat
  BY TablesFacts
<1>4. \A b \in c : \A n \in DOMAIN D[b].files : D[b].files[n] \in SUBSET Nat
  BY TablesFacts
<1>5. DOMAIN O = N /\ \A n \in N : O[n] = D[Max(H(n))].files[n]
  <2>. HIDE DEF N, H, O
  <2> QED
    BY <1>1
<1>6. O \in [N -> SUBSET Nat]
  <2>1. ASSUME NEW n \in N PROVE D[Max(H(n))].files[n] \in SUBSET Nat
    BY <1>2, <1>4
  <2>. HIDE DEF N, H, O
  <2> QED
    BY <1>1, <2>1
<1>7. O \in Tables
  <2>. HIDE DEF N, H, O
  <2> QED
    BY <1>3, <1>6, TablesFacts
<1>8. ASSUME NEW n \in N
      PROVE  \E b \in c : /\ n \in DOMAIN D[b].files /\ O[n] = D[b].files[n]
                          /\ \A a \in c : n \in DOMAIN D[a].files => a <= b
  <2>1. Max(H(n)) \in c /\ n \in DOMAIN D[Max(H(n))].files
        /\ \A a \in c : n \in DOMAIN D[a].files => a <= Max(H(n))
    BY <1>2
  <2> HIDE DEF H, O, N
  <2> QED
    BY <1>5, <2>1
<1> QED
  BY <1>5, <1>7, <1>8

(* It depends only on the directories of the chain.                        *)
LEMMA OverlayAgree ==
    ASSUME NEW D, NEW E, NEW c \in SUBSET Nat, NEW B \in Nat, \A b \in c : b <= B,
           \A b \in c : D[b].files = E[b].files
    PROVE  OverlayIn(D, c) = OverlayIn(E, c)
<1>. DEFINE H(n) == {b \in c : n \in DOMAIN D[b].files}
            N == UNION {DOMAIN D[b].files : b \in c}
<1>1. \A n : H(n) = {b \in c : n \in DOMAIN E[b].files}
  OBVIOUS
<1>2. N = UNION {DOMAIN E[b].files : b \in c}
  OBVIOUS
<1>3. ASSUME NEW n \in N PROVE D[Max(H(n))].files[n] = E[Max(H(n))].files[n]
  <2>1. H(n) # {} /\ H(n) \in SUBSET Nat /\ \A x \in H(n) : x <= B
    OBVIOUS
  <2>2. Max(H(n)) \in H(n)
    <3>. HIDE DEF H
    <3> QED
      BY <2>1, MaxFacts
  <2> QED
    BY <2>2
<1>4. OverlayIn(D, c) = [n \in N |-> D[Max(H(n))].files[n]]
  BY DEF OverlayIn
<1>5. OverlayIn(E, c) = [n \in N |-> E[Max(H(n))].files[n]]
  BY <1>1, <1>2 DEF OverlayIn
<1>. HIDE DEF H, N
<1> QED
  BY <1>3, <1>4, <1>5

(* The backup a table comes from is known.                                 *)
LEMMA OverlayAt ==
    ASSUME NEW D, NEW c \in SUBSET Nat, NEW n, NEW m \in c, n \in DOMAIN D[m].files,
           \A b \in c : n \in DOMAIN D[b].files => b <= m
    PROVE  n \in DOMAIN OverlayIn(D, c) /\ OverlayIn(D, c)[n] = D[m].files[n]
<1>1. PICK G : G = {b \in c : n \in DOMAIN D[b].files}
  OBVIOUS
<1>2. m \in Nat /\ m \in G /\ G \in SUBSET Nat /\ \A b \in G : b <= m
  BY <1>1
<1>3. Max(G) \in G /\ \A b \in G : b <= Max(G)
  BY <1>2, MaxFacts
<1>4. Max(G) = m
  <2>1. \A a, b \in Nat : a <= b /\ b <= a => a = b
    OBVIOUS
  <2>2. Max(G) \in Nat /\ Max(G) <= m /\ m <= Max(G)
    BY <1>2, <1>3
  <2> QED
    BY <1>2, <2>1, <2>2
<1> QED
  BY <1>1, <1>2, <1>4 DEF OverlayIn

(* A chain holds its first backup and goes on to older ones.               *)
LEMMA ChainFacts ==
    ASSUME TypeOK, Numbered, NEW id \in DOMAIN infos \cup {0}
    PROVE  /\ Chain(id) \subseteq DOMAIN infos /\ Chain(id) \subseteq 1 .. made
           /\ id # 0 => id \in Chain(id)
           /\ \A b \in Chain(id) : b <= id /\ infos[b].base \in Chain(id) \cup {0}
<1>. DEFINE A == {b \in DOMAIN infos : b <= id}
<1>1. DOMAIN Bases = DOMAIN infos /\ \A b \in DOMAIN infos : Bases[b] = infos[b].base
  BY DEF Bases
<1>2. \A b \in DOMAIN infos : b \in Nat /\ infos[b].base \in Nat
  BY DEF TypeOK, Numbered, Infos
<1>2a. id \in Nat
  BY <1>2
<1>3. ASSUME NEW b \in A PROVE infos[b].base \in A \cup {0}
  <2>1. infos[b].base \in DOMAIN infos \cup {0} /\ infos[b].base < b
    BY DEF Numbered
  <2> QED
    BY <1>2, <1>2a, <2>1
<1>4. id \in A \cup {0}
  BY <1>2a
<1>5. Closed(A, {id}, Bases)
  <2>. HIDE DEF A
  <2>1. A \subseteq DOMAIN infos
    BY DEF A
  <2> QED
    BY <1>1, <1>3, <1>4, <2>1 DEF Closed
<1>6. A \subseteq DOMAIN Bases
  BY <1>1
<1>7. Chain(id) \subseteq A /\ Closed(Chain(id), {id}, Bases)
  <2>. HIDE DEF A
  <2> QED
    BY <1>5, <1>6, ReachFacts DEF Chain
<1>8. Chain(id) \subseteq DOMAIN infos /\ \A b \in Chain(id) : b <= id
  BY <1>7
<1>9. \A b \in Chain(id) : infos[b].base \in Chain(id) \cup {0}
  BY <1>1, <1>7, <1>8 DEF Closed
<1> QED
  BY <1>7, <1>8, <1>9 DEF Closed, Numbered

Done(id) ==
    {b \in Chain(id) : Rooted(Chain(id)) /\ \A a \in Chain(id) : a <= b => a \in DOMAIN dirs}

(* The parts of the restored directory.                                    *)
LEMMA RestoreParts ==
    ASSUME TypeOK, Numbered, NEW id
    PROVE  /\ Done(id) \subseteq DOMAIN dirs /\ Done(id) \subseteq 1 .. made
           /\ Done(id) # {} => Max(Done(id)) \in Done(id) /\ \A b \in Done(id) : b <= Max(Done(id))
           /\ RestoreInto(id).ok = (Done(id) = Chain(id))
           /\ RestoreInto(id).files = OverlayIn(dirs, Done(id))
           /\ Done(id) # {} =>
                 /\ RestoreInto(id).manifest = dirs[Max(Done(id))].manifest
                 /\ RestoreInto(id).wal = [recs |-> dirs[Max(Done(id))].recs,
                                           flushed |-> dirs[Max(Done(id))].flushed]
           /\ RestoreInto(id).files \in Tables /\ RestoreInto(id).manifest \in Manifests
           /\ RestoreInto(id).wal \in Wals
<1>. DEFINE d == Done(id)
<1>1. Chain(id) \subseteq DOMAIN infos
  BY DEF Chain, Reach, Bases
<1>2. d \subseteq 1 .. made /\ made \in Nat
  BY <1>1 DEF Done, Numbered, TypeOK
<1>3. d \subseteq DOMAIN dirs
  <2>1. \A b \in d : b <= b
    BY <1>2
  <2> QED
    BY <2>1 DEF Done
<1>4. d # {} => Max(d) \in d /\ \A b \in d : b <= Max(d)
  <2>1. d \in SUBSET Nat /\ \A b \in d : b <= made
    BY <1>2
  <2>. HIDE DEF d
  <2> QED
    BY <1>2, <2>1, MaxFacts
<1>5. RestoreInto(id) =
        [ok |-> d = Chain(id), files |-> Overlay(d),
         manifest |-> IF d = {} THEN Empty ELSE dirs[Max(d)].manifest,
         wal |-> IF d = {} THEN NoWal ELSE [recs |-> dirs[Max(d)].recs,
                                            flushed |-> dirs[Max(d)].flushed]]
  BY DEF RestoreInto, Done
<1>6. Overlay(d) = OverlayIn(dirs, d)
  BY DEF Overlay, OverlayIn
<1>7. OverlayIn(dirs, d) \in Tables
  <2>1. \A b \in d : dirs[b].files \in Tables
    BY <1>3 DEF TypeOK, Dirs
  <2>2. d \in SUBSET Nat /\ \A b \in d : b <= made
    BY <1>2
  <2>. HIDE DEF d
  <2> QED
    BY <1>2, <2>1, <2>2, OverlayFacts
<1>. HIDE DEF d
<1>8. Empty \in Manifests /\ NoWal \in Wals
  BY DEF Empty, NoWal, Manifests, Wals
<1>9. d # {} => /\ dirs[Max(d)].manifest \in Manifests /\ dirs[Max(d)].recs \in SUBSET Nat
                /\ dirs[Max(d)].flushed \in SUBSET Nat
  BY <1>3, <1>4 DEF TypeOK, Dirs
<1>10. RestoreInto(id).manifest \in Manifests /\ RestoreInto(id).wal \in Wals
  BY <1>5, <1>8, <1>9 DEF Wals
<1>11. RestoreInto(id).ok = (d = Chain(id))
  BY <1>5
<1>12. /\ RestoreInto(id).files = OverlayIn(dirs, d)
       /\ d # {} =>
             /\ RestoreInto(id).manifest = dirs[Max(d)].manifest
             /\ RestoreInto(id).wal = [recs |-> dirs[Max(d)].recs, flushed |-> dirs[Max(d)].flushed]
  BY <1>5, <1>6
<1> QED
  BY <1>2, <1>3, <1>4, <1>7, <1>10, <1>11, <1>12 DEF d

-----------------------------------------------------------------------------
(* Types are kept.                                                         *)

(* The records of the initial state have their types.                      *)
LEMMA RecordTypes ==
    /\ Empty \in Manifests /\ NoWal \in Wals /\ NoJob \in Jobs /\ NoInfo \in Infos
    /\ NoPrior \in [id : Nat, writes : SUBSET Nat, from : SUBSET Flaws]
BY DEF Empty, NoWal, NoJob, NoInfo, NoPrior, Manifests, Wals, Jobs, Infos, Types

(* A call that has ended, and one that goes on to a deletion.              *)
LEMMA JobFields ==
    /\ NoJob.pc = "idle" /\ NoJob.target = 0 /\ NoJob.raced = FALSE
    /\ \A S : /\ [NoJob EXCEPT !.pc = "delete", !.todo = S].pc = "delete"
              /\ [NoJob EXCEPT !.pc = "delete", !.todo = S].todo = S
              /\ [NoJob EXCEPT !.pc = "delete", !.todo = S].target = 0
              /\ [NoJob EXCEPT !.pc = "delete", !.todo = S].raced = FALSE
BY DEF NoJob

(* A part of the directories is typed.                                     *)
LEMMA FewerDirs ==
    ASSUME TypeOK, NEW T \in SUBSET DOMAIN dirs, dirs' = Restrict(dirs, T)
    PROVE  dirs' \in [DOMAIN dirs' -> Dirs] /\ DOMAIN dirs' = T /\ \A d \in T : dirs'[d] = dirs[d]
BY RestrictFacts DEF TypeOK

(* A directory that is filled in.                                          *)
LEMMA UpdatedDir ==
    ASSUME TypeOK, NEW id \in DOMAIN dirs, NEW d \in Dirs, dirs' = [dirs EXCEPT ![id] = d]
    PROVE  /\ dirs' \in [DOMAIN dirs' -> Dirs] /\ DOMAIN dirs' = DOMAIN dirs /\ dirs'[id] = d
           /\ \A e \in DOMAIN dirs : e # id => dirs'[e] = dirs[e]
BY DEF TypeOK

(* The end of the process.                                                 *)
LEMMA GoDownType ==
    ASSUME TypeOK, GoDown, UNCHANGED <<written, made>>, upsets' \in Nat,
           prior' \in [id : Nat, writes : SUBSET Nat, from : SUBSET Flaws], torn' = torn
    PROVE  TypeOK'
<1>1. dirs' \in [DOMAIN dirs' -> Dirs]
  BY FewerDirs DEF GoDown
<1>2. infos' \in [DOMAIN infos' -> Infos] /\ listed' \subseteq DOMAIN infos'
  BY EmptyFunction DEF GoDown
<1>3. job' \in Jobs
  BY RecordTypes DEF GoDown
<1> QED
  BY <1>1, <1>2, <1>3 DEF GoDown, TypeOK

(* Finish, CopyTables and CopySegments fill in the directory.              *)
LEMMA BackupDir ==
    ASSUME TypeOK, Numbered, Listing, BackingUp
    PROVE  /\ job.id \in DOMAIN dirs /\ dirs[job.id] \in Dirs
           /\ Base \in DOMAIN infos \cup {0} /\ Base \in Nat
           /\ NewFiles \subseteq job.tables /\ NewFiles \subseteq Nat
           /\ LiveManifest \in Manifests /\ LiveWal \in Wals /\ FlawsOf \subseteq Flaws
<1>1. job.id \in DOMAIN dirs /\ dirs[job.id] \in Dirs
  BY DEF TypeOK, Listing
<1>2. Base \in DOMAIN infos \cup {0} /\ Base \in Nat
  BY DEF Base, TypeOK, Numbered
<1>3. NewFiles \subseteq job.tables /\ NewFiles \subseteq Nat
  BY DEF NewFiles, TypeOK, Jobs
<1>4. LiveManifest \in Manifests /\ LiveWal \in Wals
  BY RecordTypes DEF LiveManifest, LiveWal, TypeOK
<1>5. FlawsOf \subseteq Flaws
  BY DEF FlawsOf, Flaws
<1> QED
  BY <1>1, <1>2, <1>3, <1>4, <1>5

(* Every step keeps the types.                                             *)
LEMMA TypeStep ==
    ASSUME TypeOK, Numbered, Listing, Deleting, Complete,
           worker.pc = "compact" => Opens(files, manifest), Next
    PROVE  TypeOK'
<1>1. CASE Write
  <2>1. CASE degraded
    BY <1>1, <2>1, GoDownType DEF Write, history, TypeOK
  <2>2. CASE ~degraded
    <3>1. written' \in Nat /\ mem' \subseteq Nat /\ wal' \in Wals
      BY <1>1, <2>2, SMTT(40) DEF Write, TypeOK, Wals
    <3> QED
      BY <1>1, <2>2, <3>1 DEF Write, TypeOK, manager
  <2> QED
    BY <2>1, <2>2
<1>2. CASE Rotate
  BY <1>2 DEF Rotate, TypeOK, manager, history
<1>3. CASE ClearAll
  <2>1. files' \in Tables /\ manifest' \in Manifests /\ wal' \in Wals /\ mem' \subseteq Nat
    BY <1>3, TablesFacts, RecordTypes DEF ClearAll, Cleared
  <2>2. upsets' \in Nat
    BY <1>3 DEF ClearAll, TypeOK
  <2> QED
    BY <1>3, <2>1, <2>2 DEF ClearAll, TypeOK, manager
<1>4. ASSUME MarkRaced PROVE job' \in Jobs
  <2>1. BackingUp \in BOOLEAN
    BY DEF BackingUp
  <2>2. job' = [job EXCEPT !.raced = BackingUp]
    BY <1>4 DEF MarkRaced
  <2> QED
    BY <2>1, <2>2 DEF TypeOK, Jobs
<1>5. CASE FlushToSSTable
  <2>1. files' \in Tables
    <3>1. manifest.next \in Nat /\ imm \in SUBSET Nat /\ DOMAIN files \subseteq Nat
          /\ \A n \in DOMAIN files : files[n] \in SUBSET Nat
      BY TablesFacts DEF TypeOK, Manifests
    <3>2. files' = With(files, manifest.next, imm)
      BY <1>5 DEF FlushToSSTable
    <3>3. files' \in [DOMAIN files \cup {manifest.next} -> SUBSET Nat]
      BY <3>1, <3>2, WithFacts
    <3>4. DOMAIN files \cup {manifest.next} \in SUBSET Nat
      BY <3>1
    <3> QED
      BY <3>3, <3>4, TablesFacts
  <2>2. manifest' \in Manifests
    BY <1>5 DEF FlushToSSTable, TypeOK, Manifests
  <2>3. worker' \in [pc : {"idle", "wal", "compact"}, tab : SUBSET Nat] /\ imm' \subseteq Nat
    BY <1>5 DEF FlushToSSTable, TypeOK
  <2> QED
    BY <1>4, <1>5, <2>1, <2>2, <2>3 DEF FlushToSSTable, WorkerStep, TypeOK, manager, history
<1>6. CASE MemtableFlushed
  <2>1. wal' \in Wals
    <3>1. wal.recs \subseteq Nat /\ wal.flushed \subseteq Nat
      BY DEF TypeOK, Wals
    <3>2. wal' = [wal EXCEPT !.flushed = {r \in wal.recs : \E t \in worker.tab : r <= t} \cup @]
      BY <1>6 DEF MemtableFlushed
    <3>3. {r \in wal.recs : \E t \in worker.tab : r <= t} \cup wal.flushed \in SUBSET Nat
      BY <3>1
    <3> QED
      BY <3>1, <3>2, <3>3 DEF TypeOK, Wals
  <2>2. worker' \in [pc : {"idle", "wal", "compact"}, tab : SUBSET Nat]
    BY <1>6 DEF MemtableFlushed
  <2> QED
    BY <1>6, <2>1, <2>2 DEF MemtableFlushed, WorkerStep, TypeOK, manager, history
<1>7. CASE Compact
  <2>1. worker' \in [pc : {"idle", "wal", "compact"}, tab : SUBSET Nat]
    BY <1>7 DEF Compact, TypeOK
  <2>2. /\ manifest.next \in Nat /\ DOMAIN files \subseteq Nat
        /\ \A n \in DOMAIN files : files[n] \in SUBSET Nat
    BY TablesFacts DEF TypeOK, Manifests
  <2>3. CASE UNCHANGED <<files, manifest, job>>
    BY <1>7, <2>1, <2>3 DEF Compact, WorkerStep, TypeOK, manager, history
  <2>4. CASE /\ MarkRaced
             /\ files' = With(Restrict(files, DOMAIN files \ manifest.names), manifest.next,
                              UNION {files[n] : n \in manifest.names})
             /\ manifest' = [names |-> {manifest.next}, next |-> manifest.next + 1]
    <3>1. manifest' \in Manifests
      BY <2>2, <2>4 DEF Manifests
    <3>. DEFINE g == Restrict(files, DOMAIN files \ manifest.names)
                u == UNION {files[n] : n \in manifest.names}
    <3>2. DOMAIN g = DOMAIN files \ manifest.names /\ \A x \in DOMAIN g : g[x] \in SUBSET Nat
      BY <2>2, RestrictFacts
    <3>3. u \in SUBSET Nat
      BY <1>7, <2>2 DEF Compact, Opens
    <3>. HIDE DEF g, u
    <3>4. files' \in [DOMAIN g \cup {manifest.next} -> SUBSET Nat]
      <4>1. files' = With(g, manifest.next, u)
        BY <2>4 DEF g, u
      <4> QED
        BY <3>2, <3>3, <4>1, WithFacts
    <3>5. DOMAIN g \cup {manifest.next} \in SUBSET Nat
      BY <2>2, <3>2
    <3>6. files' \in Tables
      BY <3>4, <3>5, TablesFacts
    <3> QED
      BY <1>4, <1>7, <2>1, <2>4, <3>1, <3>6 DEF Compact, WorkerStep, TypeOK, manager, history
  <2> QED
    BY <1>7, <2>3, <2>4 DEF Compact
<1>8. ASSUME NEW type \in Types, NEW target \in Nat, BeginBackup(type, target) PROVE TypeOK'
  <2>1. made' \in Nat
    BY <1>8 DEF BeginBackup, TypeOK
  <2>2. LiveManifest \in Manifests
    BY RecordTypes DEF LiveManifest, TypeOK
  <2>3. job' \in Jobs
    <3>1. job' = NewJob(type, target)
      BY <1>8 DEF BeginBackup
    <3>2. NewJob(type, target) \in Jobs
      <4>1. made + 1 \in Nat /\ LiveManifest.next \in Nat /\ LiveManifest.names \in SUBSET Nat
        BY <2>2 DEF Manifests, TypeOK
      <4>2. (IF type = "incremental" /\ last = 0 THEN "full" ELSE type) \in Types
        BY DEF Types
      <4> QED
        BY <4>1, <4>2, RecordTypes DEF NewJob, Jobs
    <3> QED
      BY <3>1, <3>2
  <2>. DEFINE d == [files |-> <<>>, recs |-> {}, flushed |-> {}, manifest |-> Empty, info |-> NoInfo,
                    taken |-> Contents(files, manifest, wal), flaws |-> {}]
  <2>4. d \in Dirs
    <3>1. Contents(files, manifest, wal) \in SUBSET Nat
      <4>1. \A n \in DOMAIN files : files[n] \in SUBSET Nat
        BY TablesFacts DEF TypeOK
      <4>. DEFINE u == UNION {files[n] : n \in manifest.names \cap DOMAIN files}
      <4>2. u \in SUBSET Nat
        BY <4>1
      <4>3. wal.recs \in SUBSET Nat
        BY DEF TypeOK, Wals
      <4>4. Contents(files, manifest, wal) = u \cup (wal.recs \ wal.flushed)
        BY DEF Contents
      <4>. HIDE DEF u
      <4> QED
        BY <4>2, <4>3, <4>4
    <3> QED
      BY <3>1, RecordTypes, TablesFacts DEF Dirs
  <2>5. dirs' = With(dirs, made + 1, d)
    BY <1>8 DEF BeginBackup
  <2>. HIDE DEF d
  <2>6. dirs' \in [DOMAIN dirs' -> Dirs]
    <3>1. \A x \in DOMAIN dirs : dirs[x] \in Dirs
      BY DEF TypeOK
    <3>2. DOMAIN dirs' = DOMAIN dirs \cup {made + 1}
      BY <2>5, WithFacts
    <3> QED
      BY <2>4, <2>5, <3>1, <3>2, WithFacts
  <2> QED
    BY <1>8, <2>1, <2>3, <2>6 DEF BeginBackup, TypeOK, store, manager
<1>9. ASSUME NEW type \in Types, CreateBackup(type) PROVE TypeOK'
  BY <1>8, <1>9 DEF CreateBackup
<1>10. CASE CopyTables
  <2>1. BackingUp
    BY <1>10 DEF CopyTables, BackingUp
  <2>2. CASE dirs' = Restrict(dirs, DOMAIN dirs \ Partial) /\ job' = NoJob
    <3>1. dirs' \in [DOMAIN dirs' -> Dirs]
      BY <2>2, FewerDirs
    <3> QED
      BY <1>10, <2>2, <3>1, RecordTypes DEF CopyTables, TypeOK, store, manager, history
  <2>3. CASE /\ dirs' = [dirs EXCEPT ![job.id].files = Restrict(files, NewFiles \cap DOMAIN files)]
             /\ job' = [job EXCEPT !.pc = "wal", !.tables = @ \cap DOMAIN files]
    <3>. DEFINE f == Restrict(files, NewFiles \cap DOMAIN files)
                d == [dirs[job.id] EXCEPT !.files = f]
    <3>1. f \in Tables
      <4>1. \A n \in DOMAIN files : files[n] \in SUBSET Nat
        BY TablesFacts DEF TypeOK
      <4>2. NewFiles \cap DOMAIN files \in SUBSET Nat
        BY <2>1, BackupDir
      <4>3. f \in [NewFiles \cap DOMAIN files -> SUBSET Nat]
        BY <4>1, RestrictFacts
      <4> QED
        BY <4>2, <4>3, TablesFacts
    <3>2. d \in Dirs
      <4>. HIDE DEF f
      <4> QED
        BY <2>1, <3>1, BackupDir DEF Dirs
    <3>3. dirs' = [dirs EXCEPT ![job.id] = d]
      BY <2>3
    <3>. HIDE DEF f, d
    <3>4. dirs' \in [DOMAIN dirs' -> Dirs]
      BY <2>1, <3>2, <3>3, BackupDir, UpdatedDir
    <3>5. job' \in Jobs
      BY <2>3 DEF TypeOK, Jobs
    <3> QED
      BY <1>10, <3>4, <3>5 DEF CopyTables, TypeOK, store, manager, history
  <2> QED
    BY <1>10, <2>2, <2>3 DEF CopyTables
<1>11. CASE CopySegments
  <2>1. BackingUp
    BY <1>11 DEF CopySegments, BackingUp
  <2>. DEFINE d == [dirs[job.id] EXCEPT !.recs = LiveWal.recs]
  <2>2. d \in Dirs
    BY <2>1, BackupDir DEF Dirs, Wals
  <2>3. dirs' = [dirs EXCEPT ![job.id] = d]
    BY <1>11 DEF CopySegments
  <2>. HIDE DEF d
  <2>4. dirs' \in [DOMAIN dirs' -> Dirs]
    BY <2>1, <2>2, <2>3, BackupDir, UpdatedDir
  <2>5. job' \in Jobs
    BY <1>11 DEF CopySegments, TypeOK, Jobs
  <2> QED
    BY <1>11, <2>4, <2>5 DEF CopySegments, TypeOK, store, manager, history
<1>12. CASE Finish
  <2>1. BackingUp
    BY <1>12 DEF Finish, BackingUp
  <2>. DEFINE info == [type |-> job.type, baseId |-> Base, base |-> Base, newFiles |-> NewFiles]
              m == [names |-> LiveManifest.names, next |-> job.next]
              d == [dirs[job.id] EXCEPT !.flushed = wal.flushed, !.info = info,
                        !.flaws = FlawsOf, !.manifest = m]
  <2>2. info \in Infos
    BY <2>1, BackupDir DEF Infos, TypeOK, Jobs
  <2>3. m \in Manifests /\ wal.flushed \in SUBSET Nat
    BY <2>1, BackupDir DEF Manifests, TypeOK, Jobs, Wals
  <2>4. dirs' = [dirs EXCEPT ![job.id] = d]
    BY <1>12 DEF Finish
  <2>5. AddBackup(info)
    BY <1>12 DEF Finish
  <2>6. d \in Dirs
    <3>. HIDE DEF info, m
    <3> QED
      BY <2>1, <2>2, <2>3, BackupDir DEF Dirs
  <2>. HIDE DEF info, m, d
  <2>7. dirs' \in [DOMAIN dirs' -> Dirs]
    BY <2>1, <2>4, <2>6, BackupDir, UpdatedDir
  <2>8. /\ infos' \in [DOMAIN infos' -> Infos] /\ DOMAIN infos' = DOMAIN infos \cup {job.id}
    <3>1. infos' = With(infos, job.id, info)
      BY <2>5 DEF AddBackup
    <3>2. \A b \in DOMAIN infos : infos[b] \in Infos
      BY DEF TypeOK
    <3>3. DOMAIN infos' = DOMAIN infos \cup {job.id}
      BY <3>1 DEF With
    <3>4. infos' \in [DOMAIN infos \cup {job.id} -> Infos]
      BY <2>2, <3>1, <3>2, WithFacts
    <3> QED
      BY <3>3, <3>4
  <2>9. listed' \subseteq DOMAIN infos' /\ last' \in DOMAIN infos' \cup {0}
    BY <2>5, <2>8 DEF AddBackup, TypeOK
  <2>10. entries' \in Seq(Nat)
    <3>1. job.id \in Nat /\ entries \in Seq(Nat)
      BY DEF TypeOK, Jobs
    <3> QED
      BY <2>5, <3>1, AppendProperties DEF AddBackup
  <2>11. job' \in Jobs
    <3>1. job' = NoJob \/ job' = [job EXCEPT !.pc = "clear"]
      BY <1>12 DEF Finish
    <3> QED
      BY <3>1, RecordTypes, ZenonT(60) DEF TypeOK, Jobs
  <2> QED
    BY <1>12, <2>7, <2>8, <2>9, <2>10, <2>11 DEF Finish, TypeOK, store, history
<1>13. ASSUME NEW id \in listed, RestoreFromBackup(id) PROVE TypeOK'
  <2>1. id \in Nat
    BY DEF TypeOK, Numbered
  <2>2. "full" \in Types /\ BeginBackup("full", id)
    BY <1>13 DEF RestoreFromBackup, Types
  <2> QED
    BY <1>8, <2>1, <2>2
<1>14. ASSUME NEW id \in listed, DeleteBackup(id) PROVE TypeOK'
  <2>1. {id} \in SUBSET Nat
    BY DEF TypeOK, Numbered
  <2>2. job' \in Jobs
    BY <1>14, <2>1, RecordTypes DEF DeleteBackup, Jobs
  <2> QED
    BY <1>14, <2>2 DEF DeleteBackup, TypeOK, store, manager, history
<1>15. ASSUME NEW id \in listed, CascadeDelete(id) PROVE TypeOK'
  <2>1. Dependents(id) \in SUBSET Nat
    BY DEF Dependents, TypeOK, Numbered
  <2>2. job' \in Jobs
    BY <1>15, <2>1, RecordTypes DEF CascadeDelete, Jobs
  <2> QED
    BY <1>15, <2>2 DEF CascadeDelete, TypeOK, store, manager, history
<1>16. CASE RestoreClear
  <2>1. files' \in Tables /\ manifest' \in Manifests /\ wal' \in Wals /\ mem' \subseteq Nat
    BY <1>16, TablesFacts, RecordTypes DEF RestoreClear, Cleared
  <2>2. job' \in Jobs
    BY <1>16 DEF RestoreClear, TypeOK, Jobs
  <2>3. prior' \in [id : Nat, writes : SUBSET Nat, from : SUBSET Flaws]
    <3>1. job.id \in Nat /\ dirs[job.id] \in Dirs /\ dirs[job.target] \in Dirs
      <4>1. job.id \in DOMAIN dirs /\ job.target \in DOMAIN dirs
        BY <1>16 DEF RestoreClear, Listing, Deleting, Complete, Good, Numbered, TypeOK
      <4> QED
        BY <4>1 DEF TypeOK, Jobs
    <3> QED
      BY <1>16, <3>1 DEF RestoreClear, Dirs
  <2> QED
    BY <1>16, <2>1, <2>2, <2>3 DEF RestoreClear, TypeOK, manager
<1>17. CASE RestoreBackup
  <2>. DEFINE r == RestoreInto(job.target)
              back == RestoreInto(job.id)
              to == IF r.ok THEN r ELSE [back EXCEPT !.files = Over(back.files, r.files)]
  <2>1. /\ r.files \in Tables /\ r.manifest \in Manifests /\ r.wal \in Wals
        /\ back.files \in Tables /\ back.manifest \in Manifests /\ back.wal \in Wals
    BY RestoreParts
  <2>2. files' = to.files /\ manifest' = to.manifest /\ wal' = to.wal
    BY <1>17 DEF RestoreBackup
  <2>3. back = [ok |-> back.ok, files |-> back.files, manifest |-> back.manifest, wal |-> back.wal]
    BY DEF RestoreInto
  <2>4. Over(back.files, r.files) \in Tables
    <3>. HIDE DEF r, back
    <3>1. /\ DOMAIN back.files \subseteq Nat /\ DOMAIN r.files \subseteq Nat
          /\ \A n \in DOMAIN back.files : back.files[n] \in SUBSET Nat
          /\ \A n \in DOMAIN r.files : r.files[n] \in SUBSET Nat
      BY <2>1, TablesFacts
    <3>2. Over(back.files, r.files) \in [DOMAIN back.files \cup DOMAIN r.files -> SUBSET Nat]
      BY <3>1, OverFacts
    <3>3. DOMAIN back.files \cup DOMAIN r.files \in SUBSET Nat
      BY <3>1
    <3> QED
      BY <3>2, <3>3, TablesFacts
  <2>5. files' \in Tables /\ manifest' \in Manifests /\ wal' \in Wals
    <3>1. CASE r.ok
      BY <2>1, <2>2, <3>1
    <3>2. CASE ~r.ok
      <4>1. to = [back EXCEPT !.files = Over(back.files, r.files)]
        BY <3>2
      <4>. HIDE DEF r, back, to
      <4>2. /\ to.files = Over(back.files, r.files) /\ to.manifest = back.manifest
            /\ to.wal = back.wal
        BY <2>3, <4>1
      <4> QED
        BY <2>1, <2>2, <2>4, <4>2
    <3> QED
      BY <3>1, <3>2
  <2>6. job' \in Jobs
    <3>1. \/ job' = [job EXCEPT !.pc = "reinitialize"]
          \/ job' = [NoJob EXCEPT !.pc = "delete", !.todo = {job.id}]
      BY <1>17 DEF RestoreBackup
    <3>2. {job.id} \in SUBSET Nat
      BY DEF TypeOK, Jobs
    <3> QED
      BY <3>1, <3>2, RecordTypes, ZenonT(60) DEF TypeOK, Jobs
  <2> QED
    BY <1>17, <2>5, <2>6 DEF RestoreBackup, TypeOK, manager, history
<1>18. CASE Reinitialize
  <2>1. prior' \in [id : Nat, writes : SUBSET Nat, from : SUBSET Flaws]
    BY <1>18, RecordTypes DEF Reinitialize, TypeOK
  <2>2. CASE Opens(files, manifest)
    <3>1. mem' \subseteq Nat
      BY <1>18, <2>2 DEF Reinitialize, TypeOK, Wals
    <3>2. job' \in Jobs
      <4>1. job' = NoJob \/ job' = [NoJob EXCEPT !.pc = "delete", !.todo = {job.id}]
        BY <1>18, <2>2 DEF Reinitialize
      <4>2. {job.id} \in SUBSET Nat
        BY DEF TypeOK, Jobs
      <4> QED
        BY <4>1, <4>2, RecordTypes, ZenonT(60) DEF Jobs
    <3> QED
      BY <1>18, <2>1, <2>2, <3>1, <3>2 DEF Reinitialize, TypeOK, manager
  <2>3. CASE ~Opens(files, manifest)
    BY <1>18, <2>1, <2>3, GoDownType DEF Reinitialize, TypeOK
  <2> QED
    BY <2>2, <2>3
<1>19. CASE DeleteDirectory
  <2>1. PICK id \in job.todo : /\ dirs' = Restrict(dirs, DOMAIN dirs \ {id}) /\ torn' = id
                               /\ job' = [job EXCEPT !.pc = "unlist", !.id = id]
    BY <1>19 DEF DeleteDirectory
  <2>2. id \in Nat
    BY DEF TypeOK, Jobs
  <2>3. dirs' \in [DOMAIN dirs' -> Dirs]
    BY <2>1, FewerDirs
  <2>4. job' \in Jobs
    BY <2>1, <2>2 DEF TypeOK, Jobs
  <2>5. prior' \in [id : Nat, writes : SUBSET Nat, from : SUBSET Flaws]
    BY <1>19, RecordTypes DEF DeleteDirectory, TypeOK
  <2> QED
    BY <1>19, <2>1, <2>2, <2>3, <2>4, <2>5 DEF DeleteDirectory, TypeOK, store, manager
<1>20. CASE RemoveBackup
  <2>. DEFINE S == (listed \ {job.id}) \cup {last}
  <2>1. DOMAIN Bases = DOMAIN infos /\ \A b \in DOMAIN infos : Bases[b] = infos[b].base
    BY DEF Bases
  <2>2. Closed(DOMAIN infos, S, Bases)
    <3>1. S \subseteq DOMAIN infos \cup {0}
      BY DEF TypeOK
    <3>2. \A b \in DOMAIN infos : Bases[b] \in DOMAIN infos \cup {0}
      BY <2>1 DEF Numbered
    <3>. HIDE DEF S
    <3> QED
      BY <3>1, <3>2 DEF Closed
  <2>3. Reach(S, Bases) \subseteq DOMAIN infos /\ Closed(Reach(S, Bases), S, Bases)
    <3>. HIDE DEF S
    <3> QED
      BY <2>1, <2>2, ReachFacts
  <2>4. infos' = Restrict(infos, Reach(S, Bases))
    BY <1>20 DEF RemoveBackup
  <2>. DEFINE T == Reach(S, Bases)
  <2>5. infos' \in [DOMAIN infos' -> Infos] /\ DOMAIN infos' = T
    <3>. HIDE DEF T
    <3>1. infos' = [b \in T |-> infos[b]]
      BY <2>4 DEF T, Restrict
    <3>2. \A b \in T : infos[b] \in Infos
      BY <2>3 DEF TypeOK, T
    <3> QED
      BY <3>1, <3>2
  <2>6. listed' \subseteq DOMAIN infos' /\ last' \in DOMAIN infos' \cup {0}
    <3>1. listed' = listed \ {job.id} /\ last' = last /\ 0 \notin listed
      BY <1>20 DEF RemoveBackup, TypeOK, Numbered
    <3> QED
      BY <2>3, <2>5, <3>1 DEF Closed
  <2>7. entries' \in Seq(Nat)
    BY <1>20, RemoveFirstFacts DEF RemoveBackup, TypeOK
  <2>8. job' \in Jobs
    <3>1. job' = NoJob \/ job' = [job EXCEPT !.pc = "delete", !.todo = @ \ {job.id}]
      BY <1>20 DEF RemoveBackup
    <3>2. job.todo \ {job.id} \in SUBSET Nat
      BY DEF TypeOK, Jobs
    <3> QED
      BY <3>1, <3>2, RecordTypes, ZenonT(60) DEF TypeOK, Jobs
  <2> QED
    BY <1>20, <2>5, <2>6, <2>7, <2>8 DEF RemoveBackup, TypeOK, store
<1>21. CASE DeleteAllBackups
  <2>1. dirs' \in [DOMAIN dirs' -> Dirs] /\ infos' \in [DOMAIN infos' -> Infos]
    BY <1>21, EmptyFunction DEF DeleteAllBackups
  <2>2. entries' \in Seq(Nat)
    BY <1>21 DEF DeleteAllBackups
  <2> QED
    BY <1>21, <2>1, <2>2, RecordTypes DEF DeleteAllBackups, TypeOK, store
<1>22. CASE Crash
  BY <1>22, GoDownType, SMTT(40) DEF Crash, TypeOK
<1>23. CASE Restart
  <2>1. CASE status' = "stuck" /\ UNCHANGED <<infos, listed, last, mem>>
    BY <1>23, <2>1 DEF Restart, TypeOK, history
  <2>2. CASE status' # "stuck"
    <3>. DEFINE bs(e) == IF dirs[e].info.baseId \in ToSet(entries) THEN dirs[e].info.baseId ELSE 0
    <3>1. /\ ToSet(entries) \subseteq DOMAIN dirs /\ listed' = ToSet(entries) /\ status' = "up"
          /\ infos' = [e \in ToSet(entries) |-> [dirs[e].info EXCEPT !.base = bs(e)]]
          /\ last' = (IF entries = <<>> THEN 0 ELSE Last(entries))
          /\ mem' = wal.recs \ wal.flushed
      BY <1>23, <2>2 DEF Restart
    <3>2. \A e \in ToSet(entries) : dirs[e].info \in Infos
      BY <3>1 DEF TypeOK, Dirs
    <3>3. \A e \in ToSet(entries) : bs(e) \in Nat
      BY <3>2 DEF Infos
    <3>4. \A e \in ToSet(entries) : [dirs[e].info EXCEPT !.base = bs(e)] \in Infos
      <4>. HIDE DEF bs
      <4> QED
        BY <3>2, <3>3 DEF Infos
    <3>5. infos' \in [DOMAIN infos' -> Infos] /\ DOMAIN infos' = ToSet(entries)
      BY <3>1, <3>4
    <3>6. last' \in DOMAIN infos' \cup {0}
      <4>1. entries # <<>> => Last(entries) \in ToSet(entries)
        <5>1. entries \in Seq(Nat)
          BY DEF TypeOK
        <5> QED
          BY <5>1 DEF Last, ToSet
      <4> QED
        BY <3>1, <3>5, <4>1
    <3>7. mem' \subseteq Nat
      BY <3>1 DEF TypeOK, Wals
    <3> QED
      BY <1>23, <3>1, <3>5, <3>6, <3>7 DEF Restart, TypeOK, history
  <2> QED
    BY <1>23, <2>1, <2>2 DEF Restart
<1> QED
  BY <1>1, <1>2, <1>3, <1>5, <1>6, <1>7, <1>9, <1>10, <1>11, <1>12, <1>13, <1>14, <1>15, <1>16,
     <1>17, <1>18, <1>19, <1>20, <1>21, <1>22, <1>23 DEF Next

-----------------------------------------------------------------------------
(* The bookkeeping is kept.                                                *)

(* A step that changes the job only.                                       *)
LEMMA BooksFrame ==
    ASSUME Books, status = "up", UNCHANGED <<status, infos, listed, last, dirs, entries, made, torn>>,
           Listing', Deleting', Copied'
    PROVE  Books'
<1>1. Entered' = Entered /\ Good' = Good
  BY DEF Entered, Good
<1>2. Blank' /\ Numbered' /\ Agree'
  BY <1>1 DEF Books, Blank, Numbered, Agree, Orphan
<1>3. Complete'
  BY <1>1 DEF Books, Complete, Orphan
<1> QED
  BY <1>2, <1>3 DEF Books

(* The files a backup still has to copy depend on the memory only.         *)
LEMMA SameNewFiles ==
    ASSUME UNCHANGED <<infos, last>>, job'.type = job.type, job'.tables = job.tables
    PROVE  NewFiles' = NewFiles
<1>1. Base' = Base /\ Bases' = Bases
  BY DEF Base, Bases
<1>2. \A id : Chain(id)' = Chain(id)
  BY <1>1 DEF Chain, Reach
<1> QED
  BY <1>1, <1>2 DEF NewFiles, ContainsFile

(* A step of the store.                                                    *)
LEMMA StoreFrame ==
    ASSUME Books, status = "up", UNCHANGED <<status, infos, listed, last, dirs, entries, made, torn>>,
           job' = job \/ \E r \in BOOLEAN : job' = [job EXCEPT !.raced = r], job \in Jobs
    PROVE  Books'
<1>1. /\ job'.pc = job.pc /\ job'.id = job.id /\ job'.type = job.type /\ job'.tables = job.tables
      /\ job'.target = job.target /\ job'.todo = job.todo
  BY DEF Jobs
<1>2. NewFiles' = NewFiles
  BY <1>1, SameNewFiles
<1>3. Entered' = Entered /\ Partial' = Partial /\ BackingUp' = BackingUp
  BY <1>1 DEF Entered, Partial, BackingUp
<1>4. Listing' /\ Deleting' /\ Copied'
  BY <1>1, <1>2, <1>3 DEF Books, Listing, Deleting, Copied
<1> QED
  BY <1>4, BooksFrame

(* The process ends: the directory of an unfinished backup is forgotten.   *)
LEMMA GoDownBooks ==
    ASSUME TypeOK, Books, GoDown, UNCHANGED <<made, torn>>
    PROVE  Books'
<1>1. /\ status' = "down" /\ job' = NoJob /\ DOMAIN infos' = {} /\ listed' = {} /\ last' = 0
      /\ entries' = entries
  BY EmptyFunction DEF GoDown
<1>2. /\ DOMAIN dirs' = DOMAIN dirs \ Partial
      /\ \A d \in DOMAIN dirs \ Partial : dirs'[d] = dirs[d]
  BY FewerDirs DEF GoDown
<1>3. Entered' = Entered /\ Good' = Good /\ ~BackingUp'
  BY <1>1 DEF Entered, Good, BackingUp, NoJob
<1>4. \A e \in Entered : e \notin Partial
  BY DEF Partial, Books, Listing
<1>5. Blank'
  BY <1>1 DEF GoDown, Blank
<1>6. Numbered'
  BY <1>1, <1>2, <1>3 DEF Books, Numbered
<1>7. Listing'
  <2>1. job'.pc = "idle"
    BY <1>1 DEF NoJob
  <2> QED
    BY <1>1, <1>2, <1>3, <2>1 DEF Books, Listing
<1>8. Deleting'
  <2>1. job'.pc = "idle"
    BY <1>1 DEF NoJob
  <2> QED
    BY <1>1, <1>2, <1>3, <2>1 DEF Books, Deleting
<1>9. Complete'
  <2>1. \A e \in Good : e \in DOMAIN dirs' /\ dirs'[e] = dirs[e]
    BY <1>2, <1>4 DEF Books, Complete, Good
  <2>2. \A e \in Good : Orphan(e)' <=> Orphan(e)
    BY <2>1 DEF Orphan
  <2> QED
    BY <1>3, <2>1, <2>2 DEF Books, Complete
<1>10. Agree' /\ Copied'
  BY <1>1 DEF Agree, Copied, NoJob
<1> QED
  BY <1>5, <1>6, <1>7, <1>8, <1>9, <1>10 DEF Books

(* A backup begins: its directory is new.                                  *)
LEMMA BeginBooks ==
    ASSUME TypeOK, Books, Ready, NEW type \in Types, NEW target \in listed \cup {0},
           target # 0 => type = "full", BeginBackup(type, target)
    PROVE  Books'
<1>1. /\ made' = made + 1 /\ made \in Nat /\ status' = "up"
      /\ UNCHANGED <<infos, listed, last, entries, torn>>
  BY DEF BeginBackup, TypeOK, manager, Ready
<1>2. /\ job'.pc = "copy" /\ job'.id = made + 1 /\ job'.target = target
      /\ job'.type = IF type = "incremental" /\ last = 0 THEN "full" ELSE type
  BY DEF BeginBackup, NewJob, NoJob
<1>3. /\ DOMAIN dirs' = DOMAIN dirs \cup {made + 1}
      /\ \A d \in DOMAIN dirs : d # made + 1 => dirs'[d] = dirs[d]
  <2>. DEFINE d == [files |-> <<>>, recs |-> {}, flushed |-> {}, manifest |-> Empty,
                    info |-> NoInfo, taken |-> Contents(files, manifest, wal), flaws |-> {}]
  <2>1. dirs' = With(dirs, made + 1, d)
    BY DEF BeginBackup
  <2>. HIDE DEF d
  <2> QED
    BY <2>1 DEF With
<1>4. DOMAIN infos \cup DOMAIN dirs \cup Entered \subseteq 1 .. made
  BY DEF Books, Numbered
<1>5. Entered' = Entered /\ Good' = Good /\ BackingUp' /\ Partial' = {made + 1} /\ Partial = {}
  BY <1>1, <1>2 DEF Entered, Good, BackingUp, Partial, Ready
<1>6. made + 1 \notin DOMAIN infos \cup DOMAIN dirs \cup Entered
  BY <1>1, <1>4
<1>7. Blank' /\ Copied'
  BY <1>1, <1>2 DEF Blank, Copied
<1>8. Numbered'
  <2>1. DOMAIN infos' \cup DOMAIN dirs' \cup Entered' \subseteq 1 .. made'
    BY <1>1, <1>3, <1>4, <1>5
  <2> QED
    BY <1>1, <2>1 DEF Books, Numbered
<1>9. Listing'
  BY <1>1, <1>2, <1>3, <1>5, <1>6 DEF Books, Listing, Ready
<1>10. Deleting'
  BY <1>1, <1>2, <1>3, <1>5, <1>6 DEF Books, Deleting, Ready
<1>11. \A e \in Good : e \in DOMAIN dirs' /\ dirs'[e] = dirs[e]
  BY <1>3, <1>6 DEF Books, Complete, Good
<1>12. \A e \in Good : Orphan(e)' <=> Orphan(e)
  BY <1>11 DEF Orphan
<1>13. Complete'
  BY <1>5, <1>11, <1>12 DEF Books, Complete
<1>14. Agree'
  BY <1>1, <1>11, <1>12 DEF Books, Agree, Listing, Good, Ready
<1> QED
  BY <1>7, <1>8, <1>9, <1>10, <1>13, <1>14 DEF Books

(* The directory of the backup under way changes, no other one.            *)
LEMMA CopyFrame ==
    ASSUME TypeOK, Books, status = "up", BackingUp,
           UNCHANGED <<status, infos, listed, last, entries, made, torn>>,
           \A e \in DOMAIN dirs : e # job.id => e \in DOMAIN dirs' /\ dirs'[e] = dirs[e],
           DOMAIN dirs' \subseteq DOMAIN dirs, Listing', Copied', job'.pc \in {"idle", "wal", "finish"}
    PROVE  Books'
<1>1. Entered' = Entered /\ Good' = Good
  BY DEF Entered, Good
<1>2. \A e \in Good : e \in DOMAIN dirs' /\ dirs'[e] = dirs[e]
  BY DEF Books, Complete, Listing, Good
<1>3. \A e \in Good : Orphan(e)' <=> Orphan(e)
  BY <1>2 DEF Orphan
<1>4. Complete'
  BY <1>1, <1>2, <1>3 DEF Books, Complete
<1>5. Agree'
  BY <1>2, <1>3 DEF Books, Agree, Listing, Good
<1>6. Numbered'
  BY <1>1 DEF Books, Numbered
<1>7. Deleting'
  BY <1>1 DEF Books, Deleting, BackingUp
<1>8. Blank'
  BY DEF Blank
<1> QED
  BY <1>4, <1>5, <1>6, <1>7, <1>8 DEF Books

(* The tables and the segments are copied.                                 *)
LEMMA CopyBooks ==
    ASSUME TypeOK, Books, CopyTables \/ CopySegments
    PROVE  Books'
<1>1. /\ BackingUp /\ status = "up"
      /\ UNCHANGED <<status, infos, listed, last, entries, made, torn>>
  BY DEF CopyTables, CopySegments, BackingUp, manager, history
<1>2. Entered' = Entered /\ Partial = {job.id}
  BY <1>1 DEF Entered, Partial
<1>3. Numbered /\ Listing
  BY DEF Books
<1>4. /\ job.id \in DOMAIN dirs /\ dirs[job.id] \in Dirs
  BY <1>1, <1>3, BackupDir
<1>5. CASE dirs' = Restrict(dirs, DOMAIN dirs \ Partial) /\ job' = NoJob
  <2>1. /\ DOMAIN dirs' = DOMAIN dirs \ {job.id}
        /\ \A e \in DOMAIN dirs \ {job.id} : dirs'[e] = dirs[e]
    BY <1>2, <1>5, FewerDirs
  <2>2. job'.pc = "idle"
    BY <1>5 DEF NoJob
  <2>3. Listing'
    BY <1>1, <1>2, <2>1, <2>2 DEF Books, Listing, BackingUp, Partial
  <2>4. Copied'
    BY <2>2 DEF Copied
  <2> QED
    BY <1>1, <2>1, <2>2, <2>3, <2>4, CopyFrame
<1>6. ASSUME NEW d \in Dirs, dirs' = [dirs EXCEPT ![job.id] = d],
             job'.pc \in {"wal", "finish"}, job'.id = job.id, job'.type = job.type,
             job'.target = job.target, DOMAIN d.files = NewFiles'
      PROVE  Books'
  <2>1. /\ DOMAIN dirs' = DOMAIN dirs /\ dirs'[job.id] = d
        /\ \A e \in DOMAIN dirs : e # job.id => dirs'[e] = dirs[e]
    BY <1>4, <1>6, UpdatedDir
  <2>2. BackingUp' /\ Partial' = Partial
    BY <1>2, <1>6 DEF BackingUp, Partial
  <2>3. Listing'
    BY <1>1, <1>2, <1>6, <2>1, <2>2 DEF Books, Listing
  <2>4. Copied'
    BY <1>6, <2>1 DEF Copied
  <2> QED
    BY <1>1, <1>6, <2>1, <2>3, <2>4, CopyFrame
<1>7. CASE /\ dirs' = [dirs EXCEPT ![job.id].files = Restrict(files, NewFiles \cap DOMAIN files)]
           /\ job' = [job EXCEPT !.pc = "wal", !.tables = @ \cap DOMAIN files]
  <2>. DEFINE f == Restrict(files, NewFiles \cap DOMAIN files)
              d == [dirs[job.id] EXCEPT !.files = f]
  <2>1. DOMAIN f = NewFiles \cap DOMAIN files
    BY RestrictFacts
  <2>2. /\ job'.pc = "wal" /\ job'.id = job.id /\ job'.type = job.type /\ job'.target = job.target
        /\ job'.tables = job.tables \cap DOMAIN files
    BY <1>7 DEF TypeOK, Jobs
  <2>3. f \in Tables
    <3>1. \A n \in DOMAIN files : files[n] \in SUBSET Nat
      BY TablesFacts DEF TypeOK
    <3>2. NewFiles \cap DOMAIN files \in SUBSET Nat
      BY <1>1, <1>3, BackupDir
    <3>3. f \in [NewFiles \cap DOMAIN files -> SUBSET Nat]
      BY <3>1, RestrictFacts
    <3> QED
      BY <3>2, <3>3, TablesFacts
  <2>4. dirs' = [dirs EXCEPT ![job.id] = d]
    BY <1>7
  <2>. HIDE DEF f
  <2>5. d \in Dirs /\ d.files = f
    BY <1>4, <2>3 DEF Dirs
  <2>6. NewFiles' = NewFiles \cap DOMAIN files
    <3>1. Base' = Base /\ Bases' = Bases
      BY <1>1, <2>2 DEF Base, Bases
    <3>2. \A id : Chain(id)' = Chain(id)
      BY <3>1 DEF Chain, Reach
    <3> QED
      BY <1>1, <2>2, <3>1, <3>2 DEF NewFiles, ContainsFile
  <2>. HIDE DEF d
  <2> QED
    BY <1>6, <2>1, <2>2, <2>4, <2>5, <2>6
<1>8. CASE CopySegments
  <2>. DEFINE d == [dirs[job.id] EXCEPT !.recs = LiveWal.recs]
  <2>1. d \in Dirs /\ d.files = dirs[job.id].files
    BY <1>1, <1>3, BackupDir DEF Dirs, Wals
  <2>2. /\ job.pc = "wal" /\ job'.pc = "finish" /\ job'.id = job.id /\ job'.type = job.type
        /\ job'.target = job.target /\ job'.tables = job.tables
        /\ dirs' = [dirs EXCEPT ![job.id] = d]
    BY <1>8 DEF CopySegments, TypeOK, Jobs
  <2>. HIDE DEF d
  <2>3. NewFiles' = NewFiles
    BY <1>1, <2>2, SameNewFiles
  <2> QED
    BY <1>6, <2>1, <2>2, <2>3 DEF Books, Copied
<1> QED
  BY <1>5, <1>7, <1>8 DEF CopyTables

(* A backup is entered: it is complete, and its base is an older one.      *)
LEMMA FinishBooks ==
    ASSUME TypeOK, Books, Finish
    PROVE  Books'
<1>. DEFINE info == [type |-> job.type, baseId |-> Base, base |-> Base, newFiles |-> NewFiles]
<1>a. PICK id : id = job.id
  OBVIOUS
<1>b. PICK base : base = Base
  OBVIOUS
<1>1. /\ status = "up" /\ job.pc = "finish" /\ BackingUp /\ status' = "up"
      /\ UNCHANGED <<made, torn, degraded, imm, worker>>
  BY DEF Finish, BackingUp, history, store
<1>2. /\ id = made /\ id \in DOMAIN dirs /\ id \notin Entered /\ id \notin DOMAIN infos
      /\ torn = 0 /\ listed = Entered /\ made \in Nat /\ Numbered /\ Listing
      /\ job.type = "incremental" => last # 0
      /\ job.target \in listed \cup {0} /\ (job.target # 0 => job.type = "full")
      /\ Partial = {id}
  BY <1>1, <1>a DEF Books, Listing, Deleting, TypeOK, Partial
<1>3. /\ Base \in DOMAIN infos \cup {0} /\ Base \in Nat /\ NewFiles \subseteq Nat
      /\ dirs[id] \in Dirs
  BY <1>1, <1>2, <1>a, BackupDir
<1>4. DOMAIN infos \cup DOMAIN dirs \cup Entered \subseteq 1 .. made
  BY <1>2 DEF Numbered
<1>5. Base < id /\ (job.type = "incremental" <=> Base # 0)
  BY <1>2, <1>3, <1>4 DEF Base
<1>6. job.type \in Types
  BY DEF TypeOK, Jobs
<1>7. /\ DOMAIN dirs' = DOMAIN dirs /\ \A e \in DOMAIN dirs : e # id => dirs'[e] = dirs[e]
      /\ dirs'[id].info = info /\ dirs'[id].flaws = FlawsOf
      /\ dirs'[id].files = dirs[id].files
  BY <1>2, <1>3, <1>a DEF Finish, TypeOK, Dirs
<1>8. infos' = With(infos, id, info) /\ listed' = listed \cup {id}
      /\ last' = (IF info.type = "checkpoint" THEN last ELSE id) /\ entries' = Append(entries, id)
  BY <1>a DEF Finish, AddBackup
<1>9. /\ info.type = job.type /\ info.baseId = Base /\ info.base = Base
      /\ info.newFiles = NewFiles
  OBVIOUS
<1>. HIDE DEF info
<1>10. DOMAIN infos' = DOMAIN infos \cup {id} /\ infos'[id] = info
       /\ \A b \in DOMAIN infos : infos'[b] = infos[b]
  BY <1>2, <1>8 DEF With
<1>11. Entered' = Entered \cup {id}
  <2>1. entries \in Seq(Nat) /\ id \in Nat
    BY <1>a DEF TypeOK, Jobs
  <2> QED
    BY <1>8, <2>1, AppendElements DEF Entered
<1>12. Good = Entered /\ Good' = Entered \cup {id}
  BY <1>1, <1>2, <1>4, <1>11 DEF Good
<1>13. DOMAIN dirs[id].files = NewFiles
  BY <1>1, <1>a DEF Books, Copied
<1>14. "orphan" \in FlawsOf <=> Base # 0 /\ (Base \notin listed \/ Orphan(Base))
  BY DEF FlawsOf, Orphan
<1>15. Numbered'
  <2>1. DOMAIN infos' \cup DOMAIN dirs' \cup Entered' \subseteq 1 .. made'
    BY <1>1, <1>2, <1>4, <1>7, <1>10, <1>11
  <2>2. \A i, j \in 1 .. Len(entries') : entries'[i] = entries'[j] => i = j
    <3>1. entries \in Seq(Nat) /\ id \in Nat
      BY <1>a DEF TypeOK, Jobs
    <3>2. Len(entries') = Len(entries) + 1 /\ entries'[Len(entries) + 1] = id
          /\ \A i \in 1 .. Len(entries) : entries'[i] = entries[i]
      BY <1>8, <3>1
    <3>3. \A i \in 1 .. Len(entries) : entries[i] # id
      BY <1>2, <3>1 DEF Entered, ToSet
    <3>4. \A i, j \in 1 .. Len(entries) : entries[i] = entries[j] => i = j
      BY DEF Books, Numbered
    <3>5. Len(entries) \in Nat
      BY <3>1
    <3> QED
      BY <3>2, <3>3, <3>4, <3>5
  <2>3. \A b \in DOMAIN infos' : /\ infos'[b].base \in DOMAIN infos' \cup {0}
                                 /\ infos'[b].base < b /\ infos'[b].baseId < b
    BY <1>3, <1>5, <1>9, <1>10 DEF Books, Numbered
  <2> QED
    BY <2>1, <2>2, <2>3 DEF Numbered
<1>16. /\ job'.pc \in {"idle", "clear"}
       /\ job'.pc = "clear" => /\ job'.id = id /\ job'.type = job.type
                               /\ job'.target = job.target /\ job.target # 0
  BY <1>a DEF Finish, NoJob, TypeOK, Jobs
<1>17. Listing'
  <2>1. ~BackingUp'
    BY <1>16 DEF BackingUp
  <2>2. DOMAIN dirs' \subseteq Entered'
    BY <1>2, <1>7, <1>11 DEF Listing
  <2>3. job.target # 0 => job.target < id
    BY <1>2, <1>4
  <2>4. Entered' = listed' /\ (job'.pc = "clear" =>
           /\ job'.id = made' /\ job'.id \in listed' /\ job'.type = "full"
           /\ job'.target \in listed' /\ job'.target < job'.id)
    BY <1>1, <1>2, <1>8, <1>11, <1>16, <2>3
  <2> QED
    BY <1>16, <2>1, <2>2, <2>4 DEF Listing
<1>18. Deleting'
  BY <1>1, <1>2, <1>16 DEF Deleting
<1>19. \A e \in Good : e # id /\ e \in DOMAIN dirs' /\ dirs'[e] = dirs[e]
  BY <1>2, <1>7, <1>12 DEF Books, Complete
<1>20. \A e \in Good : Orphan(e)' <=> Orphan(e)
  BY <1>19 DEF Orphan
<1>21. Orphan(id)' <=> base # 0 /\ (base \notin listed \/ Orphan(base))
  BY <1>7, <1>14, <1>b DEF Orphan
<1>22. Complete'
  <2>1. ASSUME NEW e \in Good, NEW c, c = dirs[e].info.baseId
        PROVE  /\ e \in DOMAIN dirs'
               /\ dirs'[e].info.type # "none" /\ c < e
               /\ dirs'[e].info.type = "incremental" <=> c # 0
               /\ DOMAIN dirs'[e].files = dirs'[e].info.newFiles
               /\ c = 0 => ~Orphan(e)'
               /\ c \notin Good' \cup {0} => Orphan(e)'
               /\ c \in Good' => (Orphan(e)' <=> Orphan(c)')
    <3>1. c < e /\ e \in 1 .. made
      BY <1>4, <1>12, <2>1 DEF Books, Complete
    <3>2. e \in DOMAIN dirs
      BY DEF Books, Complete
    <3>3. c \in Nat
      BY <2>1, <3>2 DEF TypeOK, Dirs, Infos
    <3>4. c # id
      BY <1>2, <3>1, <3>3
    <3>5. c \in Good' <=> c \in Good
      BY <1>12, <3>4
    <3>6. dirs'[e] = dirs[e] /\ e \in DOMAIN dirs' /\ (Orphan(e)' <=> Orphan(e))
      BY <1>19, <1>20
    <3>7. c \in Good => (Orphan(c)' <=> Orphan(c))
      BY <1>20
    <3> QED
      BY <2>1, <3>1, <3>5, <3>6, <3>7 DEF Books, Complete
  <2>3. /\ id \in DOMAIN dirs'
        /\ dirs'[id].info.type # "none" /\ base < id
        /\ dirs'[id].info.type = "incremental" <=> base # 0
        /\ DOMAIN dirs'[id].files = dirs'[id].info.newFiles
    BY <1>2, <1>5, <1>6, <1>7, <1>9, <1>13, <1>b DEF Types
  <2>4. /\ base = 0 => ~Orphan(id)'
        /\ base \notin Good' \cup {0} => Orphan(id)'
        /\ base \in Good' => (Orphan(id)' <=> Orphan(base)')
    <3>1. base \in Good' => base \in Good /\ base # 0
      BY <1>2, <1>3, <1>4, <1>5, <1>12, <1>b
    <3> QED
      BY <1>2, <1>12, <1>20, <1>21, <3>1
  <2>5. ASSUME NEW e \in Good', NEW c, c = dirs'[e].info.baseId
        PROVE  /\ e \in DOMAIN dirs'
               /\ dirs'[e].info.type # "none" /\ c < e
               /\ dirs'[e].info.type = "incremental" <=> c # 0
               /\ DOMAIN dirs'[e].files = dirs'[e].info.newFiles
               /\ c = 0 => ~Orphan(e)'
               /\ c \notin Good' \cup {0} => Orphan(e)'
               /\ c \in Good' => (Orphan(e)' <=> Orphan(c)')
    <3>1. CASE e = id
      <4>1. c = base
        BY <1>7, <1>9, <1>b, <2>5, <3>1
      <4> QED
        BY <2>3, <2>4, <3>1, <4>1
    <3>2. CASE e # id
      <4>1. e \in Good /\ c = dirs[e].info.baseId
        BY <1>12, <1>19, <2>5, <3>2
      <4> QED
        BY <2>1, <4>1
    <3> QED
      BY <3>1, <3>2
  <2> QED
    BY <2>5 DEF Complete
<1>23. Agree'
  <2>1. \A b \in Good : /\ infos'[b] = infos[b] /\ dirs'[b] = dirs[b]
                        /\ Orphan(b)' <=> Orphan(b)
    BY <1>2, <1>10, <1>12, <1>19, <1>20 DEF TypeOK
  <2>2. /\ infos'[id].type = dirs'[id].info.type /\ infos'[id].baseId = dirs'[id].info.baseId
        /\ infos'[id].newFiles = dirs'[id].info.newFiles /\ infos'[id].base = infos'[id].baseId
    BY <1>7, <1>9, <1>10
  <2>3. \A b \in Good :
            /\ infos[b].type = dirs[b].info.type /\ infos[b].baseId = dirs[b].info.baseId
            /\ infos[b].newFiles = dirs[b].info.newFiles
            /\ infos[b].base = infos[b].baseId \/ (infos[b].base = 0 /\ Orphan(b))
    BY <1>1, <1>2, <1>12 DEF Books, Agree, Good
  <2>4. listed' \ {torn'} \subseteq Good \cup {id}
    BY <1>2, <1>8, <1>12
  <2> QED
    BY <2>1, <2>2, <2>3, <2>4 DEF Agree
<1>24. Blank' /\ Copied'
  BY <1>1, <1>16 DEF Blank, Copied
<1> QED
  BY <1>15, <1>17, <1>18, <1>22, <1>23, <1>24 DEF Books

(* The call ends, or goes on to delete backups no other one rests on.      *)
LEMMA JobBooks ==
    ASSUME TypeOK, Books, status = "up", ~BackingUp, job.pc # "unlist",
           UNCHANGED <<status, infos, listed, last, dirs, entries, made, torn>>,
           \/ job' = NoJob
           \/ \E S \in SUBSET listed :
                /\ \A b \in listed : infos[b].baseId \in S => b \in S
                /\ job' = [NoJob EXCEPT !.pc = "delete", !.todo = S]
    PROVE  Books'
<1>2. /\ job'.pc \in {"idle", "delete"}
      /\ job'.pc = "delete" => /\ job'.todo \subseteq listed
                               /\ \A b \in listed : infos[b].baseId \in job'.todo => b \in job'.todo
  <2>1. CASE job' = NoJob
    BY <2>1 DEF NoJob
  <2>2. ASSUME NEW S \in SUBSET listed, \A b \in listed : infos[b].baseId \in S => b \in S,
               job' = [NoJob EXCEPT !.pc = "delete", !.todo = S]
        PROVE  <1>2!:
    <3>1. job'.pc = "delete" /\ job'.todo = S
      BY <2>2 DEF NoJob
    <3> QED
      BY <2>2, <3>1
  <2> QED
    BY <2>1, <2>2
<1>1. ~BackingUp' /\ Partial' = {} /\ Partial = {}
  BY <1>2 DEF BackingUp, Partial
<1>3. Entered' = Entered
  BY DEF Entered
<1>4. Listing'
  BY <1>1, <1>2, <1>3 DEF Books, Listing
<1>5. Deleting'
  BY <1>1, <1>2, <1>3 DEF Books, Deleting
<1>6. Copied'
  BY <1>2 DEF Copied
<1> QED
  BY <1>4, <1>5, <1>6, BooksFrame

(* A deletion begins.                                                      *)
LEMMA DeleteBooks ==
    ASSUME TypeOK, Books, NEW id \in listed, DeleteBackup(id) \/ CascadeDelete(id)
    PROVE  Books'
<1>1. /\ status = "up" /\ job.pc = "idle"
      /\ UNCHANGED <<status, infos, listed, last, dirs, entries, made, torn>>
  BY DEF DeleteBackup, CascadeDelete, Ready, manager, history
<1>2. ~BackingUp
  BY <1>1 DEF BackingUp
<1>3. CASE DeleteBackup(id)
  <2>1. job' = [NoJob EXCEPT !.pc = "delete", !.todo = {id}] /\ \A b \in listed : infos[b].baseId # id
    BY <1>3 DEF DeleteBackup
  <2> QED
    BY <1>1, <1>2, <2>1, JobBooks
<1>4. CASE CascadeDelete(id)
  <2>1. PICK D : D = Dependents(id)
    OBVIOUS
  <2>2. D \subseteq listed
    BY <2>1 DEF Dependents
  <2>3. \A c \in listed : infos[c].baseId \in D => c \in D
    BY <2>1 DEF Dependents
  <2>4. job' = [NoJob EXCEPT !.pc = "delete", !.todo = D]
    BY <1>4, <2>1 DEF CascadeDelete
  <2> QED
    BY <1>1, <1>2, <2>2, <2>3, <2>4, JobBooks
<1> QED
  BY <1>3, <1>4

(* The steps of a restore.                                                 *)
LEMMA RestoreBooks ==
    ASSUME TypeOK, Books, RestoreClear \/ RestoreBackup \/ Reinitialize
    PROVE  Books'
<1>1. /\ status = "up" /\ job.pc \in {"clear", "restore", "reinitialize"} /\ UNCHANGED <<made, torn>>
      /\ ~BackingUp /\ Partial = {} /\ made \in Nat
  BY DEF RestoreClear, RestoreBackup, Reinitialize, BackingUp, Partial, history, TypeOK
<1>2. /\ job.id = made /\ job.id \in listed /\ job.type = "full"
      /\ job.target \in listed /\ job.target < job.id
  BY <1>1 DEF Books, Listing
<1>3. \A b \in listed : infos[b].baseId # job.id
  <2>1. ASSUME NEW b \in listed PROVE infos[b].baseId < b /\ b \in 1 .. made /\ infos[b].baseId \in Nat
    BY DEF Books, Numbered, TypeOK, Infos
  <2> QED
    BY <1>1, <1>2, <2>1
<1>4. CASE UNCHANGED <<status, infos, listed, last, dirs, entries>>
           /\ job' = [job EXCEPT !.pc = "restore"]
  <2>1. /\ job'.pc = "restore" /\ job'.id = job.id /\ job'.type = job.type
        /\ job'.target = job.target /\ ~BackingUp' /\ Partial' = {} /\ Entered' = Entered
    BY <1>4 DEF BackingUp, Partial, Entered, TypeOK, Jobs
  <2>2. Listing' /\ Deleting' /\ Copied'
    BY <1>1, <1>2, <1>4, <2>1 DEF Books, Listing, Deleting, Copied
  <2> QED
    BY <1>1, <1>4, <2>2, BooksFrame
<1>5. CASE UNCHANGED <<status, infos, listed, last, dirs, entries>>
           /\ job' = [job EXCEPT !.pc = "reinitialize"]
  <2>1. /\ job'.pc = "reinitialize" /\ job'.id = job.id /\ job'.type = job.type
        /\ job'.target = job.target /\ ~BackingUp' /\ Partial' = {} /\ Entered' = Entered
    BY <1>5 DEF BackingUp, Partial, Entered, TypeOK, Jobs
  <2>2. Listing' /\ Deleting' /\ Copied'
    BY <1>1, <1>2, <1>5, <2>1 DEF Books, Listing, Deleting, Copied
  <2> QED
    BY <1>1, <1>5, <2>2, BooksFrame
<1>6. CASE UNCHANGED <<status, infos, listed, last, dirs, entries>>
           /\ (job' = NoJob \/ job' = [NoJob EXCEPT !.pc = "delete", !.todo = {job.id}])
  <2>1. {job.id} \in SUBSET listed /\ \A b \in listed : infos[b].baseId \in {job.id} => b \in {job.id}
    BY <1>2, <1>3
  <2> QED
    BY <1>1, <1>6, <2>1, JobBooks
<1>7. CASE GoDown
  BY <1>1, <1>7, GoDownBooks
<1>8. RestoreClear => <1>4!1
  BY DEF RestoreClear, manager
<1>9. RestoreBackup => <1>5!1 \/ <1>6!1
  BY DEF RestoreBackup, manager
<1>10. Reinitialize => <1>6!1 \/ GoDown
  BY DEF Reinitialize, manager
<1> QED
  BY <1>4, <1>5, <1>6, <1>7, <1>8, <1>9, <1>10

(* A directory is deleted that no other listed backup rests on.            *)
LEMMA DirectoryBooks ==
    ASSUME TypeOK, Books, DeleteDirectory
    PROVE  Books'
<1>1. PICK id \in job.todo :
          /\ \A b \in job.todo : infos[b].baseId # id
          /\ dirs' = Restrict(dirs, DOMAIN dirs \ {id})
          /\ torn' = id
          /\ job' = [job EXCEPT !.pc = "unlist", !.id = id]
  BY DEF DeleteDirectory
<1>2. /\ status = "up" /\ job.pc = "delete"
      /\ UNCHANGED <<status, infos, listed, last, entries, made>>
  BY DEF DeleteDirectory, manager
<1>3. /\ torn = 0 /\ listed = Entered /\ Entered \subseteq 1 .. made /\ job.todo \subseteq listed
      /\ \A b \in listed : infos[b].baseId \in job.todo => b \in job.todo
      /\ Partial = {} /\ DOMAIN dirs \subseteq Entered
  BY <1>2 DEF Books, Listing, Deleting, Numbered, Partial, BackingUp
<1>4. Entered' = Entered /\ Good = Entered /\ Good' = Entered \ {id}
  BY <1>1, <1>2, <1>3 DEF Entered, Good
<1>5. \A b \in listed : infos[b].baseId # id
  BY <1>1, <1>3
<1>6. /\ DOMAIN dirs' = DOMAIN dirs \ {id}
      /\ \A e \in DOMAIN dirs \ {id} : dirs'[e] = dirs[e]
  BY <1>1, FewerDirs
<1>7. \A e \in Good' : e \in DOMAIN dirs' /\ dirs'[e] = dirs[e]
  BY <1>4, <1>6 DEF Books, Complete
<1>8. \A e \in Good' : Orphan(e)' <=> Orphan(e)
  BY <1>7 DEF Orphan
<1>9. \A e \in Good' : dirs[e].info.baseId # id
  BY <1>2, <1>3, <1>4, <1>5 DEF Books, Agree
<1>10. Complete'
  <2>1. ASSUME NEW e \in Good', NEW c, c = dirs[e].info.baseId
        PROVE  /\ e \in DOMAIN dirs'
               /\ dirs'[e].info.type # "none" /\ c < e
               /\ dirs'[e].info.type = "incremental" <=> c # 0
               /\ DOMAIN dirs'[e].files = dirs'[e].info.newFiles
               /\ c = 0 => ~Orphan(e)'
               /\ c \notin Good' \cup {0} => Orphan(e)'
               /\ c \in Good' => (Orphan(e)' <=> Orphan(c)')
    <3>1. c \in Good' <=> c \in Good
      BY <1>4, <1>9, <2>1
    <3>2. c \in Good' => (Orphan(c)' <=> Orphan(c))
      BY <1>8
    <3>3. e \in Good /\ dirs'[e] = dirs[e] /\ e \in DOMAIN dirs' /\ (Orphan(e)' <=> Orphan(e))
      BY <1>4, <1>7, <1>8
    <3> QED
      BY <2>1, <3>1, <3>2, <3>3 DEF Books, Complete
  <2> QED
    BY <1>7, <2>1 DEF Complete
<1>11. Agree'
  <2>1. listed' \ {torn'} = Good' /\ Good' \subseteq listed \ {torn} /\ infos' = infos
    BY <1>1, <1>2, <1>3, <1>4
  <2>2. ASSUME NEW b \in Good'
        PROVE  /\ infos'[b].type = dirs'[b].info.type /\ infos'[b].baseId = dirs'[b].info.baseId
               /\ infos'[b].newFiles = dirs'[b].info.newFiles
               /\ infos'[b].base = infos'[b].baseId \/ (infos'[b].base = 0 /\ Orphan(b)')
    <3>1. b \in listed \ {torn} /\ dirs'[b] = dirs[b] /\ (Orphan(b)' <=> Orphan(b))
      BY <1>7, <1>8, <2>1
    <3> QED
      BY <1>2, <2>1, <3>1 DEF Books, Agree
  <2> QED
    BY <2>1, <2>2 DEF Agree
<1>12. /\ job'.pc = "unlist" /\ job'.id = id /\ job'.todo = job.todo
       /\ ~BackingUp' /\ Partial' = {}
  BY <1>1 DEF TypeOK, Jobs, BackingUp, Partial
<1>13. Listing' /\ Copied'
  BY <1>2, <1>3, <1>4, <1>6, <1>12 DEF Books, Listing, Copied
<1>14. Deleting'
  BY <1>1, <1>2, <1>3, <1>4, <1>5, <1>6, <1>12 DEF Deleting
<1>15. Blank' /\ Numbered'
  BY <1>2, <1>4, <1>6 DEF Books, Blank, Numbered
<1> QED
  BY <1>10, <1>11, <1>13, <1>14, <1>15 DEF Books

(* The entry goes after its directory, and with it what is in memory only  *)
(* for its sake.                                                           *)
LEMMA UnlistBooks ==
    ASSUME TypeOK, Books, RemoveBackup
    PROVE  Books'
<1>1. PICK id : id = job.id
  OBVIOUS
<1>2. PICK R : R = Reach((listed \ {id}) \cup {last}, Bases)
  OBVIOUS
<1>3. /\ status = "up" /\ job.pc = "unlist" /\ listed' = listed \ {id}
      /\ infos' = Restrict(infos, R) /\ entries' = RemoveFirst(entries, id)
      /\ torn' = 0 /\ UNCHANGED <<status, last, dirs, made>>
  BY <1>1, <1>2 DEF RemoveBackup
<1>4. \/ job' = NoJob
      \/ job' = [job EXCEPT !.pc = "delete", !.todo = @ \ {id}]
  BY <1>1 DEF RemoveBackup
<1>5. /\ torn = id /\ id \in job.todo /\ job.todo \subseteq listed
      /\ \A b \in listed : infos[b].baseId \in job.todo => b \in job.todo
      /\ listed = Entered /\ id \notin DOMAIN dirs /\ Partial = {}
      /\ DOMAIN dirs \subseteq Entered /\ Entered \subseteq 1 .. made
  BY <1>1, <1>3 DEF Books, Deleting, Listing, Numbered, Partial, BackingUp
<1>6. /\ Entered' = Entered \ {id}
      /\ \A i, j \in 1 .. Len(entries') : entries'[i] = entries'[j] => i = j
  <2>1. entries \in Seq(Nat) /\ \A i, j \in 1 .. Len(entries) : entries[i] = entries[j] => i = j
    BY DEF TypeOK, Books, Numbered
  <2>2. /\ ToSet(RemoveFirst(entries, id)) = ToSet(entries) \ {id}
        /\ \A i, j \in 1 .. Len(RemoveFirst(entries, id)) :
              RemoveFirst(entries, id)[i] = RemoveFirst(entries, id)[j] => i = j
    BY <2>1, RemoveFirstDistinct
  <2> QED
    BY <1>3, <2>2 DEF Entered
<1>7. Good' = Good
  BY <1>3, <1>5, <1>6 DEF Good
<1>8. /\ R \subseteq DOMAIN infos /\ listed' \subseteq R
      /\ \A b \in R : infos[b].base \in R \cup {0}
  <2>1. DOMAIN Bases = DOMAIN infos /\ \A b \in DOMAIN infos : Bases[b] = infos[b].base
    BY DEF Bases
  <2>2. PICK S : S = (listed \ {id}) \cup {last}
    OBVIOUS
  <2>3. S \subseteq DOMAIN infos \cup {0}
    BY <2>2 DEF TypeOK
  <2>4. Closed(DOMAIN infos, S, Bases)
    BY <2>1, <2>3 DEF Closed, Books, Numbered
  <2>5. R \subseteq DOMAIN infos /\ Closed(R, S, Bases)
    BY <1>2, <2>1, <2>2, <2>4, ReachFacts
  <2>6. \A b \in R : infos[b].base \in R \cup {0}
    BY <2>1, <2>5 DEF Closed
  <2>7. 0 \notin listed
    BY <1>5
  <2>8. listed' \subseteq R
    BY <1>3, <2>2, <2>5, <2>7 DEF Closed
  <2> QED
    BY <2>5, <2>6, <2>8
<1>9. DOMAIN infos' = R /\ \A b \in R : infos'[b] = infos[b]
  BY <1>3, RestrictFacts
<1>10. Numbered'
  <2>1. DOMAIN infos' \cup DOMAIN dirs' \cup Entered' \subseteq 1 .. made'
    BY <1>3, <1>6, <1>8, <1>9 DEF Books, Numbered
  <2>2. \A b \in DOMAIN infos' : /\ infos'[b].base \in DOMAIN infos' \cup {0}
                                 /\ infos'[b].base < b /\ infos'[b].baseId < b
    BY <1>8, <1>9 DEF Books, Numbered
  <2> QED
    BY <1>6, <2>1, <2>2 DEF Numbered
<1>11. /\ job'.pc \in {"idle", "delete"}
       /\ job'.pc = "delete" => job'.todo = job.todo \ {id}
  <2>1. CASE job' = NoJob
    BY <2>1 DEF NoJob
  <2>2. CASE job' = [job EXCEPT !.pc = "delete", !.todo = @ \ {id}]
    BY <2>2 DEF TypeOK, Jobs
  <2> QED
    BY <1>4, <2>1, <2>2
<1>12. ~BackingUp' /\ Partial' = {}
  BY <1>11 DEF BackingUp, Partial
<1>13. Listing'
  BY <1>3, <1>5, <1>6, <1>11, <1>12 DEF Listing
<1>14. Deleting'
  <2>1. \A b \in listed' : infos'[b] = infos[b] /\ b \in listed
    BY <1>3, <1>8, <1>9
  <2>2. job'.pc = "delete" =>
           /\ job'.todo \subseteq listed'
           /\ \A b \in listed' : infos'[b].baseId \in job'.todo => b \in job'.todo
    BY <1>3, <1>5, <1>11, <2>1
  <2> QED
    BY <1>3, <1>11, <2>2 DEF Deleting
<1>15. \A e : Orphan(e)' <=> Orphan(e)
  BY <1>3 DEF Orphan
<1>16. Complete'
  BY <1>3, <1>7, <1>15 DEF Books, Complete
<1>17. Agree'
  <2>1. \A b \in listed' \ {torn'} : b \in listed \ {torn} /\ infos'[b] = infos[b]
    BY <1>3, <1>5, <1>8, <1>9
  <2>2. ASSUME NEW b \in listed' \ {torn'}
        PROVE  /\ infos'[b].type = dirs'[b].info.type /\ infos'[b].baseId = dirs'[b].info.baseId
               /\ infos'[b].newFiles = dirs'[b].info.newFiles
               /\ infos'[b].base = infos'[b].baseId \/ (infos'[b].base = 0 /\ Orphan(b)')
    BY <1>3, <1>15, <2>1 DEF Books, Agree
  <2> QED
    BY <2>2 DEF Agree
<1>18. Blank' /\ Copied'
  BY <1>3, <1>11 DEF Blank, Copied
<1> QED
  BY <1>10, <1>13, <1>14, <1>16, <1>17, <1>18 DEF Books

(* All backups are deleted at once.                                        *)
LEMMA DeleteAllBooks ==
    ASSUME TypeOK, Books, DeleteAllBackups
    PROVE  Books'
<1>1. /\ status = "up" /\ job.pc = "idle" /\ DOMAIN dirs' = {} /\ entries' = <<>> /\ listed' = {}
      /\ DOMAIN infos' = {} /\ UNCHANGED <<status, job, made, torn>>
  BY EmptyFunction DEF DeleteAllBackups, Ready
<1>2. torn = 0 /\ Entered' = {} /\ Good' = {} /\ ~BackingUp'
  BY <1>1 DEF Books, Deleting, Entered, Good, ToSet, BackingUp
<1>3. Blank' /\ Complete' /\ Agree' /\ Copied'
  BY <1>1, <1>2 DEF Blank, Complete, Agree, Copied
<1>4. Numbered'
  BY <1>1, <1>2 DEF Numbered
<1>5. Listing' /\ Deleting'
  BY <1>1, <1>2 DEF Listing, Deleting
<1> QED
  BY <1>3, <1>4, <1>5 DEF Books

(* The manager reads the directories; a start that fails changes nothing.  *)
LEMMA RestartBooks ==
    ASSUME TypeOK, Books, Restart
    PROVE  Books'
<1>1. status = "down" /\ UNCHANGED <<imm, worker, degraded, dirs, entries, job, made, torn>>
  BY DEF Restart, history
<1>2. /\ job = NoJob /\ DOMAIN infos = {} /\ listed = {} /\ last = 0 /\ job.pc = "idle"
  BY <1>1 DEF Books, Blank, NoJob
<1>3. Entered' = Entered /\ Good' = Good /\ Partial' = Partial /\ ~BackingUp'
  BY <1>1, <1>2 DEF Entered, Good, Partial, BackingUp
<1>4. \A e : Orphan(e)' <=> Orphan(e)
  BY <1>1 DEF Orphan
<1>5. Complete'
  BY <1>1, <1>3, <1>4 DEF Books, Complete
<1>6. Copied'
  BY <1>1, <1>2 DEF Copied
<1>7. CASE status' = "stuck" /\ UNCHANGED <<infos, listed, last>>
  <2>1. Blank' /\ Agree'
    BY <1>1, <1>2, <1>7 DEF Books, Blank, Agree
  <2>2. Numbered' /\ Listing' /\ Deleting'
    BY <1>1, <1>2, <1>3, <1>7 DEF Books, Numbered, Listing, Deleting
  <2> QED
    BY <1>5, <1>6, <2>1, <2>2 DEF Books
<1>8. CASE /\ Entered \subseteq DOMAIN dirs /\ status' = "up" /\ listed' = Entered
           /\ infos' = [e \in Entered |-> [dirs[e].info EXCEPT
                  !.base = IF dirs[e].info.baseId \in Entered THEN dirs[e].info.baseId ELSE 0]]
  <2>1. torn = 0 /\ Entered \subseteq 1 .. made
    BY <1>8 DEF Books, Deleting, Numbered
  <2>2. Good = Entered
    BY <2>1 DEF Good
  <2>3. \A e \in Entered : dirs[e].info \in Infos
    BY <1>8 DEF TypeOK, Dirs
  <2>4. /\ DOMAIN infos' = Entered
        /\ \A e \in Entered :
              /\ infos'[e].type = dirs[e].info.type /\ infos'[e].baseId = dirs[e].info.baseId
              /\ infos'[e].newFiles = dirs[e].info.newFiles
              /\ infos'[e].base =
                    IF dirs[e].info.baseId \in Entered THEN dirs[e].info.baseId ELSE 0
    BY <1>8, <2>3 DEF Infos
  <2>5. \A e \in Entered : /\ dirs[e].info.baseId < e
                           /\ dirs[e].info.baseId \notin Entered \cup {0} => Orphan(e)
    BY <2>2 DEF Books, Complete
  <2>6. Numbered'
    <3>1. DOMAIN infos' \cup DOMAIN dirs' \cup Entered' \subseteq 1 .. made'
      BY <1>1, <1>3, <2>4 DEF Books, Numbered
    <3>2. \A b \in DOMAIN infos' : /\ infos'[b].base \in DOMAIN infos' \cup {0}
                                   /\ infos'[b].base < b /\ infos'[b].baseId < b
      <4>1. ASSUME NEW b \in Entered
            PROVE  /\ infos'[b].base \in Entered \cup {0}
                   /\ infos'[b].base < b /\ infos'[b].baseId < b
        <5>1. b > 0 /\ dirs[b].info.baseId < b
          BY <2>1, <2>5
        <5> QED
          BY <2>4, <5>1
      <4> QED
        BY <2>4, <4>1
    <3> QED
      BY <1>1, <3>1, <3>2 DEF Books, Numbered
  <2>7. Listing' /\ Deleting'
    BY <1>1, <1>2, <1>3, <1>8, <2>1 DEF Books, Listing, Deleting
  <2>8. Agree' /\ Blank'
    BY <1>1, <1>4, <1>8, <2>1, <2>4, <2>5 DEF Agree, Blank
  <2> QED
    BY <1>5, <1>6, <2>6, <2>7, <2>8 DEF Books
<1> QED
  BY <1>7, <1>8 DEF Restart, Entered

(* Every step keeps the books.                                             *)
LEMMA BooksStep ==
    ASSUME TypeOK, Books, Next
    PROVE  Books'
<1>1. CASE ~degraded /\ Write
  <2>1. status = "up" /\ UNCHANGED <<status, infos, listed, last, dirs, entries, made, torn, job>>
    BY <1>1 DEF Write, Ready, manager
  <2> QED
    BY <2>1, StoreFrame DEF TypeOK
<1>2. CASE degraded /\ Write
  BY <1>2, GoDownBooks DEF Write, history
<1>3. CASE Rotate \/ ClearAll \/ MemtableFlushed
  <2>1. status = "up" /\ UNCHANGED <<status, infos, listed, last, dirs, entries, made, torn, job>>
    BY <1>3 DEF Rotate, ClearAll, MemtableFlushed, WorkerStep, Ready, manager, history
  <2> QED
    BY <2>1, StoreFrame DEF TypeOK
<1>4. CASE FlushToSSTable \/ Compact
  <2>1. /\ status = "up" /\ UNCHANGED <<status, infos, listed, last, dirs, entries, made, torn>>
        /\ job' = job \/ \E r \in BOOLEAN : job' = [job EXCEPT !.raced = r]
    <3>1. job' = job \/ MarkRaced
      BY <1>4 DEF FlushToSSTable, Compact
    <3>2. MarkRaced => \E r \in BOOLEAN : job' = [job EXCEPT !.raced = r]
      <4>1. BackingUp \in BOOLEAN
        BY DEF BackingUp
      <4> QED
        BY <4>1, Zenon DEF MarkRaced
    <3> QED
      BY <1>4, <3>1, <3>2 DEF FlushToSSTable, Compact, WorkerStep, manager, history
  <2> QED
    BY <2>1, StoreFrame DEF TypeOK
<1>5. CASE \E type \in Types : CreateBackup(type)
  <2>1. PICK type \in Types : CreateBackup(type)
    BY <1>5
  <2>2. Ready /\ BeginBackup(type, 0)
    BY <2>1 DEF CreateBackup
  <2> QED
    BY <2>2, BeginBooks
<1>6. CASE CopyTables \/ CopySegments
  BY <1>6, CopyBooks
<1>7. CASE Finish
  BY <1>7, FinishBooks
<1>8. CASE \E id \in listed : RestoreFromBackup(id) \/ DeleteBackup(id) \/ CascadeDelete(id)
  <2>1. PICK id \in listed : RestoreFromBackup(id) \/ DeleteBackup(id) \/ CascadeDelete(id)
    BY <1>8
  <2>2. CASE RestoreFromBackup(id)
    BY <2>2, BeginBooks DEF RestoreFromBackup, Types
  <2> QED
    BY <2>1, <2>2, DeleteBooks
<1>9. CASE RestoreClear \/ RestoreBackup \/ Reinitialize
  BY <1>9, RestoreBooks
<1>10. CASE DeleteDirectory \/ RemoveBackup \/ DeleteAllBackups
  BY <1>10, DirectoryBooks, UnlistBooks, DeleteAllBooks
<1>11. CASE Crash
  BY <1>11, GoDownBooks DEF Crash
<1>12. CASE Restart
  BY <1>12, RestartBooks
<1> QED
  BY <1>1, <1>2, <1>3, <1>4, <1>5, <1>6, <1>7, <1>8, <1>9, <1>10, <1>11, <1>12 DEF Next

-----------------------------------------------------------------------------
(* Chains on disk.                                                         *)

Sound == {e \in Good : ~Orphan(e)}

DiskBases == [d \in DOMAIN dirs |-> dirs[d].info.baseId]

DiskChain(e) == Reach({e}, DiskBases)

(* What a backup leads to is itself and what its base leads to.            *)
LEMMA ReachNext ==
    ASSUME NEW base, NEW A, A \subseteq DOMAIN base, \A a \in A : base[a] \in A \cup {0},
           NEW id \in A, id # 0
    PROVE  Reach({id}, base) = {id} \cup Reach({base[id]}, base)
<1>. DEFINE R == Reach({id}, base)
            Q == Reach({base[id]}, base)
<1>1. Closed(A, {id}, base) /\ Closed(A, {base[id]}, base)
  BY DEF Closed
<1>2. R \subseteq A /\ Closed(R, {id}, base) /\ Q \subseteq A /\ Closed(Q, {base[id]}, base)
  BY <1>1, ReachFacts
<1>. HIDE DEF R, Q
<1>3. Closed({id} \cup Q, {id}, base)
  BY <1>2 DEF Closed
<1>4. R \subseteq {id} \cup Q
  <2>1. {id} \cup Q \subseteq DOMAIN base
    BY <1>2
  <2> QED
    BY <1>3, <2>1, ReachFacts DEF R
<1>5. id \in R /\ Closed(R, {base[id]}, base)
  BY <1>2 DEF Closed
<1>6. Q \subseteq R
  <2>1. R \subseteq DOMAIN base
    BY <1>2
  <2> QED
    BY <1>5, <2>1, ReachFacts DEF Q
<1> QED
  BY <1>4, <1>5, <1>6 DEF R, Q

(* Nothing leads nowhere.                                                  *)
LEMMA ReachNothing ==
    ASSUME NEW base
    PROVE  Reach({0}, base) = {}
<1>1. Closed({}, {0}, base)
  BY DEF Closed
<1> QED
  BY <1>1, ReachFacts

(* The chain of a backup that is no orphan is on disk as a whole.          *)
LEMMA SoundFacts ==
    ASSUME TypeOK, Numbered, Complete
    PROVE  /\ Sound \subseteq DOMAIN dirs /\ Sound \subseteq 1 .. made
           /\ \A e \in Sound : DiskBases[e] = dirs[e].info.baseId /\ dirs[e].info.baseId \in Nat
           /\ \A e \in Sound : dirs[e].info.baseId \in Sound \cup {0} /\ dirs[e].info.baseId < e
           /\ \A e \in Sound : /\ DiskChain(e) \subseteq Sound /\ e \in DiskChain(e)
                               /\ \A b \in DiskChain(e) : b <= e
                               /\ DiskChain(e) = {e} \cup DiskChain(dirs[e].info.baseId)
<1>1. Sound \subseteq DOMAIN dirs /\ Sound \subseteq 1 .. made
  BY DEF Sound, Complete, Good, Numbered
<1>2. /\ DOMAIN DiskBases = DOMAIN dirs
      /\ \A e \in Sound : DiskBases[e] = dirs[e].info.baseId /\ dirs[e].info.baseId \in Nat
  BY <1>1 DEF DiskBases, TypeOK, Dirs, Infos
<1>3. \A e \in Sound : dirs[e].info.baseId \in Sound \cup {0} /\ dirs[e].info.baseId < e
  BY DEF Sound, Complete
<1>4. ASSUME NEW e \in Sound
      PROVE  /\ DiskChain(e) \subseteq Sound /\ e \in DiskChain(e)
             /\ \A b \in DiskChain(e) : b <= e
             /\ DiskChain(e) = {e} \cup DiskChain(dirs[e].info.baseId)
  <2>1. PICK A : A = {b \in Sound : b <= e}
    OBVIOUS
  <2>2. A \subseteq DOMAIN DiskBases /\ e \in A /\ e # 0
    BY <1>1, <1>2, <2>1
  <2>3. \A a \in A : DiskBases[a] \in A \cup {0}
    BY <1>1, <1>2, <1>3, <2>1
  <2>4. Closed(A, {e}, DiskBases)
    BY <2>2, <2>3 DEF Closed
  <2>5. DiskChain(e) \subseteq A
    BY <2>2, <2>4, ReachFacts DEF DiskChain
  <2>6. DiskChain(e) = {e} \cup DiskChain(DiskBases[e])
    BY <2>2, <2>3, ReachNext DEF DiskChain
  <2> QED
    BY <1>2, <2>1, <2>5, <2>6
<1> QED
  BY <1>1, <1>2, <1>3, <1>4

(* It is the chain in memory, and a restore of it is complete.             *)
LEMMA SoundRestores ==
    ASSUME TypeOK, Books, status = "up", torn = 0, NEW e \in Sound
    PROVE  /\ Chain(e) = DiskChain(e) /\ RestoreInto(e).ok
           /\ RestoreInto(e).files = OverlayIn(dirs, DiskChain(e))
           /\ RestoreInto(e).manifest = dirs[e].manifest
           /\ RestoreInto(e).wal = [recs |-> dirs[e].recs, flushed |-> dirs[e].flushed]
<1>1. Numbered /\ Complete /\ listed = Entered /\ Good \subseteq Entered /\ Good \subseteq listed
  BY DEF Books, Listing, Good
<1>2. /\ Sound \subseteq DOMAIN dirs /\ Sound \subseteq 1 .. made
      /\ \A b \in Sound : DiskBases[b] = dirs[b].info.baseId
      /\ \A b \in Sound : dirs[b].info.baseId \in Sound \cup {0}
      /\ DiskChain(e) \subseteq Sound /\ e \in DiskChain(e) /\ \A b \in DiskChain(e) : b <= e
  BY <1>1, SoundFacts
<1>3. \A b \in Sound : /\ b \in DOMAIN infos /\ infos[b].type = dirs[b].info.type
                       /\ infos[b].base = dirs[b].info.baseId
  BY <1>1 DEF TypeOK, Books, Agree, Sound, Good
<1>4. Chain(e) = DiskChain(e)
  <2>1. DOMAIN Bases = DOMAIN infos /\ \A b \in DOMAIN infos : Bases[b] = infos[b].base
    BY DEF Bases
  <2>2. DOMAIN DiskBases = DOMAIN dirs
    BY DEF DiskBases
  <2>3. \A b \in Sound : Bases[b] = DiskBases[b] /\ Bases[b] \in Sound \cup {0}
    BY <1>2, <1>3, <2>1
  <2>4. Sound \subseteq DOMAIN Bases /\ Sound \subseteq DOMAIN DiskBases /\ {e} \subseteq Sound \cup {0}
    BY <1>2, <1>3, <2>1, <2>2
  <2> QED
    BY <2>3, <2>4, ReachAgree DEF Chain, DiskChain
<1>5. Rooted(Chain(e))
  <2>1. \A b \in Sound : infos[b].type = "incremental" => infos[b].base # 0
    BY <1>1, <1>3 DEF Complete, Sound
  <2> QED
    BY <1>2, <1>4, <2>1 DEF Rooted
<1>6. Done(e) = Chain(e)
  BY <1>2, <1>4, <1>5 DEF Done
<1>7. Max(Done(e)) = e
  <2>1. Max(Done(e)) \in Done(e) /\ \A b \in Done(e) : b <= Max(Done(e))
    BY <1>1, <1>2, <1>4, <1>6, RestoreParts
  <2> QED
    BY <1>2, <1>4, <1>6, <2>1
<1>8. /\ RestoreInto(e).ok = (Done(e) = Chain(e))
      /\ RestoreInto(e).files = OverlayIn(dirs, Done(e))
      /\ RestoreInto(e).manifest = dirs[Max(Done(e))].manifest
      /\ RestoreInto(e).wal = [recs |-> dirs[Max(Done(e))].recs,
                               flushed |-> dirs[Max(Done(e))].flushed]
  BY <1>1, <1>2, <1>4, <1>6, RestoreParts
<1> QED
  BY <1>4, <1>6, <1>7, <1>8

(* The restore of an orphan fails.                                         *)
LEMMA OrphanFails ==
    ASSUME TypeOK, Books, status = "up", torn = 0, ~BackingUp, NEW e \in listed, RestoreInto(e).ok
    PROVE  e \in Sound
<1>1. Numbered /\ Complete /\ listed = Entered /\ DOMAIN dirs \subseteq Entered
  BY DEF Books, Listing, Partial
<1>2. Good = Entered /\ Entered \subseteq 1 .. made
  BY <1>1 DEF Good, Numbered
<1>3. /\ Chain(e) \subseteq DOMAIN infos /\ Chain(e) \subseteq 1 .. made /\ e \in Chain(e)
      /\ \A b \in Chain(e) : infos[b].base \in Chain(e) \cup {0}
  <2>1. e \in DOMAIN infos \cup {0} /\ e # 0
    BY <1>1, <1>2 DEF TypeOK
  <2> QED
    BY <1>1, <2>1, ChainFacts
<1>4. Done(e) = Chain(e)
  <2>1. RestoreInto(e).ok = (Done(e) = Chain(e))
    BY <1>1, RestoreParts
  <2> QED
    BY <2>1
<1>5. Rooted(Chain(e)) /\ Chain(e) \subseteq Good
  <2>1. Rooted(Chain(e))
    BY <1>3, <1>4 DEF Done
  <2>2. Done(e) \subseteq DOMAIN dirs
    BY <1>1, RestoreParts
  <2> QED
    BY <1>1, <1>2, <1>4, <2>1, <2>2
<1>6. \A b \in Chain(e) :
          /\ infos[b].type = dirs[b].info.type /\ infos[b].baseId = dirs[b].info.baseId
          /\ infos[b].base = infos[b].baseId \/ (infos[b].base = 0 /\ Orphan(b))
  <2>1. \A b \in Chain(e) : b \in listed \ {torn}
    BY <1>1, <1>2, <1>5
  <2> QED
    BY <2>1 DEF Books, Agree
<1>7. SUFFICES ASSUME Orphan(e) PROVE FALSE
  BY <1>3, <1>5 DEF Sound
<1>8. PICK T : T = {b \in Chain(e) : Orphan(b)}
  OBVIOUS
<1>9. \A b \in T : infos[b].base \in T \cup {0}
  <2>1. ASSUME NEW b \in T, infos[b].base # 0 PROVE infos[b].base \in T
    <3>1. b \in Good /\ infos[b].base = dirs[b].info.baseId
      BY <1>5, <1>6, <1>8, <2>1
    <3>2. infos[b].base \in Chain(e)
      BY <1>3, <1>8, <2>1
    <3> QED
      BY <1>1, <1>5, <1>8, <3>1, <3>2 DEF Complete
  <2> QED
    BY <2>1
<1>10. T # {} /\ T \in SUBSET Nat
  BY <1>3, <1>7, <1>8
<1>11. PICK m \in T : \A b \in T : m <= b
  BY <1>10, LeastElement
<1>12. infos[m].base < m /\ infos[m].base \in Nat
  BY <1>1, <1>3, <1>8, <1>11 DEF Numbered, TypeOK, Infos
<1>13. infos[m].base = 0
  BY <1>9, <1>10, <1>11, <1>12
<1>14. m \in Good /\ m \in Chain(e)
  BY <1>5, <1>8, <1>11
<1>15. dirs[m].info.type # "incremental"
  BY <1>5, <1>6, <1>13, <1>14 DEF Rooted
<1>16. dirs[m].info.baseId = 0 /\ ~Orphan(m)
  BY <1>1, <1>14, <1>15 DEF Complete
<1> QED
  BY <1>8, <1>11, <1>16

(* A step that leaves the directories of a chain alone leaves the chain.   *)
LEMMA ChainKept ==
    ASSUME TypeOK, Numbered, Complete, TypeOK', Numbered', Complete',
           \A e \in Good \cap Good' : dirs'[e] = dirs[e], NEW e \in Sound', e \in Good
    PROVE  /\ e \in Sound /\ DiskChain(e)' = DiskChain(e)
           /\ \A b \in DiskChain(e) : b \in Sound /\ dirs'[b] = dirs[b]
           /\ OverlayIn(dirs, DiskChain(e))' = OverlayIn(dirs, DiskChain(e))
<1>. DEFINE A == Sound \cap Sound'
<1>1. \A b \in Good \cap Good' : b \in Sound <=> b \in Sound'
  BY DEF Sound, Orphan
<1>2. e \in Sound /\ e \in A
  BY <1>1 DEF Sound
<1>3. A \subseteq DOMAIN DiskBases /\ A \subseteq DOMAIN DiskBases'
  BY SoundFacts DEF DiskBases, Sound, Complete
<1>4. \A b \in A : b \in Good \cap Good' /\ dirs'[b] = dirs[b]
  BY DEF Sound
<1>5. \A b \in A : DiskBases[b] = dirs[b].info.baseId /\ DiskBases'[b] = dirs'[b].info.baseId
  BY <1>3 DEF DiskBases
<1>6. \A b \in A : dirs[b].info.baseId \in Sound \cup {0}
  BY SoundFacts
<1>7. \A b \in A : dirs'[b].info.baseId \in Sound' \cup {0}
  BY DEF Complete, Sound
<1>8. \A b \in A : DiskBases'[b] = DiskBases[b] /\ DiskBases[b] \in A \cup {0}
  BY <1>4, <1>5, <1>6, <1>7
<1>9. Reach({e}, DiskBases) = Reach({e}, DiskBases')
  <2>1. {e} \subseteq A \cup {0}
    BY <1>2
  <2>. HIDE DEF A
  <2> QED
    BY <1>3, <1>8, <2>1, ReachAgree
<1>10. DiskChain(e)' = DiskChain(e)
  BY <1>9 DEF DiskChain, Reach
<1>11. Closed(A, {e}, DiskBases)
  BY <1>2, <1>8 DEF Closed
<1>12. DiskChain(e) \subseteq A
  <2>. HIDE DEF A
  <2> QED
    BY <1>3, <1>11, ReachFacts DEF DiskChain
<1>13. OverlayIn(dirs, DiskChain(e))' = OverlayIn(dirs', DiskChain(e))
  BY <1>10 DEF OverlayIn
<1>14. OverlayIn(dirs', DiskChain(e)) = OverlayIn(dirs, DiskChain(e))
  <2>1. DiskChain(e) \in SUBSET Nat /\ made \in Nat /\ \A b \in DiskChain(e) : b <= made
    BY <1>12, SoundFacts, SMTT(40) DEF TypeOK
  <2>2. \A b \in DiskChain(e) : dirs'[b].files = dirs[b].files
    BY <1>4, <1>12
  <2> QED
    BY <2>1, <2>2, OverlayAgree
<1> QED
  BY <1>2, <1>4, <1>10, <1>12, <1>13, <1>14

(* No step changes the directory of an entered backup; one step enters     *)
(* one.                                                                    *)
LEMMA DirsKept ==
    ASSUME TypeOK, Books, Next
    PROVE  /\ \A e \in Good \cap Good' : dirs'[e] = dirs[e]
           /\ Good' \subseteq Good \/ (Finish /\ Good' \subseteq Good \cup {job.id})
           /\ Good \subseteq Good' \/ DeleteDirectory \/ DeleteAllBackups
<1>1. CASE UNCHANGED <<dirs, entries, torn>>
  BY <1>1 DEF Good, Entered
<1>2. BackingUp => job.id \notin Entered
  BY DEF Books, Listing
<1>3. CASE GoDown /\ torn' = torn
  <2>1. \A e \in DOMAIN dirs \ Partial : dirs'[e] = dirs[e]
    BY <1>3, FewerDirs DEF GoDown
  <2>2. Good' = Good
    BY <1>3 DEF GoDown, Good, Entered
  <2>3. Good \subseteq DOMAIN dirs /\ \A e \in Good : e \notin Partial
    BY <1>2 DEF Partial, Good, Books, Complete
  <2> QED
    BY <2>1, <2>2, <2>3
<1>4. ASSUME NEW type, NEW target, BeginBackup(type, target)
      PROVE  (\A e \in Good \cap Good' : dirs'[e] = dirs[e]) /\ Good' = Good
  <2>. DEFINE d == [files |-> <<>>, recs |-> {}, flushed |-> {}, manifest |-> Empty,
                    info |-> NoInfo, taken |-> Contents(files, manifest, wal), flaws |-> {}]
  <2>1. dirs' = With(dirs, made + 1, d)
    BY <1>4 DEF BeginBackup
  <2>. HIDE DEF d
  <2>2. \A e \in DOMAIN dirs : e # made + 1 => dirs'[e] = dirs[e]
    BY <2>1 DEF With
  <2>3. Good' = Good
    BY <1>4 DEF BeginBackup, Good, Entered
  <2>4. \A e \in Good : e \in DOMAIN dirs /\ e # made + 1
    BY DEF Books, Complete, Numbered, Good, TypeOK
  <2> QED
    BY <2>2, <2>3, <2>4
<1>5. CASE CopyTables \/ CopySegments
  <2>1. Good' = Good /\ Good \subseteq DOMAIN dirs
    BY <1>5 DEF CopyTables, CopySegments, Good, Entered, history, Books, Complete
  <2>2. BackingUp /\ job.id \in DOMAIN dirs
    BY <1>5 DEF CopyTables, CopySegments, BackingUp, Books, Listing
  <2>3. ASSUME NEW e \in Good PROVE dirs'[e] = dirs[e]
    <3>1. e # job.id /\ e \in DOMAIN dirs
      BY <1>2, <2>1, <2>2 DEF Good
    <3>2. CASE dirs' = Restrict(dirs, DOMAIN dirs \ Partial)
      <4>1. e \in DOMAIN dirs \ Partial
        BY <3>1 DEF Partial
      <4> QED
        BY <3>2, <4>1, RestrictFacts
    <3>3. CASE dirs' = [dirs EXCEPT ![job.id].files = Restrict(files, NewFiles \cap DOMAIN files)]
      BY <3>1, <3>3 DEF TypeOK
    <3>4. CASE dirs' = [dirs EXCEPT ![job.id].recs = LiveWal.recs]
      BY <3>1, <3>4 DEF TypeOK
    <3> QED
      BY <1>5, <3>2, <3>3, <3>4 DEF CopyTables, CopySegments
  <2> QED
    BY <2>1, <2>3
<1>6. CASE Finish
  <2>1. BackingUp /\ entries' = Append(entries, job.id) /\ torn' = torn
    BY <1>6 DEF Finish, BackingUp, AddBackup, history
  <2>2. Entered' = Entered \cup {job.id}
    <3>1. entries \in Seq(Nat) /\ job.id \in Nat
      BY DEF TypeOK, Jobs
    <3> QED
      BY <2>1, <3>1, AppendElements DEF Entered
  <2>3. ASSUME NEW e \in Good PROVE dirs'[e] = dirs[e]
    <3>1. e # job.id /\ e \in DOMAIN dirs
      BY <1>2, <2>1 DEF Good, Books, Complete
    <3> QED
      BY <1>6, <3>1 DEF Finish, TypeOK
  <2> QED
    BY <1>6, <2>1, <2>2, <2>3 DEF Good
<1>7. CASE DeleteDirectory
  <2>1. PICK id : dirs' = Restrict(dirs, DOMAIN dirs \ {id}) /\ torn' = id
    BY <1>7 DEF DeleteDirectory
  <2>2. Entered' = Entered /\ torn = 0
    BY <1>7 DEF DeleteDirectory, Entered, Books, Deleting
  <2>3. Good \subseteq DOMAIN dirs /\ 0 \notin Entered
    BY DEF Books, Complete, Numbered
  <2>4. \A e \in DOMAIN dirs \ {id} : dirs'[e] = dirs[e]
    BY <2>1, FewerDirs
  <2> QED
    BY <1>7, <2>1, <2>2, <2>3, <2>4 DEF Good
<1>8. CASE RemoveBackup
  <2>1. dirs' = dirs /\ torn' = 0 /\ entries' = RemoveFirst(entries, job.id) /\ torn = job.id
    BY <1>8 DEF RemoveBackup, Books, Deleting
  <2>2. entries \in Seq(Nat) /\ \A i, j \in 1 .. Len(entries) : entries[i] = entries[j] => i = j
    BY DEF TypeOK, Books, Numbered
  <2>3. ToSet(RemoveFirst(entries, job.id)) = ToSet(entries) \ {job.id}
    BY <2>2, RemoveFirstDistinct
  <2> QED
    BY <2>1, <2>3 DEF Good, Entered, Books, Numbered
<1>9. CASE DeleteAllBackups
  <2>1. Good' = {}
    BY <1>9 DEF DeleteAllBackups, Good, Entered, ToSet
  <2> QED
    BY <1>9, <2>1
<1>10. Write \/ Rotate \/ ClearAll \/ Crash \/ Restart => <1>1!1 \/ <1>3!1
  BY DEF Write, Rotate, ClearAll, Crash, Restart, history
<1>11. FlushToSSTable \/ MemtableFlushed \/ Compact => <1>1!1
  BY DEF FlushToSSTable, MemtableFlushed, Compact, WorkerStep, history
<1>12. RestoreClear \/ RestoreBackup \/ Reinitialize => <1>1!1 \/ <1>3!1
  BY DEF RestoreClear, RestoreBackup, Reinitialize, history
<1>13. ASSUME NEW id, DeleteBackup(id) \/ CascadeDelete(id) PROVE <1>1!1
  BY <1>13 DEF DeleteBackup, CascadeDelete, history
<1>14. ASSUME NEW id, RestoreFromBackup(id) \/ CreateBackup(id)
       PROVE \E type, target : BeginBackup(type, target)
  BY <1>14 DEF RestoreFromBackup, CreateBackup
<1>15. CASE \E id \in listed : RestoreFromBackup(id) \/ DeleteBackup(id) \/ CascadeDelete(id)
  BY <1>1, <1>4, <1>13, <1>14, <1>15
<1>16. CASE \E type \in Types : CreateBackup(type)
  BY <1>4, <1>14, <1>16
<1> QED
  BY <1>1, <1>3, <1>5, <1>6, <1>7, <1>8, <1>9, <1>10, <1>11, <1>12, <1>15, <1>16 DEF Next

-----------------------------------------------------------------------------
(* The store opens, and so does what a restore brings back.                *)

(* The tables a backup's manifest names are in its chain.                  *)
Covered ==
    \A e \in Sound : "raced" \notin dirs[e].flaws =>
        dirs[e].manifest.names \subseteq UNION {DOMAIN dirs[b].files : b \in DiskChain(e)}

(* The store on disk opens, unless it was restored from a raced backup.    *)
Settled ==
    \/ Opens(files, manifest)
    \/ "raced" \in prior.from /\ (status # "up" \/ job.pc = "reinitialize")

(* The worker is idle during a restore and after a failed one, and the     *)
(* safety backup is a full one of a quiet store.                           *)
Restoring ==
    /\ job.target # 0 \/ degraded => Calm /\ ~job.raced
    /\ job.pc \in {"idle", "delete", "unlist"} => job.target = 0
    /\ job.pc \in {"clear", "restore"} =>
           "raced" \notin dirs[job.id].flaws /\ dirs[job.id].info.baseId = 0
    /\ job.pc = "restore" => /\ prior.id = job.id /\ prior.writes = dirs[job.id].taken
                             /\ prior.from = dirs[job.target].flaws
    /\ job.pc \in {"restore", "reinitialize"} => degraded

(* The backup under way has the tables of the manifest it will save.       *)
Tabled == BackingUp /\ ~job.raced => job.tables = LiveManifest.names

StoreInv == Covered /\ Settled /\ Restoring /\ Tabled /\ StartFailsOnly

(* A running engine has every table of its manifest.                       *)
LEMMA OpensWhenUp ==
    ASSUME Settled, status = "up", job.pc # "reinitialize"
    PROVE  Opens(files, manifest)
BY DEF Settled

(* The backup that is entered now continues its base's chain.              *)
LEMMA FinishChain ==
    ASSUME TypeOK, Books, TypeOK', Books', Finish, NEW id, id = job.id, NEW base, base = Base,
           id \in Sound'
    PROVE  /\ base \in Sound \cup {0} /\ base < id
           /\ Chain(base) = DiskChain(base) /\ DiskChain(id)' = {id} \cup DiskChain(base)
           /\ \A b \in DiskChain(base) : /\ dirs'[b] = dirs[b] /\ b < id /\ b \in Sound
                                         /\ infos[b].newFiles = DOMAIN dirs[b].files
           /\ dirs'[id].files = dirs[id].files /\ dirs'[id].recs = dirs[id].recs
           /\ dirs'[id].taken = dirs[id].taken
           /\ dirs'[id].flaws = FlawsOf /\ dirs'[id].flushed = wal.flushed
           /\ dirs'[id].manifest.names = LiveManifest.names
           /\ id \in DOMAIN dirs /\ id \notin DiskChain(base)
<1>1. /\ status = "up" /\ job.pc = "finish" /\ BackingUp /\ torn = 0
      /\ Numbered /\ Complete /\ Listing /\ Next
  BY DEF Finish, BackingUp, Books, Deleting, Next
<1>2. /\ id \in DOMAIN dirs /\ dirs[id] \in Dirs /\ id = made /\ id \in Nat
  BY <1>1, BackupDir DEF Listing, TypeOK
<1>3. /\ dirs'[id].files = dirs[id].files /\ dirs'[id].recs = dirs[id].recs
      /\ dirs'[id].taken = dirs[id].taken
      /\ dirs'[id].flaws = FlawsOf /\ dirs'[id].flushed = wal.flushed
      /\ dirs'[id].manifest.names = LiveManifest.names
      /\ dirs'[id].info.baseId = base
  BY <1>2, ZenonT(60) DEF Finish, TypeOK, Dirs
<1>4. Numbered' /\ Complete'
  BY DEF Books
<1>5. /\ \A e \in Good \cap Good' : dirs'[e] = dirs[e]
      /\ Good' \subseteq Good \cup {id}
  BY <1>1, DirsKept
<1>6. base \in Sound' \cup {0} /\ base < id
  BY <1>3, <1>4 DEF Complete, Sound
<1>7. base # 0 => base \in Good
  BY <1>2, <1>5, <1>6 DEF Sound
<1>8. base # 0 => /\ base \in Sound /\ DiskChain(base)' = DiskChain(base)
                  /\ \A b \in DiskChain(base) : b \in Sound /\ dirs'[b] = dirs[b]
  BY <1>1, <1>4, <1>5, <1>6, <1>7, ChainKept
<1>9. DiskChain(0) = {} /\ DiskChain(0)' = {}
  BY ReachNothing DEF DiskChain
<1>10. DiskChain(base)' = DiskChain(base)
  BY <1>8, <1>9
<1>11. Chain(base) = DiskChain(base)
  <2>1. CASE base = 0
    BY <1>9, <2>1, ReachNothing DEF Chain
  <2>2. CASE base # 0
    BY <1>1, <1>8, <2>2, SoundRestores
  <2> QED
    BY <2>1, <2>2
<1>12. \A b \in DiskChain(base) : b \in Sound /\ dirs'[b] = dirs[b] /\ b < id
  <2>1. base # 0 => \A b \in DiskChain(base) : b \in Nat /\ b <= base
    BY <1>1, <1>8, SoundFacts
  <2>2. base \in Nat
    BY <1>1, BackupDir
  <2>3. base # 0 => \A b \in DiskChain(base) : b < id
    BY <1>2, <1>6, <2>1, <2>2
  <2> QED
    BY <1>8, <1>9, <2>3
<1>13. \A b \in DiskChain(base) : infos[b].newFiles = DOMAIN dirs[b].files
  <2>1. \A b \in Sound : b \in listed \ {torn} /\ b \in Good
    BY <1>1 DEF Sound, Good, Listing
  <2>2. \A b \in Sound : infos[b].newFiles = dirs[b].info.newFiles
    BY <1>1, <2>1 DEF Books, Agree
  <2>3. \A b \in Sound : DOMAIN dirs[b].files = dirs[b].info.newFiles
    BY <1>1, <2>1 DEF Complete
  <2> QED
    BY <1>12, <2>2, <2>3
<1>14. DiskChain(id)' = {id} \cup DiskChain(base)'
  <2>1. PICK A : A = Sound'
    OBVIOUS
  <2>2. /\ DOMAIN DiskBases' = DOMAIN dirs' /\ A \subseteq DOMAIN dirs'
        /\ \A a \in A : DiskBases'[a] = dirs'[a].info.baseId
    BY <1>4, <2>1 DEF DiskBases, Sound, Complete
  <2>3. \A a \in A : dirs'[a].info.baseId \in A \cup {0}
    BY <1>4, <2>1 DEF Complete, Sound
  <2>4. id # 0 /\ id \in A
    BY <1>4, <2>1 DEF Sound, Good, Numbered
  <2>5. Reach({id}, DiskBases') = {id} \cup Reach({DiskBases'[id]}, DiskBases')
    BY <2>2, <2>3, <2>4, ReachNext
  <2>6. DiskBases'[id] = base
    BY <1>3, <2>2, <2>4
  <2>7. Reach({id}, DiskBases)' = Reach({id}, DiskBases')
        /\ Reach({base}, DiskBases)' = Reach({base}, DiskBases')
    BY DEF Reach
  <2> QED
    BY <2>5, <2>6, <2>7 DEF DiskChain
<1>15. id \notin DiskChain(base)
  BY <1>2, <1>12
<1> QED
  BY <1>2, <1>3, <1>6, <1>8, <1>10, <1>11, <1>12, <1>13, <1>14, <1>15

(* What is copied covers what the saved manifest names.                    *)
LEMMA CoveredStep ==
    ASSUME TypeOK, Books, TypeOK', Books', Covered, Tabled, Next
    PROVE  Covered'
<1>1. Numbered /\ Complete /\ Numbered' /\ Complete'
  BY DEF Books
<1>2. /\ \A e \in Good \cap Good' : dirs'[e] = dirs[e]
      /\ Good' \subseteq Good \/ (Finish /\ Good' \subseteq Good \cup {job.id})
  BY DirsKept
<1>3. SUFFICES ASSUME NEW e \in Sound', "raced" \notin dirs'[e].flaws, NEW n \in dirs'[e].manifest.names
               PROVE  n \in UNION {DOMAIN dirs'[b].files : b \in DiskChain(e)'}
  BY DEF Covered
<1>4. CASE e \in Good
  <2>1. /\ e \in Sound /\ DiskChain(e)' = DiskChain(e)
        /\ \A b \in DiskChain(e) : b \in Sound /\ dirs'[b] = dirs[b]
    BY <1>1, <1>2, <1>4, ChainKept
  <2>2. dirs'[e] = dirs[e]
    BY <1>2, <1>4 DEF Sound
  <2>3. n \in UNION {DOMAIN dirs[b].files : b \in DiskChain(e)}
    BY <1>3, <2>1, <2>2 DEF Covered
  <2> QED
    BY <2>1, <2>3
<1>5. CASE e \notin Good
  <2>1. Finish /\ e = job.id
    BY <1>2, <1>5 DEF Sound
  <2>2. PICK base : base = Base
    OBVIOUS
  <2>3. /\ Chain(base) = DiskChain(base) /\ DiskChain(e)' = {e} \cup DiskChain(base)
        /\ \A b \in DiskChain(base) : /\ dirs'[b] = dirs[b]
                                      /\ infos[b].newFiles = DOMAIN dirs[b].files
        /\ dirs'[e].files = dirs[e].files
        /\ dirs'[e].flaws = FlawsOf
        /\ dirs'[e].manifest.names = LiveManifest.names
    BY <2>1, <2>2, FinishChain
  <2>4. ~job.raced
    BY <1>3, <2>3 DEF FlawsOf
  <2>5. BackingUp /\ job.pc = "finish"
    BY <2>1 DEF Finish, BackingUp
  <2>6. n \in job.tables
    BY <1>3, <2>3, <2>4, <2>5 DEF Tabled
  <2>7. CASE n \in NewFiles
    BY <2>1, <2>3, <2>5, <2>7 DEF Books, Copied
  <2>8. CASE n \notin NewFiles
    <3>1. PICK b \in Chain(base) : n \in infos[b].newFiles
      BY <2>2, <2>6, <2>8 DEF NewFiles, ContainsFile
    <3> QED
      BY <2>3, <3>1
  <2> QED
    BY <2>7, <2>8
<1> QED
  BY <1>4, <1>5

(* A restored backup that was not raced opens, and so does the safety      *)
(* backup, laid over what a failed restore left.                           *)
LEMMA RestoredOpens ==
    ASSUME TypeOK, Books, Covered, status = "up", torn = 0, NEW e \in Sound,
           "raced" \notin dirs[e].flaws
    PROVE  Opens(RestoreInto(e).files, RestoreInto(e).manifest)
<1>1. Numbered /\ Complete
  BY DEF Books
<1>2. /\ RestoreInto(e).files = OverlayIn(dirs, DiskChain(e))
      /\ RestoreInto(e).manifest = dirs[e].manifest
  BY SoundRestores
<1>3. /\ DiskChain(e) \in SUBSET Nat /\ made \in Nat /\ \A b \in DiskChain(e) : b <= made
      /\ \A b \in DiskChain(e) : b \in DOMAIN dirs
  BY <1>1, SoundFacts DEF TypeOK
<1>4. \A b \in DiskChain(e) : dirs[b].files \in Tables
  BY <1>3 DEF TypeOK, Dirs
<1>5. DOMAIN OverlayIn(dirs, DiskChain(e)) = UNION {DOMAIN dirs[b].files : b \in DiskChain(e)}
  BY <1>3, <1>4, OverlayFacts, ZenonT(60)
<1> QED
  BY <1>2, <1>5 DEF Covered, Opens

(* RestoreBackup, in the terms of the books.                               *)
LEMMA RestoreCases ==
    ASSUME TypeOK, Books, Restoring, RestoreBackup
    PROVE  /\ torn = 0 /\ job.id \in Sound /\ job.target \in listed /\ status = "up" /\ ~BackingUp
           /\ \/ /\ job.target \in Sound /\ job' = [job EXCEPT !.pc = "reinitialize"]
                 /\ files' = RestoreInto(job.target).files
                 /\ manifest' = RestoreInto(job.target).manifest
                 /\ wal' = RestoreInto(job.target).wal
              \/ /\ job' = [NoJob EXCEPT !.pc = "delete", !.todo = {job.id}]
                 /\ files' = Over(RestoreInto(job.id).files, RestoreInto(job.target).files)
                 /\ manifest' = RestoreInto(job.id).manifest
                 /\ wal' = RestoreInto(job.id).wal
<1>1. /\ status = "up" /\ job.pc = "restore" /\ torn = 0 /\ ~BackingUp
      /\ job.id \in listed /\ job.target \in listed /\ listed = Entered /\ Complete
  BY DEF RestoreBackup, Books, Deleting, Listing, BackingUp
<1>2. job.id \in Sound
  <2>1. job.id \in Good
    BY <1>1 DEF Good, Books, Numbered
  <2> QED
    BY <1>1, <2>1 DEF Restoring, Complete, Sound
<1>3. CASE RestoreInto(job.target).ok
  <2>1. job.target \in Sound
    BY <1>1, <1>3, OrphanFails
  <2> QED
    BY <1>1, <1>2, <1>3, <2>1 DEF RestoreBackup
<1>4. CASE ~RestoreInto(job.target).ok
  <2>1. PICK r : r = RestoreInto(job.target)
    OBVIOUS
  <2>2. RestoreInto(job.id) = [ok |-> RestoreInto(job.id).ok, files |-> RestoreInto(job.id).files,
                               manifest |-> RestoreInto(job.id).manifest,
                               wal |-> RestoreInto(job.id).wal]
    BY DEF RestoreInto
  <2>3. PICK back : back = RestoreInto(job.id)
    OBVIOUS
  <2>4. /\ files' = [back EXCEPT !.files = Over(back.files, r.files)].files
        /\ manifest' = [back EXCEPT !.files = Over(back.files, r.files)].manifest
        /\ wal' = [back EXCEPT !.files = Over(back.files, r.files)].wal
        /\ job' = [NoJob EXCEPT !.pc = "delete", !.todo = {job.id}]
    BY <1>4, <2>1, <2>3 DEF RestoreBackup
  <2>5. files' = Over(back.files, r.files) /\ manifest' = back.manifest /\ wal' = back.wal
    <3>1. PICK f : f = Over(back.files, r.files)
      OBVIOUS
    <3> QED
      BY <2>2, <2>3, <2>4, <3>1
  <2> QED
    BY <1>1, <1>2, <2>1, <2>3, <2>4, <2>5
<1> QED
  BY <1>3, <1>4

(* The manifest on disk names no table that is missing.                    *)
LEMMA SettledStep ==
    ASSUME TypeOK, Books, StoreInv, Next
    PROVE  Settled'
<1>1. Covered /\ Settled /\ Restoring
  BY DEF StoreInv
<1>2. CASE Opens(files, manifest) /\ UNCHANGED <<files, manifest>>
  BY <1>2 DEF Settled, Opens
<1>3. status = "up" /\ job.pc # "reinitialize" => Opens(files, manifest)
  BY <1>1, OpensWhenUp
<1>4. CASE /\ status = "up" /\ job.pc # "reinitialize" /\ UNCHANGED <<files, manifest>>
  BY <1>2, <1>3, <1>4
<1>5. CASE GoDown /\ prior' = prior
  BY <1>1, <1>5 DEF GoDown, Settled, Opens
<1>6. CASE files' = <<>> /\ manifest' = Empty
  BY <1>6 DEF Settled, Opens, Empty
<1>7. CASE Write \/ Rotate
  <2>1. status = "up" /\ job.pc # "reinitialize" /\ UNCHANGED <<files, manifest>>
    BY <1>7 DEF Write, Rotate, Ready, GoDown
  <2> QED
    BY <1>4, <2>1
<1>8. CASE ClearAll \/ RestoreClear
  BY <1>6, <1>8 DEF ClearAll, RestoreClear, Cleared
<1>9. CASE FlushToSSTable \/ MemtableFlushed \/ Compact
  <2>1. status = "up" /\ ~Calm
    BY <1>9 DEF FlushToSSTable, MemtableFlushed, Compact, WorkerStep, Calm
  <2>2. job.pc # "reinitialize"
    <3>1. job.pc = "reinitialize" => job.target \in listed /\ 0 \notin listed
      BY <2>1 DEF Books, Listing, Numbered
    <3> QED
      BY <1>1, <2>1, <3>1 DEF Restoring
  <2>3. Opens(files, manifest)
    BY <1>3, <2>1, <2>2
  <2>4. CASE FlushToSSTable
    <3>1. DOMAIN files' = DOMAIN files \cup {manifest.next}
          /\ manifest'.names = manifest.names \cup {manifest.next}
      BY <2>4 DEF FlushToSSTable, With
    <3> QED
      BY <2>3, <3>1 DEF Settled, Opens
  <2>5. CASE UNCHANGED <<files, manifest>>
    BY <1>4, <2>1, <2>2, <2>5
  <2>6. CASE /\ manifest' = [names |-> {manifest.next}, next |-> manifest.next + 1]
             /\ files' = With(Restrict(files, DOMAIN files \ manifest.names), manifest.next,
                              UNION {files[n] : n \in manifest.names})
    <3>1. manifest.next \in DOMAIN files'
      BY <2>6 DEF With
    <3> QED
      BY <2>6, <3>1 DEF Settled, Opens
  <2> QED
    BY <1>9, <2>4, <2>5, <2>6 DEF MemtableFlushed, Compact
<1>10. CASE \E type \in Types : CreateBackup(type)
  BY <1>4, <1>10 DEF CreateBackup, Ready, BeginBackup, store
<1>11. CASE CopyTables \/ CopySegments \/ Finish
  BY <1>4, <1>11 DEF CopyTables, CopySegments, Finish, store
<1>12. CASE \E id \in listed : RestoreFromBackup(id) \/ DeleteBackup(id) \/ CascadeDelete(id)
  BY <1>4, <1>12 DEF RestoreFromBackup, BeginBackup, DeleteBackup, CascadeDelete, Ready, store
<1>13. CASE RestoreBackup
  <2>1. torn = 0 /\ job.id \in Sound /\ status = "up" /\ job.pc = "restore"
    BY <1>1, <1>13, RestoreCases DEF RestoreBackup
  <2>2. CASE /\ job.target \in Sound /\ job' = [job EXCEPT !.pc = "reinitialize"]
             /\ files' = RestoreInto(job.target).files
             /\ manifest' = RestoreInto(job.target).manifest
    <3>1. CASE "raced" \notin dirs[job.target].flaws
      <4>1. Opens(RestoreInto(job.target).files, RestoreInto(job.target).manifest)
        BY <1>1, <2>1, <2>2, <3>1, RestoredOpens
      <4> QED
        BY <2>2, <4>1 DEF Settled, Opens
    <3>2. CASE "raced" \in dirs[job.target].flaws
      <4>1. "raced" \in prior.from /\ prior' = prior
        BY <1>1, <1>13, <2>1, <3>2 DEF Restoring, RestoreBackup, history
      <4>2. job'.pc = "reinitialize"
        BY <2>2 DEF TypeOK, Jobs
      <4> QED
        BY <4>1, <4>2 DEF Settled
    <3> QED
      BY <3>1, <3>2
  <2>3. CASE /\ files' = Over(RestoreInto(job.id).files, RestoreInto(job.target).files)
             /\ manifest' = RestoreInto(job.id).manifest
    <3>1. "raced" \notin dirs[job.id].flaws
      BY <1>1, <2>1 DEF Restoring
    <3>2. Opens(RestoreInto(job.id).files, RestoreInto(job.id).manifest)
      BY <1>1, <2>1, <3>1, RestoredOpens
    <3>3. DOMAIN RestoreInto(job.id).files \subseteq DOMAIN files'
      <4>1. PICK f, g : f = RestoreInto(job.id).files /\ g = RestoreInto(job.target).files
        OBVIOUS
      <4> QED
        BY <2>3, <4>1 DEF Over
    <3> QED
      BY <2>3, <3>2, <3>3 DEF Settled, Opens
  <2> QED
    BY <1>1, <1>13, <2>2, <2>3, RestoreCases
<1>14. CASE Reinitialize
  BY <1>2, <1>5, <1>14 DEF Reinitialize
<1>15. CASE DeleteDirectory \/ RemoveBackup \/ DeleteAllBackups
  BY <1>4, <1>15 DEF DeleteDirectory, RemoveBackup, DeleteAllBackups, Ready, store
<1>16. CASE Crash
  BY <1>5, <1>16 DEF Crash
<1>17. CASE Restart
  <2>1. UNCHANGED <<files, manifest, prior>> /\ status = "down" /\ status' \in {"up", "stuck"}
        /\ (status' = "up" => Opens(files, manifest))
    BY <1>17 DEF Restart, history
  <2> QED
    BY <1>1, <2>1 DEF Settled, Opens
<1> QED
  BY <1>7, <1>8, <1>9, <1>10, <1>11, <1>12, <1>13, <1>14, <1>15, <1>16, <1>17 DEF Next

(* The engine does not start only because of a deletion cut off, or of     *)
(* missing tables.                                                         *)
LEMMA StartStep ==
    ASSUME TypeOK, Books, Settled, Next
    PROVE  StartFailsOnly'
<1>1. SUFFICES ASSUME status' = "stuck" PROVE torn' # 0 \/ "raced" \in prior'.from
  BY DEF StartFailsOnly
<1>2. Restart
  <2>1. Write \/ Rotate \/ ClearAll \/ Crash => status' # "stuck"
    BY DEF Write, Rotate, ClearAll, Crash, GoDown, Ready
  <2>2. FlushToSSTable \/ MemtableFlushed \/ Compact => status' # "stuck"
    BY DEF FlushToSSTable, MemtableFlushed, Compact, WorkerStep
  <2>3. CopyTables \/ CopySegments \/ Finish => status' # "stuck"
    BY DEF CopyTables, CopySegments, Finish
  <2>4. \A type : CreateBackup(type) \/ RestoreFromBackup(type) => status' # "stuck"
    BY DEF CreateBackup, RestoreFromBackup, BeginBackup, Ready
  <2>5. \A id : DeleteBackup(id) \/ CascadeDelete(id) => status' # "stuck"
    BY DEF DeleteBackup, CascadeDelete, Ready
  <2>6. RestoreClear \/ RestoreBackup \/ Reinitialize => status' # "stuck"
    BY DEF RestoreClear, RestoreBackup, Reinitialize, GoDown
  <2>7. DeleteDirectory \/ RemoveBackup \/ DeleteAllBackups => status' # "stuck"
    BY DEF DeleteDirectory, RemoveBackup, DeleteAllBackups, Ready
  <2> QED
    BY <1>1, <2>1, <2>2, <2>3, <2>4, <2>5, <2>6, <2>7 DEF Next
<1>3. /\ status = "down" /\ UNCHANGED <<torn, prior>>
      /\ ~(ToSet(entries) \subseteq DOMAIN dirs /\ Opens(files, manifest))
  BY <1>1, <1>2 DEF Restart, history
<1>4. CASE ~Opens(files, manifest)
  BY <1>3, <1>4 DEF Settled
<1>5. CASE ~(ToSet(entries) \subseteq DOMAIN dirs)
  <2>1. torn \in Entered
    BY <1>5 DEF Books, Complete, Good, Entered
  <2> QED
    BY <1>3, <2>1 DEF Books, Numbered
<1> QED
  BY <1>3, <1>4, <1>5

(* The restore and the worker stay out of each other's way.                *)
LEMMA RestoringStep ==
    ASSUME TypeOK, Books, Restoring, Next
    PROVE  Restoring'
<1>1. CASE UNCHANGED <<job, degraded, imm, worker, dirs, prior>>
  BY <1>1 DEF Restoring, Calm
<1>2. CASE GoDown
  BY <1>2 DEF GoDown, Restoring, NoJob
<1>3. CASE /\ UNCHANGED <<degraded, imm, worker>>
           /\ \/ job' = NoJob
              \/ \E S : job' = [NoJob EXCEPT !.pc = "delete", !.todo = S]
  <2>1. job'.pc \in {"idle", "delete"} /\ job'.target = 0 /\ job'.raced = FALSE
    BY <1>3, JobFields, ZenonT(60)
  <2> QED
    BY <1>3, <2>1 DEF Restoring, Calm
<1>4. CASE Write
  BY <1>1, <1>2, <1>4 DEF Write
<1>5. CASE Rotate
  BY <1>5 DEF Rotate, Ready, Restoring
<1>6. CASE ClearAll
  BY <1>1, <1>6 DEF ClearAll
<1>7. CASE FlushToSSTable \/ MemtableFlushed \/ Compact
  <2>1. ~Calm /\ UNCHANGED <<degraded, dirs, prior>>
    BY <1>7 DEF FlushToSSTable, MemtableFlushed, Compact, WorkerStep, Calm, history
  <2>2. job.target = 0 /\ ~degraded
    BY <2>1 DEF Restoring
  <2>3. job'.pc = job.pc /\ job'.target = job.target /\ job'.id = job.id
    BY <1>7 DEF FlushToSSTable, MemtableFlushed, Compact, MarkRaced, TypeOK, Jobs
  <2> QED
    BY <2>1, <2>2, <2>3 DEF Restoring
<1>8. ASSUME NEW type, NEW target, BeginBackup(type, target), target # 0 => Calm
      PROVE  Restoring'
  <2>1. job'.pc = "copy" /\ job'.target = target /\ job'.raced = FALSE
        /\ UNCHANGED <<degraded, imm, worker>>
    BY <1>8 DEF BeginBackup, NewJob, NoJob, store
  <2> QED
    BY <1>8, <2>1 DEF Restoring, Calm
<1>9. CASE \E type \in Types : CreateBackup(type)
  BY <1>8, <1>9 DEF CreateBackup
<1>10. CASE CopyTables \/ CopySegments
  <2>1. UNCHANGED <<degraded, imm, worker>>
    BY <1>10 DEF CopyTables, CopySegments, store
  <2>2. CASE job' = NoJob
    BY <1>3, <2>1, <2>2
  <2>3. CASE job' # NoJob
    <3>1. job'.pc \in {"wal", "finish"} /\ job'.target = job.target /\ job'.raced = job.raced
      BY <1>10, <2>3 DEF CopyTables, CopySegments, TypeOK, Jobs
    <3> QED
      BY <2>1, <3>1 DEF Restoring, Calm
  <2> QED
    BY <2>2, <2>3
<1>11. CASE Finish
  <2>1. UNCHANGED <<degraded, imm, worker>> /\ job.pc = "finish" /\ BackingUp
    BY <1>11 DEF Finish, store, BackingUp
  <2>2. CASE job.target = 0
    BY <1>3, <1>11, <2>1, <2>2 DEF Finish
  <2>3. CASE job.target # 0
    <3>1. /\ job'.pc = "clear" /\ job'.target = job.target /\ job'.raced = job.raced
          /\ job'.id = job.id
      BY <1>11, <2>3 DEF Finish, TypeOK, Jobs
    <3>2. job.id \in DOMAIN dirs /\ dirs[job.id] \in Dirs /\ job.type = "full"
      BY <2>1, <2>3 DEF Books, Listing, TypeOK
    <3>3. dirs'[job.id].flaws = FlawsOf /\ dirs'[job.id].info.baseId = Base
      BY <1>11, <3>2 DEF Finish, TypeOK, Dirs
    <3>4. "raced" \notin FlawsOf /\ Base = 0
      BY <2>3, <3>2 DEF Restoring, FlawsOf, Base
    <3> QED
      BY <2>1, <3>1, <3>3, <3>4 DEF Restoring, Calm
  <2> QED
    BY <2>2, <2>3
<1>12. CASE \E id \in listed : RestoreFromBackup(id) \/ DeleteBackup(id) \/ CascadeDelete(id)
  <2>1. PICK id \in listed : RestoreFromBackup(id) \/ DeleteBackup(id) \/ CascadeDelete(id)
    BY <1>12
  <2>2. CASE RestoreFromBackup(id)
    BY <1>8, <2>2 DEF RestoreFromBackup
  <2>3. CASE DeleteBackup(id) \/ CascadeDelete(id)
    BY <1>3, <2>3 DEF DeleteBackup, CascadeDelete, store
  <2> QED
    BY <2>1, <2>2, <2>3
<1>13. CASE RestoreClear
  <2>1. /\ job.pc = "clear" /\ job'.pc = "restore" /\ job'.id = job.id /\ job'.target = job.target
        /\ job'.raced = job.raced /\ degraded' = TRUE /\ UNCHANGED <<imm, worker, dirs>>
        /\ prior'.id = job.id /\ prior'.writes = dirs[job.id].taken
        /\ prior'.from = dirs[job.target].flaws
    BY <1>13 DEF RestoreClear, TypeOK, Jobs
  <2>2. job.target # 0
    BY <1>13, <2>1 DEF RestoreClear, Books, Listing, Numbered
  <2> QED
    BY <2>1, <2>2 DEF Restoring, Calm
<1>14. CASE RestoreBackup
  <2>1. job.pc = "restore" /\ UNCHANGED <<degraded, imm, worker>>
    BY <1>14 DEF RestoreBackup
  <2>2. CASE job' = [job EXCEPT !.pc = "reinitialize"]
    <3>1. job'.pc = "reinitialize" /\ job'.target = job.target /\ job'.raced = job.raced
      BY <2>2 DEF TypeOK, Jobs
    <3> QED
      BY <2>1, <3>1 DEF Restoring, Calm
  <2>3. CASE job' = [NoJob EXCEPT !.pc = "delete", !.todo = {job.id}]
    BY <1>3, <2>1, <2>3
  <2> QED
    BY <1>14, <2>2, <2>3 DEF RestoreBackup
<1>15. CASE Reinitialize
  <2>1. CASE GoDown
    BY <1>2, <2>1
  <2>2. CASE degraded' = FALSE /\ ~GoDown
    <3>1. job' = NoJob \/ job' = [NoJob EXCEPT !.pc = "delete", !.todo = {job.id}]
      BY <1>15, <2>2 DEF Reinitialize
    <3>2. job'.pc \in {"idle", "delete"} /\ job'.target = 0
      BY <3>1, JobFields, ZenonT(60)
    <3> QED
      BY <2>2, <3>2 DEF Restoring
  <2> QED
    BY <1>15, <2>1, <2>2 DEF Reinitialize
<1>16. CASE DeleteDirectory
  <2>1. /\ job.pc = "delete" /\ job'.pc = "unlist" /\ job'.target = job.target
        /\ job'.raced = job.raced /\ UNCHANGED <<degraded, imm, worker>>
    BY <1>16 DEF DeleteDirectory, store, TypeOK, Jobs
  <2> QED
    BY <2>1 DEF Restoring, Calm
<1>17. CASE RemoveBackup
  <2>1. UNCHANGED <<degraded, imm, worker>> /\ job.pc = "unlist"
    BY <1>17 DEF RemoveBackup, store
  <2>2. CASE job' = NoJob
    BY <1>3, <2>1, <2>2
  <2>3. CASE job' = [job EXCEPT !.pc = "delete", !.todo = @ \ {job.id}]
    <3>1. job'.pc = "delete" /\ job'.target = job.target /\ job'.raced = job.raced
      BY <2>3 DEF TypeOK, Jobs
    <3> QED
      BY <2>1, <3>1 DEF Restoring, Calm
  <2> QED
    BY <1>17, <2>2, <2>3 DEF RemoveBackup
<1>18. CASE DeleteAllBackups
  <2>1. job.pc = "idle" /\ UNCHANGED <<job, degraded, imm, worker>>
    BY <1>18 DEF DeleteAllBackups, Ready, store
  <2> QED
    BY <2>1 DEF Restoring, Calm
<1>19. CASE Crash
  BY <1>2, <1>19 DEF Crash
<1>20. CASE Restart
  BY <1>1, <1>20 DEF Restart, history
<1> QED
  BY <1>4, <1>5, <1>6, <1>7, <1>9, <1>10, <1>11, <1>12, <1>13, <1>14, <1>15, <1>16, <1>17, <1>18,
     <1>19, <1>20 DEF Next

(* The calls the steps of a restore and of a deletion leave under way.     *)
LEMMA RestoreJob ==
    ASSUME TypeOK, RestoreClear \/ RestoreBackup \/ Reinitialize
    PROVE  GoDown \/ job'.pc \in {"idle", "restore", "reinitialize", "delete"}
<1>1. CASE RestoreClear
  BY <1>1 DEF RestoreClear, TypeOK, Jobs
<1>2. CASE RestoreBackup
  <2>1. \/ job' = [job EXCEPT !.pc = "reinitialize"]
        \/ job' = [NoJob EXCEPT !.pc = "delete", !.todo = {job.id}]
    BY <1>2 DEF RestoreBackup
  <2>2. [job EXCEPT !.pc = "reinitialize"].pc = "reinitialize"
    BY DEF TypeOK, Jobs
  <2> QED
    BY <2>1, <2>2, JobFields, ZenonT(60)
<1>3. CASE Reinitialize
  <2>1. GoDown \/ job' = NoJob \/ job' = [NoJob EXCEPT !.pc = "delete", !.todo = {job.id}]
    BY <1>3 DEF Reinitialize
  <2> QED
    BY <2>1, JobFields, ZenonT(60)
<1> QED
  BY <1>1, <1>2, <1>3

(* Where a step of a deletion leaves its job.                              *)
LEMMA DeleteJob ==
    ASSUME TypeOK, DeleteDirectory \/ RemoveBackup \/ DeleteAllBackups
    PROVE  job'.pc \in {"idle", "unlist", "delete"}
<1>1. CASE DeleteDirectory
  BY <1>1 DEF DeleteDirectory, TypeOK, Jobs
<1>2. CASE RemoveBackup
  <2>1. job' = NoJob \/ job' = [job EXCEPT !.pc = "delete", !.todo = @ \ {job.id}]
    BY <1>2 DEF RemoveBackup
  <2>2. [job EXCEPT !.pc = "delete", !.todo = @ \ {job.id}].pc = "delete"
    BY DEF TypeOK, Jobs
  <2> QED
    BY <2>1, <2>2, JobFields
<1>3. CASE DeleteAllBackups
  BY <1>3 DEF DeleteAllBackups, Ready
<1> QED
  BY <1>1, <1>2, <1>3

(* The tables listed stay those of the manifest while no one changes it.   *)
LEMMA TabledStep ==
    ASSUME TypeOK, Books, Settled, Tabled, Next
    PROVE  Tabled'
<1>1. CASE UNCHANGED <<job, manifest, degraded>>
  BY <1>1 DEF Tabled, BackingUp, LiveManifest
<1>2. CASE ~BackingUp'
  BY <1>2 DEF Tabled
<1>3. ASSUME job'.pc \in {"idle", "clear", "restore", "reinitialize", "delete", "unlist"}
      PROVE  Tabled'
  BY <1>2, <1>3 DEF BackingUp
<1>4. CASE GoDown
  BY <1>3, <1>4 DEF GoDown, NoJob
<1>5. CASE Write \/ Rotate \/ ClearAll
  <2>1. (job' = job /\ job.pc = "idle") \/ GoDown
    BY <1>5 DEF Write, Rotate, ClearAll, Ready
  <2> QED
    BY <1>3, <1>4, <2>1
<1>6. CASE FlushToSSTable \/ MemtableFlushed \/ Compact
  <2>1. degraded' = degraded
    BY <1>6 DEF FlushToSSTable, MemtableFlushed, Compact, WorkerStep
  <2>2. CASE MarkRaced
    <3>1. job'.pc = job.pc /\ (job'.raced <=> BackingUp)
      BY <2>2 DEF MarkRaced, TypeOK, Jobs
    <3> QED
      BY <3>1 DEF Tabled, BackingUp
  <2>3. CASE ~MarkRaced
    BY <1>1, <1>6, <2>1, <2>3 DEF FlushToSSTable, MemtableFlushed, Compact
  <2> QED
    BY <2>2, <2>3
<1>7. ASSUME NEW type, NEW target, BeginBackup(type, target) PROVE Tabled'
  <2>1. job'.tables = LiveManifest.names /\ UNCHANGED <<manifest, degraded>>
    BY <1>7 DEF BeginBackup, NewJob, NoJob, store
  <2> QED
    BY <2>1 DEF Tabled, LiveManifest
<1>8. CASE \E type \in Types : CreateBackup(type)
  BY <1>7, <1>8 DEF CreateBackup
<1>9. CASE CopyTables \/ CopySegments
  <2>1. UNCHANGED <<manifest, degraded>> /\ BackingUp /\ status = "up" /\ job.pc # "reinitialize"
    BY <1>9 DEF CopyTables, CopySegments, store, BackingUp
  <2>2. LiveManifest' = LiveManifest
    BY <2>1 DEF LiveManifest
  <2>3. LiveManifest.names \subseteq DOMAIN files
    BY <2>1, OpensWhenUp DEF LiveManifest, Opens, Empty
  <2>4. \/ job'.pc = "idle"
        \/ job'.raced = job.raced /\ job'.tables \in {job.tables, job.tables \cap DOMAIN files}
    <3>1. CASE job' = NoJob
      BY <3>1, JobFields
    <3>2. CASE job' # NoJob
      BY <1>9, <3>2 DEF CopyTables, CopySegments, TypeOK, Jobs
    <3> QED
      BY <3>1, <3>2
  <2> QED
    BY <1>3, <2>1, <2>2, <2>3, <2>4 DEF Tabled
<1>10. CASE Finish
  <2>1. job'.pc \in {"idle", "clear"}
    BY <1>10 DEF Finish, NoJob, TypeOK, Jobs
  <2> QED
    BY <1>3, <2>1
<1>11. CASE \E id \in listed : RestoreFromBackup(id) \/ DeleteBackup(id) \/ CascadeDelete(id)
  <2>1. PICK id \in listed : RestoreFromBackup(id) \/ DeleteBackup(id) \/ CascadeDelete(id)
    BY <1>11
  <2>2. CASE RestoreFromBackup(id)
    BY <1>7, <2>2 DEF RestoreFromBackup
  <2>3. CASE DeleteBackup(id) \/ CascadeDelete(id)
    <3>1. job'.pc = "delete"
      BY <2>3 DEF DeleteBackup, CascadeDelete, NoJob
    <3> QED
      BY <1>3, <3>1
  <2> QED
    BY <2>1, <2>2, <2>3
<1>12. CASE RestoreClear \/ RestoreBackup \/ Reinitialize
  <2>1. GoDown \/ job'.pc \in {"idle", "restore", "reinitialize", "delete"}
    BY <1>12, RestoreJob
  <2> QED
    BY <1>3, <1>4, <2>1
<1>13. CASE DeleteDirectory \/ RemoveBackup \/ DeleteAllBackups
  <2>1. job'.pc \in {"idle", "unlist", "delete"}
    BY <1>13, DeleteJob
  <2> QED
    BY <1>3, <2>1
<1>14. CASE Crash
  BY <1>4, <1>14 DEF Crash
<1>15. CASE Restart
  <2>1. job' = job /\ job.pc = "idle"
    BY <1>15 DEF Restart, Books, Blank, NoJob
  <2> QED
    BY <1>3, <2>1
<1> QED
  BY <1>5, <1>6, <1>8, <1>9, <1>10, <1>11, <1>12, <1>13, <1>14, <1>15 DEF Next

-----------------------------------------------------------------------------
(* What a backup holds.                                                    *)

(* Every write is numbered, and the numbers in the write-ahead log, in the *)
(* memtables and in the copies of the log have been given out.             *)
Numbers ==
    /\ wal.recs \cup mem \cup imm \cup worker.tab \subseteq 0 .. written
    /\ \A d \in DOMAIN dirs : dirs[d].recs \subseteq 0 .. written

InTables == UNION {files[n] : n \in manifest.names \cap DOMAIN files}

Unflushed == wal.recs \ wal.flushed

(* A write above the log's watermark is in a memtable, those of the older  *)
(* memtable come first, and the table being flushed is in its file.        *)
Queue ==
    status = "up" /\ ~degraded =>
        /\ Unflushed \subseteq mem \cup imm \cup (IF worker.pc = "wal" THEN worker.tab ELSE {})
        /\ \A a \in imm, b \in mem : a < b
        /\ worker.pc = "wal" => /\ \A a \in worker.tab, b \in imm \cup mem : a < b
                                /\ worker.tab \subseteq InTables

(* An undisturbed backup copies the store as it was when it began.         *)
JobCopies ==
    BackingUp /\ ~job.raced /\ ~degraded =>
        /\ dirs[job.id].taken = Contents(files, manifest, wal)
        /\ job.pc \in {"wal", "finish"} => \A n \in NewFiles : dirs[job.id].files[n] = files[n]
        /\ job.pc = "finish" => dirs[job.id].recs = wal.recs

WalOf(e) == [recs |-> dirs[e].recs, flushed |-> dirs[e].flushed]

(* A backup without a flaw holds, with those it rests on, what was taken.  *)
Faithful ==
    \A e \in Good : dirs[e].flaws = {} =>
        Contents(OverlayIn(dirs, DiskChain(e)), dirs[e].manifest, WalOf(e)) = dirs[e].taken

(* What a restore puts at risk is in a full backup.                        *)
InBackup ==
    prior.id # 0 => /\ prior.id \in Good /\ dirs[prior.id].info.baseId = 0
                    /\ dirs[prior.id].taken = prior.writes

(* After a failed restore that backup is deleted before anything else.     *)
Watched ==
    degraded => \/ prior.id = 0
                \/ job.pc \in {"restore", "reinitialize"}
                \/ job.pc = "delete" /\ job.todo = {prior.id}

(* By then what it holds is back on disk.                                  *)
PutBack ==
    job.pc = "delete" /\ prior.id \in job.todo /\ degraded /\ dirs[prior.id].flaws = {} =>
        Opens(files, manifest) /\ Contents(files, manifest, wal) = prior.writes

(* A restored write-ahead log is the copy of a backup.                     *)
LEMMA RestoredWal ==
    ASSUME TypeOK, Books, Restoring, RestoreBackup
    PROVE  \E e \in DOMAIN dirs : wal'.recs = dirs[e].recs
<1>1. \A e \in Sound : e \in DOMAIN dirs
  BY SoundFacts DEF Books
<1>2. ASSUME NEW e \in Sound, status = "up", torn = 0 PROVE RestoreInto(e).wal.recs = dirs[e].recs
  <2>1. RestoreInto(e).wal = [recs |-> dirs[e].recs, flushed |-> dirs[e].flushed]
    BY <1>2, SoundRestores
  <2>2. PICK w : w = RestoreInto(e).wal
    OBVIOUS
  <2>3. w.recs = dirs[e].recs
    BY <2>1, <2>2
  <2> QED
    BY <2>2, <2>3
<1> QED
  BY <1>1, <1>2, RestoreCases

(* Every action keeps the numbers of the writes below their count.         *)
LEMMA NumbersStep ==
    ASSUME TypeOK, Books, Restoring, Numbers, Next
    PROVE  Numbers'
<1>. DEFINE N1 == wal.recs \cup mem \cup imm \cup worker.tab \subseteq 0 .. written
            N2 == \A d \in DOMAIN dirs : dirs[d].recs \subseteq 0 .. written
<1>1. N1 /\ N2 /\ written \in Nat /\ 0 .. written \subseteq 0 .. written + 1
  BY DEF Numbers, TypeOK
<1>2. Numbers' <=> N1' /\ N2'
  BY DEF Numbers
<1>3. N2' <=> \A d \in DOMAIN dirs' : dirs'[d].recs \subseteq 0 .. written'
  OBVIOUS
<1>4. N1' <=> wal'.recs \cup mem' \cup imm' \cup worker'.tab \subseteq 0 .. written'
  OBVIOUS
<1>. HIDE DEF N1, N2
<1>5. UNCHANGED <<dirs, written>> => N2'
  BY <1>1, <1>3 DEF N2
<1>6. UNCHANGED <<wal, mem, imm, worker, written>> => N1'
  BY <1>1, <1>4 DEF N1
<1>7. ASSUME NEW T \in SUBSET DOMAIN dirs, dirs' = Restrict(dirs, T), written' = written PROVE N2'
  <2>1. DOMAIN dirs' = T /\ \A d \in T : dirs'[d] = dirs[d]
    BY <1>7, FewerDirs
  <2> QED
    BY <1>1, <1>3, <1>7, <2>1 DEF N2
<1>8. CASE GoDown /\ written' = written
  <2>1. N1'
    BY <1>1, <1>4, <1>8 DEF GoDown, N1
  <2>2. N2'
    BY <1>7, <1>8 DEF GoDown
  <2> QED
    BY <1>2, <2>1, <2>2
<1>9. CASE Write
  <2>1. CASE ~degraded
    <3>1. /\ written' = written + 1 /\ mem' = mem \cup {written + 1} /\ dirs' = dirs
          /\ wal'.recs = wal.recs \cup {written + 1} /\ UNCHANGED <<imm, worker>>
      BY <1>9, <2>1 DEF Write, TypeOK, Wals
    <3>2. N1'
      BY <1>1, <1>4, <3>1 DEF N1
    <3>3. N2'
      BY <1>1, <1>3, <3>1 DEF N2
    <3> QED
      BY <1>2, <3>2, <3>3
  <2>2. CASE degraded
    BY <1>8, <1>9, <2>2 DEF Write, history
  <2> QED
    BY <2>1, <2>2
<1>10. CASE Rotate
  <2>1. N1'
    BY <1>1, <1>4, <1>10 DEF Rotate, N1, history
  <2> QED
    BY <1>2, <1>5, <1>10, <2>1 DEF Rotate, history
<1>11. CASE FlushToSSTable \/ MemtableFlushed \/ Compact
  <2>1. /\ wal'.recs = wal.recs /\ mem' = mem /\ imm' \subseteq imm
        /\ worker'.tab \subseteq worker.tab \cup imm
        /\ UNCHANGED <<dirs, written>>
    BY <1>11 DEF FlushToSSTable, MemtableFlushed, Compact, WorkerStep, history, TypeOK, Wals
  <2>2. N1'
    BY <1>1, <1>4, <2>1 DEF N1
  <2> QED
    BY <1>2, <1>5, <2>1, <2>2
<1>12. CASE ClearAll \/ RestoreClear
  <2>1. /\ wal'.recs = {} /\ mem' = {} /\ UNCHANGED <<imm, worker, dirs, written>>
    BY <1>12 DEF ClearAll, RestoreClear, Cleared, NoWal
  <2>2. N1'
    BY <1>1, <1>4, <2>1 DEF N1
  <2> QED
    BY <1>2, <1>5, <2>1, <2>2
<1>13. ASSUME NEW type, NEW target, BeginBackup(type, target) PROVE Numbers'
  <2>. DEFINE d == [files |-> <<>>, recs |-> {}, flushed |-> {}, manifest |-> Empty,
                    info |-> NoInfo, taken |-> Contents(files, manifest, wal), flaws |-> {}]
  <2>1. dirs' = With(dirs, made + 1, d) /\ d.recs = {}
    BY <1>13 DEF BeginBackup
  <2>. HIDE DEF d
  <2>2. N2'
    <3>1. \A e \in DOMAIN dirs' : dirs'[e] = d \/ (e \in DOMAIN dirs /\ dirs'[e] = dirs[e])
      BY <2>1 DEF With
    <3> QED
      BY <1>1, <1>3, <1>13, <2>1, <3>1 DEF N2, BeginBackup
  <2> QED
    BY <1>2, <1>6, <1>13, <2>2 DEF BeginBackup, store
<1>14. CASE \E type \in Types : CreateBackup(type)
  BY <1>13, <1>14 DEF CreateBackup
<1>15. CASE CopyTables \/ CopySegments \/ Finish
  <2>1. BackingUp /\ UNCHANGED <<wal, mem, imm, worker, written>>
    BY <1>15 DEF CopyTables, CopySegments, Finish, BackingUp, store, history
  <2>2. job.id \in DOMAIN dirs /\ dirs[job.id] \in Dirs /\ LiveWal.recs \subseteq wal.recs
    BY <2>1 DEF Books, Listing, TypeOK, LiveWal, NoWal
  <2>3. N2'
    <3>1. CASE dirs' = Restrict(dirs, DOMAIN dirs \ Partial)
      BY <1>7, <2>1, <3>1
    <3>2. CASE dirs' # Restrict(dirs, DOMAIN dirs \ Partial)
      <4>1. DOMAIN dirs' = DOMAIN dirs /\ \A e \in DOMAIN dirs : e # job.id => dirs'[e] = dirs[e]
        BY <1>15, <3>2 DEF CopyTables, CopySegments, Finish, TypeOK
      <4>2. dirs'[job.id].recs \in {dirs[job.id].recs, LiveWal.recs}
        BY <1>15, <2>2, <3>2, SMTT(40) DEF CopyTables, CopySegments, Finish, TypeOK, Dirs
      <4>3. wal.recs \subseteq 0 .. written
        BY <1>1 DEF N1
      <4> QED
        BY <1>1, <1>3, <2>1, <2>2, <4>1, <4>2, <4>3 DEF N2
    <3> QED
      BY <3>1, <3>2
  <2> QED
    BY <1>2, <1>6, <2>1, <2>3
<1>16. CASE \E id \in listed : RestoreFromBackup(id) \/ DeleteBackup(id) \/ CascadeDelete(id)
  <2>1. PICK id \in listed : RestoreFromBackup(id) \/ DeleteBackup(id) \/ CascadeDelete(id)
    BY <1>16
  <2>2. CASE RestoreFromBackup(id)
    BY <1>13, <2>2 DEF RestoreFromBackup
  <2>3. CASE DeleteBackup(id) \/ CascadeDelete(id)
    BY <1>2, <1>5, <1>6, <2>3 DEF DeleteBackup, CascadeDelete, store, history
  <2> QED
    BY <2>1, <2>2, <2>3
<1>17. CASE RestoreBackup
  <2>1. PICK e \in DOMAIN dirs : wal'.recs = dirs[e].recs
    BY <1>17, RestoredWal
  <2>2. UNCHANGED <<mem, imm, worker, dirs, written>>
    BY <1>17 DEF RestoreBackup, history
  <2>3. N1'
    BY <1>1, <1>4, <2>1, <2>2 DEF N1, N2
  <2> QED
    BY <1>2, <1>5, <2>2, <2>3
<1>18. CASE Reinitialize
  <2>1. CASE GoDown
    BY <1>8, <1>18, <2>1 DEF Reinitialize
  <2>2. CASE ~GoDown
    <3>1. mem' = wal.recs \ wal.flushed /\ UNCHANGED <<wal, imm, worker, dirs, written>>
      BY <1>18, <2>2 DEF Reinitialize
    <3>2. N1'
      BY <1>1, <1>4, <3>1 DEF N1
    <3> QED
      BY <1>2, <1>5, <3>1, <3>2
  <2> QED
    BY <2>1, <2>2
<1>19. CASE DeleteDirectory
  <2>1. \E id : dirs' = Restrict(dirs, DOMAIN dirs \ {id})
    BY <1>19 DEF DeleteDirectory
  <2> QED
    BY <1>2, <1>6, <1>7, <1>19, <2>1 DEF DeleteDirectory, store
<1>20. CASE RemoveBackup
  BY <1>2, <1>5, <1>6, <1>20 DEF RemoveBackup, store
<1>21. CASE DeleteAllBackups
  <2>1. N2'
    BY <1>3, <1>21, EmptyFunction DEF DeleteAllBackups
  <2> QED
    BY <1>2, <1>6, <1>21, <2>1 DEF DeleteAllBackups, store
<1>22. CASE Crash
  BY <1>8, <1>22 DEF Crash
<1>23. CASE Restart
  <2>1. mem' \subseteq mem \cup wal.recs /\ UNCHANGED <<wal, imm, worker, dirs, written>>
    BY <1>23 DEF Restart, history
  <2>2. N1'
    BY <1>1, <1>4, <2>1 DEF N1
  <2> QED
    BY <1>2, <1>5, <2>1, <2>2
<1> QED
  BY <1>9, <1>10, <1>11, <1>12, <1>14, <1>15, <1>16, <1>17, <1>18, <1>19, <1>20, <1>21, <1>22, <1>23
     DEF Next

(* Records leave the log only when the table file has them.                *)
LEMMA FlushedKept ==
    ASSUME TypeOK, Queue, MemtableFlushed, ~degraded
    PROVE  /\ Contents(files, manifest, wal') = Contents(files, manifest, wal)
           /\ wal'.recs = wal.recs /\ Unflushed' \subseteq (mem \cup imm) \cap Unflushed
<1>1. /\ status = "up" /\ worker.pc = "wal" /\ wal'.recs = wal.recs
      /\ wal'.flushed = {r \in wal.recs : \E t \in worker.tab : r <= t} \cup wal.flushed
  BY DEF MemtableFlushed, WorkerStep, TypeOK, Wals
<1>2. /\ Unflushed \subseteq mem \cup imm \cup worker.tab
      /\ \A a \in worker.tab, b \in imm \cup mem : a < b
      /\ worker.tab \subseteq InTables
  BY <1>1 DEF Queue
<1>3. /\ mem \cup imm \cup worker.tab \subseteq Nat /\ wal.recs \subseteq Nat
  BY DEF TypeOK, Wals
<1>4. Unflushed' = {r \in Unflushed : \A t \in worker.tab : ~(r <= t)}
  BY <1>1 DEF Unflushed
<1>5. \A r \in Unflushed : r \in Unflushed' \/ r \in worker.tab
  BY <1>2, <1>3, <1>4
<1>6. \A r \in Unflushed' : r \in Unflushed /\ r \in mem \cup imm
  BY <1>2, <1>3, <1>4
<1>7. InTables \cup Unflushed' = InTables \cup Unflushed
  BY <1>2, <1>5, <1>6
<1>8. /\ Contents(files, manifest, wal) = InTables \cup Unflushed
      /\ Contents(files, manifest, wal') = InTables \cup Unflushed'
  BY DEF Contents, InTables, Unflushed
<1> QED
  BY <1>1, <1>6, <1>7, <1>8

(* The memtables and the log stay in step.                                 *)
LEMMA QueueStep ==
    ASSUME TypeOK, Books, Restoring, Numbers, Queue, Next
    PROVE  Queue'
<1>1. CASE status' # "up" \/ degraded'
  BY <1>1 DEF Queue
<1>2. CASE UNCHANGED <<status, degraded, files, manifest, wal, mem, imm, worker>>
  BY <1>2 DEF Queue, InTables, Unflushed
<1>3. CASE GoDown
  BY <1>1, <1>3 DEF GoDown
<1>4. CASE Write
  <2>1. CASE degraded
    BY <1>3, <1>4, <2>1 DEF Write
  <2>2. CASE ~degraded
    <3>1. /\ mem' = mem \cup {written + 1} /\ wal'.recs = wal.recs \cup {written + 1}
          /\ wal'.flushed = wal.flushed /\ UNCHANGED <<files, manifest, imm, worker>>
          /\ status = "up"
      BY <1>4, <2>2 DEF Write, Ready, TypeOK, Wals
    <3>2. written \in Nat /\ \A a \in imm \cup worker.tab : a \in Nat /\ a < written + 1
      BY DEF Numbers, TypeOK
    <3>3. Unflushed' \subseteq Unflushed \cup {written + 1} /\ InTables' = InTables
      BY <3>1 DEF Unflushed, InTables
    <3> QED
      BY <2>2, <3>1, <3>2, <3>3 DEF Queue
  <2> QED
    BY <2>1, <2>2
<1>5. CASE Rotate
  <2>1. /\ imm = {} /\ imm' = mem /\ mem' = {} /\ status = "up" /\ ~degraded
        /\ UNCHANGED <<files, manifest, wal, worker>>
    BY <1>5 DEF Rotate, Ready
  <2>2. Unflushed' = Unflushed /\ InTables' = InTables
    BY <2>1 DEF Unflushed, InTables
  <2> QED
    BY <2>1, <2>2 DEF Queue
<1>6. CASE ClearAll
  <2>1. /\ wal' = NoWal /\ mem' = {} /\ Calm /\ UNCHANGED <<imm, worker>>
    BY <1>6 DEF ClearAll, Cleared
  <2>2. Unflushed' = {}
    BY <2>1 DEF Unflushed, NoWal
  <2> QED
    BY <2>1, <2>2 DEF Queue, Calm
<1>7. CASE FlushToSSTable
  <2>1. /\ status = "up" /\ worker.pc = "idle" /\ worker'.pc = "wal" /\ worker'.tab = imm
        /\ imm' = {} /\ UNCHANGED <<status, wal, mem, degraded>>
        /\ files' = With(files, manifest.next, imm)
        /\ manifest'.names = manifest.names \cup {manifest.next}
    BY <1>7 DEF FlushToSSTable, WorkerStep
  <2>2. manifest.next \in manifest'.names \cap DOMAIN files' /\ files'[manifest.next] = imm
    BY <2>1 DEF With
  <2>3. imm \subseteq InTables' /\ Unflushed' = Unflushed
    BY <2>1, <2>2 DEF InTables, Unflushed
  <2> QED
    BY <2>1, <2>3 DEF Queue
<1>8. CASE MemtableFlushed
  <2>1. UNCHANGED <<status, degraded, mem, imm>> /\ worker'.pc = "compact"
    BY <1>8 DEF MemtableFlushed, WorkerStep
  <2>2. ~degraded => Unflushed' \subseteq (mem \cup imm) \cap Unflushed
    BY <1>8, FlushedKept
  <2> QED
    BY <2>1, <2>2 DEF Queue
<1>9. CASE Compact
  <2>1. UNCHANGED <<status, degraded, mem, imm, wal>> /\ worker'.pc = "idle" /\ worker.pc = "compact"
    BY <1>9 DEF Compact, WorkerStep, TypeOK
  <2>2. Unflushed' = Unflushed
    BY <2>1 DEF Unflushed
  <2> QED
    BY <2>1, <2>2 DEF Queue
<1>10. CASE \E type \in Types : CreateBackup(type)
  BY <1>2, <1>10 DEF CreateBackup, BeginBackup, store
<1>11. CASE CopyTables \/ CopySegments \/ Finish
  BY <1>2, <1>11 DEF CopyTables, CopySegments, Finish, store
<1>12. CASE \E id \in listed : RestoreFromBackup(id) \/ DeleteBackup(id) \/ CascadeDelete(id)
  BY <1>2, <1>12 DEF RestoreFromBackup, BeginBackup, DeleteBackup, CascadeDelete, store
<1>13. CASE RestoreClear
  BY <1>1, <1>13 DEF RestoreClear
<1>14. CASE RestoreBackup
  BY <1>1, <1>14 DEF RestoreBackup, Restoring
<1>15. CASE Reinitialize
  <2>1. CASE ~GoDown
    <3>1. mem' = wal.recs \ wal.flushed /\ UNCHANGED <<wal, imm, worker>>
      BY <1>15, <2>1 DEF Reinitialize
    <3>2. Calm
      BY <1>15 DEF Reinitialize, Restoring
    <3>3. Unflushed' = mem'
      BY <3>1 DEF Unflushed
    <3> QED
      BY <3>1, <3>2, <3>3 DEF Queue, Calm
  <2> QED
    BY <1>3, <2>1
<1>16. CASE DeleteDirectory \/ RemoveBackup \/ DeleteAllBackups
  BY <1>2, <1>16 DEF DeleteDirectory, RemoveBackup, DeleteAllBackups, store
<1>17. CASE Crash
  BY <1>3, <1>17 DEF Crash
<1>18. CASE Restart
  <2>1. CASE status' = "up"
    <3>1. mem' = wal.recs \ wal.flushed /\ UNCHANGED <<wal, imm, worker>> /\ status = "down"
      BY <1>18, <2>1 DEF Restart
    <3>2. imm = {} /\ worker.pc = "idle"
      BY <3>1 DEF Books, Blank
    <3>3. Unflushed' = mem'
      BY <3>1 DEF Unflushed
    <3> QED
      BY <3>1, <3>2, <3>3 DEF Queue
  <2> QED
    BY <1>1, <2>1
<1> QED
  BY <1>4, <1>5, <1>6, <1>7, <1>8, <1>9, <1>10, <1>11, <1>12, <1>13, <1>14, <1>15, <1>16, <1>17, <1>18
     DEF Next

(* An undisturbed backup stays a copy.                                     *)
LEMMA JobCopiesStep ==
    ASSUME TypeOK, Books, Queue, JobCopies, Next
    PROVE  JobCopies'
<1>1. CASE job'.pc \notin {"copy", "wal", "finish"}
  BY <1>1 DEF JobCopies, BackingUp
<1>2. CASE GoDown
  BY <1>1, <1>2, JobFields DEF GoDown
<1>3. CASE Write \/ Rotate \/ ClearAll
  BY <1>1, <1>2, <1>3 DEF Write, Rotate, ClearAll, Ready
<1>4. CASE FlushToSSTable \/ MemtableFlushed \/ Compact
  <2>1. /\ UNCHANGED <<degraded, dirs, infos, last>>
    BY <1>4 DEF FlushToSSTable, MemtableFlushed, Compact, WorkerStep, manager
  <2>2. CASE MarkRaced
    <3>1. job'.pc = job.pc /\ (job'.raced <=> BackingUp)
      BY <2>2 DEF MarkRaced, TypeOK, Jobs
    <3> QED
      BY <3>1 DEF JobCopies, BackingUp
  <2>3. CASE job' = job /\ UNCHANGED <<files, manifest>>
    <3>1. NewFiles' = NewFiles
      BY <2>1, <2>3, SameNewFiles
    <3>2. ~degraded => /\ Contents(files, manifest, wal)' = Contents(files, manifest, wal)
                       /\ wal'.recs = wal.recs
      <4>1. CASE MemtableFlushed
        <5>1. Contents(files, manifest, wal)' = Contents(files, manifest, wal')
          BY <2>3 DEF Contents
        <5> QED
          BY <4>1, <5>1, FlushedKept
      <4>2. CASE ~MemtableFlushed
        <5>1. wal' = wal
          BY <1>4, <4>2 DEF FlushToSSTable, Compact
        <5> QED
          BY <2>3, <5>1 DEF Contents
      <4> QED
        BY <4>1, <4>2
    <3> QED
      BY <2>1, <2>3, <3>1, <3>2 DEF JobCopies, BackingUp
  <2> QED
    BY <1>4, <2>2, <2>3 DEF FlushToSSTable, MemtableFlushed, Compact
<1>5. ASSUME NEW type, NEW target, BeginBackup(type, target) PROVE JobCopies'
  <2>. DEFINE d == [files |-> <<>>, recs |-> {}, flushed |-> {}, manifest |-> Empty,
                    info |-> NoInfo, taken |-> Contents(files, manifest, wal), flaws |-> {}]
  <2>1. dirs' = With(dirs, made + 1, d) /\ d.taken = Contents(files, manifest, wal)
    BY <1>5 DEF BeginBackup
  <2>2. job'.pc = "copy" /\ job'.id = made + 1 /\ UNCHANGED <<files, manifest, wal>>
    BY <1>5 DEF BeginBackup, NewJob, NoJob, store
  <2>. HIDE DEF d
  <2>3. dirs'[made + 1] = d
    BY <2>1 DEF With
  <2>4. Contents(files, manifest, wal)' = Contents(files, manifest, wal)
    BY <2>2 DEF Contents
  <2> QED
    BY <2>1, <2>2, <2>3, <2>4 DEF JobCopies
<1>6. CASE \E type \in Types : CreateBackup(type)
  BY <1>5, <1>6 DEF CreateBackup
<1>7. CASE CopyTables
  <2>1. CASE job' = NoJob
    BY <1>1, <2>1, JobFields
  <2>2. CASE job' # NoJob
    <3>1. /\ dirs' = [dirs EXCEPT ![job.id].files = Restrict(files, NewFiles \cap DOMAIN files)]
          /\ job' = [job EXCEPT !.pc = "wal", !.tables = @ \cap DOMAIN files]
          /\ UNCHANGED <<files, manifest, wal, degraded, infos, last>> /\ BackingUp
      BY <1>7, <2>2 DEF CopyTables, store, manager, BackingUp
    <3>2. /\ job'.pc = "wal" /\ job'.id = job.id /\ job'.raced = job.raced
          /\ job'.tables = job.tables \cap DOMAIN files /\ job'.type = job.type
      BY <3>1 DEF TypeOK, Jobs
    <3>3. job.id \in DOMAIN dirs /\ dirs[job.id] \in Dirs
      BY <3>1 DEF Books, Listing, TypeOK
    <3>4. /\ dirs'[job.id].files = Restrict(files, NewFiles \cap DOMAIN files)
          /\ dirs'[job.id].taken = dirs[job.id].taken
      BY <3>1, <3>3 DEF TypeOK, Dirs
    <3>5. NewFiles' = NewFiles \cap DOMAIN files
      <4>1. Base' = Base /\ Bases' = Bases
        BY <3>1, <3>2 DEF Base, Bases
      <4>2. \A id : Chain(id)' = Chain(id)
        BY <4>1 DEF Chain, Reach
      <4> QED
        BY <3>1, <3>2, <4>1, <4>2 DEF NewFiles, ContainsFile
    <3>6. \A n \in NewFiles' : dirs'[job.id].files[n] = files[n]
      BY <3>4, <3>5, RestrictFacts
    <3>7. Contents(files, manifest, wal)' = Contents(files, manifest, wal)
      BY <3>1 DEF Contents
    <3> QED
      BY <3>1, <3>2, <3>4, <3>6, <3>7 DEF JobCopies
  <2> QED
    BY <2>1, <2>2
<1>8. CASE CopySegments
  <2>1. /\ dirs' = [dirs EXCEPT ![job.id].recs = LiveWal.recs] /\ job.pc = "wal"
        /\ UNCHANGED <<files, manifest, wal, degraded, infos, last>> /\ BackingUp
    BY <1>8 DEF CopySegments, store, manager, BackingUp
  <2>2. /\ job'.pc = "finish" /\ job'.id = job.id /\ job'.raced = job.raced
        /\ job'.tables = job.tables /\ job'.type = job.type
    BY <1>8 DEF CopySegments, TypeOK, Jobs
  <2>3. job.id \in DOMAIN dirs /\ dirs[job.id] \in Dirs
    BY <2>1 DEF Books, Listing, TypeOK
  <2>4. /\ dirs'[job.id].files = dirs[job.id].files /\ dirs'[job.id].taken = dirs[job.id].taken
        /\ dirs'[job.id].recs = LiveWal.recs
    BY <2>1, <2>3 DEF TypeOK, Dirs
  <2>5. NewFiles' = NewFiles
    BY <2>1, <2>2, SameNewFiles
  <2>6. Contents(files, manifest, wal)' = Contents(files, manifest, wal)
    BY <2>1 DEF Contents
  <2> QED
    BY <2>1, <2>2, <2>4, <2>5, <2>6 DEF JobCopies, LiveWal
<1>9. CASE Finish
  <2>1. job'.pc \in {"idle", "clear"}
    BY <1>9 DEF Finish, NoJob, TypeOK, Jobs
  <2> QED
    BY <1>1, <2>1
<1>10. CASE \E id \in listed : RestoreFromBackup(id) \/ DeleteBackup(id) \/ CascadeDelete(id)
  <2>1. PICK id \in listed : RestoreFromBackup(id) \/ DeleteBackup(id) \/ CascadeDelete(id)
    BY <1>10
  <2>2. CASE RestoreFromBackup(id)
    BY <1>5, <2>2 DEF RestoreFromBackup
  <2>3. CASE DeleteBackup(id) \/ CascadeDelete(id)
    <3>1. job'.pc = "delete"
      BY <2>3 DEF DeleteBackup, CascadeDelete, NoJob
    <3> QED
      BY <1>1, <3>1
  <2> QED
    BY <2>1, <2>2, <2>3
<1>11. CASE RestoreClear \/ RestoreBackup \/ Reinitialize
  <2>1. GoDown \/ job'.pc \in {"idle", "restore", "reinitialize", "delete"}
    BY <1>11, RestoreJob
  <2> QED
    BY <1>1, <1>2, <2>1
<1>12. CASE DeleteDirectory \/ RemoveBackup \/ DeleteAllBackups
  <2>1. job'.pc \in {"idle", "unlist", "delete"}
    BY <1>12, DeleteJob
  <2> QED
    BY <1>1, <2>1
<1>13. CASE Crash
  BY <1>2, <1>13 DEF Crash
<1>14. CASE Restart
  <2>1. job' = job /\ job.pc = "idle"
    BY <1>14 DEF Restart, Books, Blank, NoJob
  <2> QED
    BY <1>1, <2>1
<1> QED
  BY <1>3, <1>4, <1>6, <1>7, <1>8, <1>9, <1>10, <1>11, <1>12, <1>13, <1>14 DEF Next

(* Contents depend only on the tables the manifest names.                  *)
LEMMA ContentsSame ==
    ASSUME NEW f, NEW g, NEW m, NEW w,
           \A n \in m.names : n \in DOMAIN f /\ n \in DOMAIN g /\ f[n] = g[n]
    PROVE  Contents(f, m, w) = Contents(g, m, w)
<1>1. m.names \cap DOMAIN f = m.names /\ m.names \cap DOMAIN g = m.names
  OBVIOUS
<1>2. {f[n] : n \in m.names} = {g[n] : n \in m.names}
  OBVIOUS
<1> QED
  BY <1>1, <1>2 DEF Contents

(* The tables of a backup that is finished undisturbed are those on disk.  *)
LEMMA FinishTables ==
    ASSUME TypeOK, Books, TypeOK', Books', Settled, Tabled, JobCopies, Finish,
           NEW id \in Nat, id = job.id, id \in Sound', dirs'[id].flaws = {},
           NEW n \in manifest.names
    PROVE  LET O == OverlayIn(dirs', DiskChain(id)')
           IN  n \in DOMAIN O /\ n \in DOMAIN files /\ O[n] = files[n]
<1>1. PICK base : base = Base
  OBVIOUS
<1>2. /\ base \in Sound \cup {0} /\ base < id
      /\ Chain(base) = DiskChain(base) /\ DiskChain(id)' = {id} \cup DiskChain(base)
      /\ \A b \in DiskChain(base) : /\ dirs'[b] = dirs[b] /\ b < id /\ b \in Sound
                                    /\ infos[b].newFiles = DOMAIN dirs[b].files
      /\ dirs'[id].files = dirs[id].files /\ dirs'[id].flaws = FlawsOf
      /\ id \in DOMAIN dirs /\ id \notin DiskChain(base)
  BY <1>1, FinishChain
<1>3. /\ status = "up" /\ job.pc = "finish" /\ BackingUp /\ Numbered /\ Complete
  BY DEF Finish, BackingUp, Books
<1>4. /\ ~job.raced /\ ~degraded
      /\ \A k \in job.tables \ NewFiles : k \in DOMAIN files /\ CopyOf(Base, k) = {files[k]}
  BY <1>2 DEF FlawsOf
<1>5. n \in job.tables /\ n \in DOMAIN files
  <2>1. LiveManifest = manifest
    BY <1>4 DEF LiveManifest
  <2>2. Opens(files, manifest)
    BY <1>3, OpensWhenUp
  <2> QED
    BY <1>3, <1>4, <2>1, <2>2 DEF Tabled, Opens
<1>6. DOMAIN dirs[id].files = NewFiles
  BY <1>3 DEF Books, Copied
<1>7. DiskChain(base) \in SUBSET Nat /\ \A b \in DiskChain(base) : b < id
  <2>1. \A b \in Sound : b \in Nat
    BY <1>3, SoundFacts, SMTT(40) DEF TypeOK
  <2> QED
    BY <1>2, <2>1
<1>8. PICK C, D : C = {id} \cup DiskChain(base) /\ D = dirs'
  OBVIOUS
<1>9. C \in SUBSET Nat /\ DiskChain(id)' = C /\ (\A b \in C : b # id => b < id)
      /\ D[id].files = dirs[id].files /\ \A b \in DiskChain(base) : D[b] = dirs[b]
  BY <1>2, <1>7, <1>8
<1>10. SUFFICES n \in DOMAIN OverlayIn(D, C) /\ OverlayIn(D, C)[n] = files[n]
  BY <1>5, <1>8, <1>9
<1>11. CASE n \in NewFiles
  <2>1. dirs[id].files[n] = files[n]
    BY <1>3, <1>4, <1>11 DEF JobCopies
  <2>2. id \in C /\ n \in DOMAIN D[id].files /\ \A b \in C : b <= id
    BY <1>6, <1>8, <1>9, <1>11
  <2>3. n \in DOMAIN OverlayIn(D, C) /\ OverlayIn(D, C)[n] = D[id].files[n]
    BY <1>9, <2>2, OverlayAt
  <2> QED
    BY <1>9, <2>1, <2>3
<1>12. CASE n \notin NewFiles
  <2>1. PICK H : H = {c \in Chain(base) : n \in infos[c].newFiles}
    OBVIOUS
  <2>2. H # {}
    BY <1>1, <1>5, <1>12, <2>1 DEF NewFiles, ContainsFile
  <2>3. H \in SUBSET Nat /\ \A c \in H : c <= id
    BY <1>2, <1>7, <2>1
  <2>4. Max(H) \in H /\ \A c \in H : c <= Max(H)
    BY <2>2, <2>3, MaxFacts
  <2>5. PICK m : m = Max(H)
    OBVIOUS
  <2>6. m \in DiskChain(base) /\ m \in DOMAIN dirs /\ m \in C
    BY <1>2, <1>3, <1>8, <2>1, <2>4, <2>5, SoundFacts
  <2>7. CopyOf(Base, n) = {dirs[m].files[n]}
    BY <1>1, <2>1, <2>5, <2>6 DEF CopyOf
  <2>8. dirs[m].files[n] = files[n]
    BY <1>4, <1>5, <1>12, <2>7
  <2>9. n \in DOMAIN D[m].files
    BY <1>2, <1>9, <2>1, <2>4, <2>5, <2>6
  <2>10. \A b \in C : n \in DOMAIN D[b].files => b \in H
    BY <1>2, <1>6, <1>8, <1>9, <1>12, <2>1
  <2>11. \A b \in C : n \in DOMAIN D[b].files => b <= m
    BY <2>4, <2>5, <2>10
  <2>12. n \in DOMAIN OverlayIn(D, C) /\ OverlayIn(D, C)[n] = D[m].files[n]
    <3>1. C \in SUBSET Nat /\ m \in C
      BY <1>9, <2>6
    <3> QED
      BY <2>9, <2>11, <3>1, OverlayAt
  <2> QED
    BY <1>9, <2>6, <2>8, <2>12
<1> QED
  BY <1>11, <1>12

(* A backup without a flaw holds what was taken, for good.                 *)
LEMMA FaithfulStep ==
    ASSUME TypeOK, Books, TypeOK', Books', Settled, Tabled, JobCopies, Faithful, Next
    PROVE  Faithful'
<1>1. Numbered /\ Complete /\ Numbered' /\ Complete'
  BY DEF Books
<1>2. /\ \A e \in Good \cap Good' : dirs'[e] = dirs[e]
      /\ Good' \subseteq Good \/ (Finish /\ Good' \subseteq Good \cup {job.id})
  BY DirsKept
<1>3. SUFFICES ASSUME NEW e \in Good', dirs'[e].flaws = {}
               PROVE  Contents(OverlayIn(dirs', DiskChain(e)'), dirs'[e].manifest, WalOf(e)')
                      = dirs'[e].taken
  BY DEF Faithful, OverlayIn, Contents
<1>4. e \in Sound'
  BY <1>3 DEF Sound, Orphan
<1>5. CASE e \in Good
  <2>1. /\ DiskChain(e)' = DiskChain(e)
        /\ OverlayIn(dirs, DiskChain(e))' = OverlayIn(dirs, DiskChain(e))
    BY <1>1, <1>2, <1>4, <1>5, ChainKept
  <2>2. dirs'[e] = dirs[e] /\ WalOf(e)' = WalOf(e)
    BY <1>2, <1>5 DEF WalOf
  <2>3. OverlayIn(dirs', DiskChain(e)') = OverlayIn(dirs, DiskChain(e))
    BY <2>1 DEF OverlayIn
  <2> QED
    BY <1>3, <1>5, <2>2, <2>3 DEF Faithful
<1>6. CASE e \notin Good
  <2>1. Finish /\ e = job.id
    BY <1>2, <1>6
  <2>2. PICK base : base = Base
    OBVIOUS
  <2>3. /\ dirs'[e].taken = dirs[e].taken /\ dirs'[e].recs = dirs[e].recs
        /\ dirs'[e].flaws = FlawsOf /\ dirs'[e].flushed = wal.flushed
        /\ dirs'[e].manifest.names = LiveManifest.names
    BY <1>4, <2>1, <2>2, FinishChain, SMTT(40)
  <2>4. ~job.raced /\ ~degraded /\ BackingUp /\ job.pc = "finish"
    BY <1>3, <2>1, <2>3 DEF FlawsOf, Finish, BackingUp
  <2>5. /\ dirs[e].taken = Contents(files, manifest, wal) /\ dirs[e].recs = wal.recs
        /\ dirs'[e].manifest.names = manifest.names
    BY <2>1, <2>3, <2>4 DEF JobCopies, LiveManifest
  <2>6. PICK O : O = OverlayIn(dirs', DiskChain(e)')
    OBVIOUS
  <2>7. \A n \in manifest.names : n \in DOMAIN O /\ n \in DOMAIN files /\ O[n] = files[n]
    <3>1. e \in Nat
      BY <1>1, <1>3, SMTT(40) DEF Numbered, Good, TypeOK
    <3> QED
      BY <1>3, <1>4, <2>1, <2>6, <3>1, FinishTables
  <2>8. PICK m, w : m = dirs'[e].manifest /\ w = WalOf(e)'
    OBVIOUS
  <2>9. w.recs = wal.recs /\ w.flushed = wal.flushed /\ m.names = manifest.names
    BY <2>3, <2>5, <2>8 DEF WalOf
  <2>10. Contents(O, m, w) = Contents(files, m, w)
    BY <2>7, <2>9, ContentsSame
  <2>11. Contents(files, m, w) = Contents(files, manifest, wal)
    BY <2>9 DEF Contents
  <2> QED
    BY <2>3, <2>5, <2>6, <2>8, <2>10, <2>11
<1> QED
  BY <1>5, <1>6

(* A sound backup without a flaw brings back what was taken.               *)
LEMMA RestoredContents ==
    ASSUME TypeOK, Books, Covered, Faithful, status = "up", torn = 0, NEW e \in Sound,
           dirs[e].flaws = {}
    PROVE  /\ RestoreInto(e).ok /\ Opens(RestoreInto(e).files, RestoreInto(e).manifest)
           /\ Contents(RestoreInto(e).files, RestoreInto(e).manifest, RestoreInto(e).wal)
              = dirs[e].taken
<1>1. /\ RestoreInto(e).ok /\ RestoreInto(e).files = OverlayIn(dirs, DiskChain(e))
      /\ RestoreInto(e).manifest = dirs[e].manifest
      /\ RestoreInto(e).wal = WalOf(e)
  BY SoundRestores DEF WalOf
<1>2. Opens(RestoreInto(e).files, RestoreInto(e).manifest)
  BY RestoredOpens
<1>3. Contents(OverlayIn(dirs, DiskChain(e)), dirs[e].manifest, WalOf(e)) = dirs[e].taken
  BY DEF Faithful, Sound
<1> QED
  BY <1>1, <1>2, <1>3

(* The backup of what a restore replaces stays until the store is open.    *)
LEMMA InBackupStep ==
    ASSUME TypeOK, Books, Restoring, InBackup, Next
    PROVE  InBackup'
<1>1. /\ \A e \in Good \cap Good' : dirs'[e] = dirs[e]
      /\ Good \subseteq Good' \/ DeleteDirectory \/ DeleteAllBackups
  BY DirsKept
<1>2. CASE prior' = prior /\ Good \subseteq Good'
  BY <1>1, <1>2 DEF InBackup
<1>3. CASE prior' = NoPrior
  BY <1>3 DEF InBackup, NoPrior
<1>4. CASE RestoreClear
  <2>1. /\ prior'.id = job.id /\ prior'.writes = dirs[job.id].taken /\ job.pc = "clear"
        /\ status = "up" /\ UNCHANGED <<dirs, entries, torn>>
    BY <1>4 DEF RestoreClear
  <2>2. job.id \in Good /\ Good' = Good
    BY <2>1 DEF Good, Entered, Books, Listing, Deleting, Numbered
  <2> QED
    BY <2>1, <2>2 DEF InBackup, Restoring
<1>5. CASE DeleteDirectory /\ prior' # NoPrior
  <2>1. PICK id : dirs' = Restrict(dirs, DOMAIN dirs \ {id}) /\ torn' = id
    BY <1>5 DEF DeleteDirectory
  <2>2. prior' = prior /\ prior.id \in DOMAIN dirs' /\ entries' = entries
    BY <1>5 DEF DeleteDirectory
  <2>3. prior.id # id
    <3>1. DOMAIN dirs' = DOMAIN dirs \ {id}
      BY <2>1, RestrictFacts
    <3> QED
      BY <2>2, <3>1
  <2>4. prior.id # 0 => prior.id \in Good /\ prior.id \in Good'
    BY <2>1, <2>2, <2>3 DEF InBackup, Good, Entered
  <2> QED
    BY <1>1, <2>2, <2>4 DEF InBackup
<1>6. CASE DeleteDirectory \/ DeleteAllBackups
  BY <1>3, <1>5, <1>6 DEF DeleteAllBackups
<1>7. CASE ~RestoreClear /\ ~DeleteDirectory /\ ~DeleteAllBackups
  <2>1. prior' = prior \/ prior' = NoPrior
    <3>1. Write \/ Rotate \/ ClearAll \/ Crash \/ Restart => prior' = prior
      BY DEF Write, Rotate, ClearAll, Crash, Restart, history
    <3>2. FlushToSSTable \/ MemtableFlushed \/ Compact => prior' = prior
      BY DEF FlushToSSTable, MemtableFlushed, Compact, WorkerStep, history
    <3>3. \A type : CreateBackup(type) \/ RestoreFromBackup(type) => prior' = prior
      BY DEF CreateBackup, RestoreFromBackup, BeginBackup
    <3>4. CopyTables \/ CopySegments \/ Finish => prior' = prior
      BY DEF CopyTables, CopySegments, Finish, history
    <3>5. \A id : DeleteBackup(id) \/ CascadeDelete(id) => prior' = prior
      BY DEF DeleteBackup, CascadeDelete, history
    <3>6. RestoreBackup \/ RemoveBackup => prior' = prior
      BY DEF RestoreBackup, RemoveBackup, history
    <3>7. Reinitialize => prior' = prior \/ prior' = NoPrior
      BY DEF Reinitialize
    <3> QED
      BY <1>7, <3>1, <3>2, <3>3, <3>4, <3>5, <3>6, <3>7 DEF Next
  <2> QED
    BY <1>1, <1>2, <1>3, <1>7, <2>1
<1> QED
  BY <1>4, <1>6, <1>7

(* Nothing happens between a failed restore and that deletion.             *)
LEMMA WatchedStep ==
    ASSUME TypeOK, Books, Restoring, Watched, Next
    PROVE  Watched'
<1>1. CASE ~degraded'
  BY <1>1 DEF Watched
<1>2. CASE GoDown
  BY <1>1, <1>2 DEF GoDown
<1>3. degraded /\ job.pc \notin {"restore", "reinitialize", "delete"} => prior.id = 0
  BY DEF Watched
<1>4. CASE /\ job.pc \notin {"restore", "reinitialize", "delete"}
           /\ degraded' = degraded /\ (prior' = prior \/ prior' = NoPrior)
  BY <1>3, <1>4 DEF Watched, NoPrior
<1>5. CASE Write \/ Rotate \/ ClearAll
  BY <1>1, <1>2, <1>5 DEF Write, Rotate, ClearAll
<1>6. CASE FlushToSSTable \/ MemtableFlushed \/ Compact
  <2>1. ~Calm /\ degraded' = degraded
    BY <1>6 DEF FlushToSSTable, MemtableFlushed, Compact, WorkerStep, Calm
  <2> QED
    BY <1>1, <2>1 DEF Restoring
<1>7. CASE \E type \in Types : CreateBackup(type)
  BY <1>4, <1>7 DEF CreateBackup, BeginBackup, Ready
<1>8. CASE CopyTables \/ CopySegments \/ Finish
  BY <1>4, <1>8 DEF CopyTables, CopySegments, Finish, history
<1>9. CASE \E id \in listed : RestoreFromBackup(id) \/ DeleteBackup(id) \/ CascadeDelete(id)
  BY <1>4, <1>9 DEF RestoreFromBackup, BeginBackup, DeleteBackup, CascadeDelete, Ready, history
<1>10. CASE RestoreClear
  <2>1. job'.pc = "restore"
    BY <1>10 DEF RestoreClear, TypeOK, Jobs
  <2> QED
    BY <2>1 DEF Watched
<1>11. CASE RestoreBackup
  <2>1. prior.id = job.id /\ prior' = prior
    BY <1>11 DEF RestoreBackup, Restoring, history
  <2>2. CASE job' = [job EXCEPT !.pc = "reinitialize"]
    <3>1. job'.pc = "reinitialize"
      BY <2>2 DEF TypeOK, Jobs
    <3> QED
      BY <3>1 DEF Watched
  <2>3. CASE job' = [NoJob EXCEPT !.pc = "delete", !.todo = {job.id}]
    <3>1. job'.pc = "delete" /\ job'.todo = {job.id}
      BY <2>3, JobFields
    <3> QED
      BY <2>1, <3>1 DEF Watched
  <2> QED
    BY <1>11, <2>2, <2>3 DEF RestoreBackup
<1>12. CASE Reinitialize
  BY <1>1, <1>2, <1>12 DEF Reinitialize
<1>13. CASE DeleteDirectory
  <2>1. PICK id \in job.todo : dirs' = Restrict(dirs, DOMAIN dirs \ {id})
    BY <1>13 DEF DeleteDirectory
  <2>2. /\ job.pc = "delete" /\ degraded' = degraded
        /\ prior' = IF prior.id \notin DOMAIN dirs' THEN NoPrior ELSE prior
    BY <1>13 DEF DeleteDirectory
  <2>3. id \notin DOMAIN dirs'
    <3>1. DOMAIN dirs' = DOMAIN dirs \ {id}
      BY <2>1, RestrictFacts
    <3> QED
      BY <3>1
  <2>4. degraded => prior'.id = 0
    BY <2>1, <2>2, <2>3 DEF Watched, NoPrior
  <2> QED
    BY <2>2, <2>4 DEF Watched
<1>14. CASE RemoveBackup \/ DeleteAllBackups
  BY <1>4, <1>14 DEF RemoveBackup, DeleteAllBackups, Ready
<1>15. CASE Crash
  BY <1>2, <1>15 DEF Crash
<1>16. CASE Restart
  <2>1. degraded' = degraded /\ status = "down"
    BY <1>16 DEF Restart
  <2> QED
    BY <1>1, <2>1 DEF Books, Blank
<1> QED
  BY <1>5, <1>6, <1>7, <1>8, <1>9, <1>10, <1>11, <1>12, <1>13, <1>14, <1>15, <1>16 DEF Next

(* A failed restore puts the old store back before it deletes the backup.  *)
LEMMA PutBackStep ==
    ASSUME TypeOK, Books, Books', Covered, Faithful, Restoring, Watched, PutBack, Next
    PROVE  PutBack'
<1>1. SUFFICES ASSUME job'.pc = "delete", prior'.id \in job'.todo, degraded',
                      dirs'[prior'.id].flaws = {}
               PROVE  /\ Opens(files', manifest')
                      /\ Contents(files', manifest', wal') = prior'.writes
  BY DEF PutBack, Opens, Contents
<1>2. prior'.id # 0
  <2>1. job'.todo \subseteq listed' /\ Entered' \subseteq 1 .. made' /\ (status' = "up" => listed' = Entered')
    BY <1>1 DEF Books, Deleting, Numbered, Listing
  <2>2. status' = "up"
    BY <1>1 DEF Books, Blank
  <2> QED
    BY <1>1, <2>1, <2>2
<1>3. ~GoDown
  BY <1>1 DEF GoDown
<1>4. ASSUME degraded' = degraded, job.pc \notin {"restore", "reinitialize", "delete"}, prior' = prior
      PROVE  FALSE
  BY <1>1, <1>2, <1>4 DEF Watched
<1>5. CASE Write \/ Rotate \/ ClearAll
  BY <1>1, <1>3, <1>5 DEF Write, Rotate, ClearAll
<1>6. CASE FlushToSSTable \/ MemtableFlushed \/ Compact
  <2>1. ~Calm /\ degraded' = degraded
    BY <1>6 DEF FlushToSSTable, MemtableFlushed, Compact, WorkerStep, Calm
  <2> QED
    BY <1>1, <2>1 DEF Restoring
<1>7. CASE \E type \in Types : CreateBackup(type)
  BY <1>4, <1>7 DEF CreateBackup, BeginBackup, Ready
<1>8. CASE CopyTables \/ CopySegments \/ Finish
  BY <1>4, <1>8 DEF CopyTables, CopySegments, Finish, history
<1>9. CASE \E id \in listed : RestoreFromBackup(id) \/ DeleteBackup(id) \/ CascadeDelete(id)
  BY <1>4, <1>9 DEF RestoreFromBackup, BeginBackup, DeleteBackup, CascadeDelete, Ready, history
<1>10. CASE RestoreClear
  <2>1. job'.pc = "restore"
    BY <1>10 DEF RestoreClear, TypeOK, Jobs
  <2> QED
    BY <1>1, <2>1
<1>11. CASE RestoreBackup
  <2>1. PICK id : id = job.id
    OBVIOUS
  <2>2. /\ torn = 0 /\ id \in Sound /\ status = "up" /\ prior' = prior /\ prior.id = id
        /\ prior.writes = dirs[id].taken /\ dirs' = dirs
    BY <1>11, <2>1, RestoreCases DEF RestoreBackup, Restoring, history
  <2>3. job' # [job EXCEPT !.pc = "reinitialize"]
    <3>1. [job EXCEPT !.pc = "reinitialize"].pc = "reinitialize"
      BY DEF TypeOK, Jobs
    <3> QED
      BY <1>1, <3>1
  <2>4. PICK f, g, m, w : /\ f = RestoreInto(id).files /\ g = RestoreInto(job.target).files
                          /\ m = RestoreInto(id).manifest /\ w = RestoreInto(id).wal
    OBVIOUS
  <2>5. files' = Over(f, g) /\ manifest' = m /\ wal' = w
    BY <1>11, <2>1, <2>3, <2>4, RestoreCases
  <2>6. Opens(f, m) /\ Contents(f, m, w) = dirs[id].taken
    BY <1>1, <2>2, <2>4, RestoredContents
  <2>7. PICK o : o = Over(f, g)
    OBVIOUS
  <2>8. \A n \in m.names : n \in DOMAIN f /\ n \in DOMAIN o /\ o[n] = f[n]
    BY <2>6, <2>7 DEF Opens, Over
  <2>9. Contents(o, m, w) = Contents(f, m, w)
    BY <2>8, ContentsSame
  <2> QED
    BY <2>2, <2>5, <2>6, <2>7, <2>8, <2>9 DEF Opens
<1>12. CASE Reinitialize
  BY <1>1, <1>3, <1>12 DEF Reinitialize
<1>13. CASE DeleteDirectory
  <2>1. job'.pc = "unlist"
    BY <1>13 DEF DeleteDirectory, TypeOK, Jobs
  <2> QED
    BY <1>1, <2>1
<1>14. CASE RemoveBackup
  BY <1>4, <1>14 DEF RemoveBackup
<1>15. CASE DeleteAllBackups
  BY <1>1, <1>15 DEF DeleteAllBackups, Ready
<1>16. CASE Crash \/ Restart
  <2>1. ~Crash
    BY <1>3 DEF Crash
  <2>2. Restart /\ status = "down" /\ job' = job
    BY <1>16, <2>1 DEF Restart
  <2> QED
    BY <1>1, <2>2 DEF Books, Blank, NoJob
<1> QED
  BY <1>5, <1>6, <1>7, <1>8, <1>9, <1>10, <1>11, <1>12, <1>13, <1>14, <1>15, <1>16 DEF Next

-----------------------------------------------------------------------------
(* The inductive invariant and the theorems.                               *)

Copies == Numbers /\ Queue /\ JobCopies /\ Faithful

SafetyNet == InBackup /\ Watched /\ PutBack

Inv == TypeOK /\ Books /\ StoreInv /\ Copies /\ SafetyNet

(* The invariant holds initially.                                          *)
LEMMA InitInv ==
    ASSUME Init
    PROVE  Inv
<1>1. /\ DOMAIN files = {} /\ DOMAIN infos = {} /\ DOMAIN dirs = {} /\ entries \in Seq(Nat)
      /\ Entered = {} /\ Good = {} /\ files \in Tables
  BY EmptyFunction, TablesFacts DEF Init, Entered, Good, ToSet
<1>2. /\ job.pc = "idle" /\ job.target = 0 /\ job.raced = FALSE /\ prior.id = 0 /\ job = NoJob
      /\ manifest.names = {} /\ wal.recs = {} /\ worker.pc = "idle" /\ worker.tab = {}
      /\ ~BackingUp
  BY JobFields DEF Init, NoPrior, Empty, NoWal, BackingUp
<1>3. TypeOK
  <2>1. infos \in [DOMAIN infos -> Infos] /\ dirs \in [DOMAIN dirs -> Dirs]
    BY EmptyFunction DEF Init
  <2> QED
    BY <1>1, <2>1, RecordTypes DEF Init, TypeOK
<1>4. Books
  <2>1. Blank /\ Complete /\ Agree /\ Copied
    BY <1>1, <1>2 DEF Init, Blank, Complete, Agree, Copied
  <2>2. Numbered /\ Listing /\ Deleting
    BY <1>1, <1>2 DEF Init, Numbered, Listing, Deleting, Partial
  <2> QED
    BY <2>1, <2>2 DEF Books
<1>5. StoreInv
  <2>1. Covered /\ StartFailsOnly
    BY <1>1 DEF Init, Covered, Sound, StartFailsOnly
  <2>2. Settled /\ Restoring /\ Tabled
    BY <1>1, <1>2 DEF Init, Settled, Opens, Restoring, Tabled
  <2> QED
    BY <2>1, <2>2 DEF StoreInv
<1>6. Copies
  <2>1. Numbers
    BY <1>1, <1>2 DEF Init, Numbers
  <2>2. Queue
    BY <1>2 DEF Init, Queue, Unflushed
  <2>3. JobCopies /\ Faithful
    BY <1>1, <1>2 DEF JobCopies, Faithful
  <2> QED
    BY <2>1, <2>2, <2>3 DEF Copies
<1>7. SafetyNet
  BY <1>2 DEF Init, SafetyNet, InBackup, Watched, PutBack
<1> QED
  BY <1>3, <1>4, <1>5, <1>6, <1>7 DEF Inv

(* Every action keeps the invariant.                                       *)
LEMMA NextInv ==
    ASSUME Inv, Next
    PROVE  Inv'
<1>1. /\ TypeOK /\ Books /\ StoreInv /\ Numbers /\ Queue /\ JobCopies /\ Faithful
      /\ InBackup /\ Watched /\ PutBack
      /\ Numbered /\ Listing /\ Deleting /\ Complete /\ Blank
      /\ Covered /\ Settled /\ Restoring /\ Tabled
  BY DEF Inv, Copies, SafetyNet, StoreInv, Books
<1>2. worker.pc = "compact" => Opens(files, manifest)
  <2>1. SUFFICES ASSUME worker.pc = "compact" PROVE Opens(files, manifest)
    OBVIOUS
  <2>2. status = "up" /\ ~Calm
    BY <1>1, <2>1 DEF Blank, Calm
  <2>3. job.pc # "reinitialize"
    <3>1. job.pc = "reinitialize" => job.target \in listed /\ 0 \notin listed
      BY <1>1, <2>2 DEF Listing, Numbered
    <3> QED
      BY <1>1, <2>2, <3>1 DEF Restoring
  <2> QED
    BY <1>1, <2>2, <2>3, OpensWhenUp
<1>3. TypeOK'
  BY <1>1, <1>2, TypeStep
<1>4. Books'
  BY <1>1, BooksStep
<1>5. StoreInv'
  BY <1>1, <1>3, <1>4, CoveredStep, SettledStep, RestoringStep, TabledStep, StartStep DEF StoreInv
<1>6. Copies'
  BY <1>1, <1>3, <1>4, NumbersStep, QueueStep, JobCopiesStep, FaithfulStep DEF Copies
<1>7. SafetyNet'
  BY <1>1, <1>4, InBackupStep, WatchedStep, PutBackStep DEF SafetyNet
<1> QED
  BY <1>3, <1>4, <1>5, <1>6, <1>7 DEF Inv

(* So does a step that changes nothing.                                    *)
LEMMA StutterInv ==
    ASSUME Inv, UNCHANGED vars
    PROVE  Inv'
<1>1. /\ UNCHANGED <<status, files, manifest, wal, mem, imm, worker, degraded, infos, listed, last>>
      /\ UNCHANGED <<dirs, entries, job, written, made, upsets, prior, torn>>
  BY DEF vars, store, manager, history
<1>2. TypeOK'
  BY <1>1 DEF Inv, TypeOK
<1>3. /\ Entered' = Entered /\ Good' = Good /\ Partial' = Partial /\ BackingUp' = BackingUp
      /\ LiveManifest' = LiveManifest /\ Calm' = Calm /\ DiskBases' = DiskBases
      /\ \A e : Orphan(e)' = Orphan(e)
  BY <1>1 DEF Entered, Good, Partial, BackingUp, LiveManifest, Calm, DiskBases, Orphan
<1>4. NewFiles' = NewFiles
  BY <1>1, SameNewFiles
<1>5. Sound' = Sound /\ \A e : DiskChain(e)' = DiskChain(e)
  BY <1>3 DEF Sound, DiskChain, Reach
<1>6. Books'
  <2>1. Blank' /\ Numbered' /\ Listing' /\ Deleting' /\ Copied'
    BY <1>1, <1>3, <1>4 DEF Inv, Books, Blank, Numbered, Listing, Deleting, Copied
  <2>2. Complete' /\ Agree'
    BY <1>1, <1>3 DEF Inv, Books, Complete, Agree
  <2> QED
    BY <2>1, <2>2 DEF Books
<1>7. StoreInv'
  <2>1. Covered' /\ Tabled' /\ StartFailsOnly'
    BY <1>1, <1>3, <1>5 DEF Inv, StoreInv, Covered, Tabled, StartFailsOnly
  <2>2. Settled' /\ Restoring'
    BY <1>1, <1>3 DEF Inv, StoreInv, Settled, Opens, Restoring
  <2> QED
    BY <2>1, <2>2 DEF StoreInv
<1>8. Copies'
  <2>1. Numbers' /\ Queue'
    BY <1>1 DEF Inv, Copies, Numbers, Queue, Unflushed, InTables
  <2>2. JobCopies'
    BY <1>1, <1>3, <1>4 DEF Inv, Copies, JobCopies, Contents
  <2>3. Faithful'
    <3>1. \A e : OverlayIn(dirs, DiskChain(e))' = OverlayIn(dirs, DiskChain(e))
      BY <1>1, <1>5 DEF OverlayIn
    <3>2. \A e : WalOf(e)' = WalOf(e)
      BY <1>1 DEF WalOf
    <3> QED
      BY <1>1, <1>3, <3>1, <3>2 DEF Inv, Copies, Faithful, Contents
  <2> QED
    BY <2>1, <2>2, <2>3 DEF Copies
<1>9. SafetyNet'
  BY <1>1, <1>3 DEF Inv, SafetyNet, InBackup, Watched, PutBack, Opens, Contents
<1> QED
  BY <1>2, <1>6, <1>7, <1>8, <1>9 DEF Inv

(* The invariant holds in every state of every behaviour.                  *)
THEOREM Invariance == Spec => []Inv
<1>1. Init => Inv
  BY InitInv
<1>2. Inv /\ [Next]_vars => Inv'
  BY NextInv, StutterInv
<1> QED
  BY <1>1, <1>2, PTL DEF Spec

(* Every backup in the manifest file has a complete directory and so have  *)
(* those it rests on, after every step of a deletion and of a crash.       *)
THEOREM CompleteAlways == Spec => []ListedComplete
<1>1. Inv => ListedComplete
  <2>1. SUFFICES ASSUME Inv, NEW id \in Good
                 PROVE  /\ id \in DOMAIN dirs /\ dirs[id].info # NoInfo
                        /\ ~Orphan(id) => dirs[id].info.baseId \in Entered \cup {0}
    BY DEF ListedComplete, Good, Entered, Orphan
  <2>2. Complete
    BY <2>1 DEF Inv, Books
  <2>3. id \in DOMAIN dirs /\ dirs[id].info.type # "none"
    BY <2>2 DEF Complete
  <2>4. ~Orphan(id) => dirs[id].info.baseId \in Good \cup {0}
    BY <2>2 DEF Complete
  <2> QED
    BY <2>3, <2>4 DEF NoInfo, Good
<1> QED
  BY <1>1, Invariance, PTL

(* The engine fails to start only after a crash in the middle of a         *)
(* deletion, or with what a raced backup brought back.                     *)
THEOREM StartAlways == Spec => []StartFailsOnly
<1>1. Inv => StartFailsOnly
  BY DEF Inv, StoreInv
<1> QED
  BY <1>1, Invariance, PTL

(* A listed backup without a flaw brings back what the store held when it  *)
(* was made.                                                               *)
THEOREM RestorableAlways == Spec => []BackupRestores
<1>1. Inv => BackupRestores
  <2>1. SUFFICES ASSUME Inv, status = "up", job.pc \in {"idle", "restore"}, NEW id \in listed,
                        dirs[id].flaws = {}
                 PROVE  /\ RestoreInto(id).ok /\ Opens(RestoreInto(id).files, RestoreInto(id).manifest)
                        /\ Contents(RestoreInto(id).files, RestoreInto(id).manifest,
                                    RestoreInto(id).wal) = dirs[id].taken
    BY DEF BackupRestores
  <2>2. TypeOK /\ Books /\ Covered /\ Faithful
    BY <2>1 DEF Inv, StoreInv, Copies
  <2>3. torn = 0 /\ id \in Good
    BY <2>1, <2>2 DEF Books, Deleting, Listing, Good, Numbered
  <2>4. id \in Sound
    BY <2>1, <2>3 DEF Sound, Orphan
  <2> QED
    BY <2>1, <2>2, <2>3, <2>4, RestoredContents
<1> QED
  BY <1>1, Invariance, PTL

(* RestoreFromBackup never puts what was there at risk.                    *)
THEOREM RestoreSafeAlways == Spec => []RestoreSafe
<1>1. Inv => RestoreSafe
  <2>1. SUFFICES ASSUME Inv, prior.id # 0, dirs[prior.id].flaws = {}, NEW id, id = prior.id
                 PROVE  /\ id \in Entered
                        /\ Contents(dirs[id].files, dirs[id].manifest, WalOf(id)) = prior.writes
                        /\ job.pc = "delete" /\ id \in job.todo /\ degraded =>
                              /\ Opens(files, manifest)
                              /\ Contents(files, manifest, wal) = prior.writes
    BY DEF RestoreSafe, WalOf, Entered
  <2>2. /\ id \in Good /\ dirs[id].info.baseId = 0 /\ dirs[id].taken = prior.writes
        /\ TypeOK /\ Numbered /\ Complete /\ Covered /\ Faithful /\ PutBack
    BY <2>1 DEF Inv, SafetyNet, InBackup, StoreInv, Copies, Books
  <2>3. id \in Sound
    BY <2>1, <2>2 DEF Sound, Orphan
  <2>4. DiskChain(id) = {id} /\ id \in Nat
    <3>1. DiskChain(id) = {id} \cup DiskChain(0)
      BY <2>2, <2>3, SoundFacts
    <3>2. DiskChain(0) = {}
      BY ReachNothing DEF DiskChain
    <3>3. id \in Nat
      BY <2>1, <2>2 DEF TypeOK
    <3> QED
      BY <3>1, <3>2, <3>3
  <2>5. PICK f, g, m : /\ f = dirs[id].files /\ g = OverlayIn(dirs, {id}) /\ m = dirs[id].manifest
    OBVIOUS
  <2>6. m.names \subseteq DOMAIN f
    <3>1. m.names \subseteq UNION {DOMAIN dirs[b].files : b \in {id}}
      BY <2>1, <2>2, <2>3, <2>4, <2>5 DEF Covered
    <3> QED
      BY <2>5, <3>1
  <2>7. \A n \in DOMAIN f : n \in DOMAIN g /\ g[n] = f[n]
    <3>1. ASSUME NEW n \in DOMAIN dirs[id].files
          PROVE  n \in DOMAIN OverlayIn(dirs, {id}) /\ OverlayIn(dirs, {id})[n] = dirs[id].files[n]
      <4>1. {id} \in SUBSET Nat /\ id \in {id} /\ \A b \in {id} : n \in DOMAIN dirs[b].files => b <= id
        BY <2>4
      <4> QED
        BY <4>1, OverlayAt
    <3> QED
      BY <2>5, <3>1
  <2>8. Contents(f, m, WalOf(id)) = Contents(g, m, WalOf(id))
    <3>1. PICK w : w = WalOf(id)
      OBVIOUS
    <3>2. \A n \in m.names : n \in DOMAIN f /\ n \in DOMAIN g /\ f[n] = g[n]
      BY <2>6, <2>7
    <3> QED
      BY <3>1, <3>2, ContentsSame
  <2>9. Contents(g, m, WalOf(id)) = prior.writes
    BY <2>1, <2>2, <2>4, <2>5 DEF Faithful
  <2>10. id \in Entered
    BY <2>2 DEF Good
  <2>11. job.pc = "delete" /\ id \in job.todo /\ degraded =>
             Opens(files, manifest) /\ Contents(files, manifest, wal) = prior.writes
    BY <2>1, <2>2 DEF PutBack
  <2> QED
    BY <2>5, <2>8, <2>9, <2>10, <2>11
<1> QED
  BY <1>1, Invariance, PTL

=============================================================================
