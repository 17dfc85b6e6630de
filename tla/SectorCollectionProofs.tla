------------------------ MODULE SectorCollectionProofs ------------------------
(***************************************************************************)
(* What SectorCollection keeps for any number of tasks and resources, any  *)
(* lease, schedule and volume, and any deaths.                             *)
(***************************************************************************)
EXTENDS SectorCollection, FiniteSetTheorems, TLAPS

\* Accounts, proxies and SIMs are rows of three tables.
SectorAssumption ==
    /\ TTL \in Nat
    /\ PerPage \in Nat
    /\ MaxTime \in Nat
    /\ \A j, k \in Kinds : j # k => Pool[j] \cap Pool[k] = {}

Status == {"running", "completed", "failed"}
RunRecord == [status : Status, started : Int, seen : Int, from : Int, next : Int]
Claims == [resource : Resources, until : Int]
Places == {"idle", "insert", "claim", "complete", "fail", "release"}
TaskRecord == [at : Places, run : Nat, now : Int, page : Int, pages : Int,
               todo : SUBSET (Kinds \cup {"account"}), tried : SUBSET Resources,
               claimed : SUBSET Claims, found : Int]

Typed ==
    /\ clock \in Nat /\ clock <= MaxTime
    /\ open \in BOOLEAN
    /\ account \in {"ACTIF", "QUARANTAINE"}
    /\ runs \in Seq(RunRecord)
    /\ lease \in [Resources -> [by : Nat, until : Int]]
    /\ \A r \in Resources : lease[r].by <= Len(runs)
    /\ ctask \in [Tasks -> TaskRecord]
    /\ \A t \in Tasks : ctask[t].run <= Len(runs)

\* A task that is past its first transaction has a run of its own, which it
\* closes before it releases its resources.
Open == {"claim", "complete", "fail"}
Owning == Open \cup {"release"}
Owned ==
    /\ \A t \in Tasks :
          /\ ctask[t].at \in Owning => ctask[t].run \in 1 .. Len(runs)
          /\ ctask[t].at \notin Owning => ctask[t].claimed = {}
          /\ ctask[t].at \in Open =>
                /\ runs[ctask[t].run].status = "running"
                /\ runs[ctask[t].run].from = ctask[t].page
    /\ \A t, u \in Tasks :
          t # u /\ ctask[t].at \in Owning /\ ctask[u].at \in Owning
             => ctask[t].run # ctask[u].run

\* A claim that has not expired is the lease of its resource, and a task claims
\* one resource of a kind.
Leased ==
    \A t \in Tasks : \A c \in ctask[t].claimed :
        /\ clock <= c.until =>
              lease[c.resource].by = ctask[t].run /\ c.until <= lease[c.resource].until
        /\ \A d \in ctask[t].claimed : c.resource = d.resource => c = d
        /\ \A k \in Kinds : c.resource \in Pool[k] => k \notin ctask[t].todo

\* The pages before a checkpoint, written or read, are those of completed runs.
Covered(page) ==
    \E j \in DOMAIN runs :
        runs[j].status = "completed" /\ page \in runs[j].from .. runs[j].next - 1
Behind ==
    /\ \A i \in DOMAIN runs : \A page \in 1 .. runs[i].next - 1 : Covered(page)
    /\ \A t \in Tasks : \A page \in 1 .. ctask[t].page - 1 : Covered(page)

SectorInv == Typed /\ Owned /\ Leased /\ Behind

-----------------------------------------------------------------------------

\* A task that does not run.
LEMMA IdleTyped == Idle \in TaskRecord
BY DEF Idle, TaskRecord, Places

LEMMA SectorStart == SectorAssumption /\ Init => SectorInv
<1> SUFFICES ASSUME SectorAssumption, Init
             PROVE  SectorInv
  OBVIOUS
<1>1. /\ runs = <<>> /\ Len(runs) = 0 /\ runs \in Seq(RunRecord) /\ DOMAIN runs = {}
      /\ lease = [r \in Resources |-> [by |-> 0, until |-> 0]]
      /\ ctask = [t \in Tasks |-> Idle]
  BY DEF Init
<1>2. Typed
  BY <1>1, IdleTyped DEF SectorAssumption, Init, Typed, Idle
<1>3. Owned /\ Leased /\ Behind
  BY <1>1 DEF Owned, Owning, Open, Leased, Behind, Idle
<1> QED
  BY <1>2, <1>3 DEF SectorInv

-----------------------------------------------------------------------------
(* Types.                                                                  *)

\* A step of one task that leaves the runs and the leases alone.
LEMMA OneTaskTyped ==
  ASSUME Typed, NEW t \in Tasks, NEW new \in TaskRecord, new.run <= Len(runs),
         ctask' = [ctask EXCEPT ![t] = new], UNCHANGED <<runs, lease, clock, open>>,
         account' \in {"ACTIF", "QUARANTAINE"}
  PROVE  Typed'
BY DEF Typed

\* The first transaction takes a checkpoint that is a page.
LEMMA ReadTyped ==
  ASSUME Typed, NEW t \in Tasks, Read(t)
  PROVE  /\ Typed'
         /\ UNCHANGED <<clock, runs, lease>>
         /\ \A u \in Tasks : u # t => ctask'[u] = ctask[u]
         /\ ctask'[t].at = "insert" /\ ctask'[t].claimed = {}
         /\ ctask'[t].page = IF runs = <<>> THEN 1 ELSE runs[Len(runs)].next
<1>1. PICK pages \in 1 .. 100 : ctask' = [ctask EXCEPT ![t] =
         [Idle EXCEPT !.at = "insert", !.now = clock, !.pages = pages,
                      !.page = IF runs = <<>> THEN 1 ELSE Latest.next]]
  BY DEF Read
<1>2. (IF runs = <<>> THEN 1 ELSE Latest.next) \in Int
  <2>1. CASE runs # <<>>
    <3>1. Len(runs) \in 1 .. Len(runs) /\ DOMAIN runs = 1 .. Len(runs)
      BY <2>1 DEF Typed
    <3>2. runs[Len(runs)] \in RunRecord
      BY <3>1 DEF Typed
    <3> QED
      BY <2>1, <3>2 DEF RunRecord, Latest
  <2> QED
    BY <2>1
<1>3. PICK new :
         /\ new = [Idle EXCEPT !.at = "insert", !.now = clock, !.pages = pages,
                               !.page = IF runs = <<>> THEN 1 ELSE Latest.next]
  OBVIOUS
<1>4. /\ new \in TaskRecord /\ new.at = "insert" /\ new.claimed = {} /\ new.run = 0
      /\ new.page = IF runs = <<>> THEN 1 ELSE Latest.next
  <2>1. PICK page \in Int : page = IF runs = <<>> THEN 1 ELSE Latest.next
    BY <1>2
  <2>2. new = [Idle EXCEPT !.at = "insert", !.now = clock, !.pages = pages, !.page = page]
    BY <1>3, <2>1
  <2>3. PICK idle \in TaskRecord : idle = Idle
    BY IdleTyped
  <2>4. new = [idle EXCEPT !.at = "insert", !.now = clock, !.pages = pages, !.page = page]
    BY <2>2, <2>3
  <2>5. pages \in Int
    BY <1>1
  <2>6. clock \in Int /\ pages \in Int
    BY <2>5 DEF Typed
  <2>7. new \in TaskRecord /\ new.at = "insert" /\ new.page = page
        /\ new.run = idle.run /\ new.claimed = idle.claimed
    BY <2>1, <2>3, <2>4, <2>6 DEF TaskRecord, Places
  <2>8. idle.claimed = {} /\ idle.run = 0
    BY <2>3 DEF Idle
  <2> QED
    BY <2>1, <2>7, <2>8
<1>5. ctask' = [ctask EXCEPT ![t] = new]
  BY <1>1, <1>3
<1>6. new.run <= Len(runs)
  BY <1>4 DEF Typed
<1>7. UNCHANGED <<runs, lease, clock, open>> /\ account' \in {"ACTIF", "QUARANTAINE"}
  BY DEF Read, Typed
<1>8. Typed'
  BY <1>4, <1>5, <1>6, <1>7, OneTaskTyped
<1> QED
  BY <1>4, <1>5, <1>7, <1>8 DEF Typed, Latest

\* The runs that exist keep their records when one is added.
LEMMA RunsAppend ==
  ASSUME NEW S, NEW s \in Seq(S), NEW x \in S
  PROVE  /\ Append(s, x) \in Seq(S) /\ Len(Append(s, x)) = Len(s) + 1
         /\ DOMAIN s = 1 .. Len(s) /\ DOMAIN Append(s, x) = 1 .. Len(s) + 1
         /\ \A i \in 1 .. Len(s) : Append(s, x)[i] = s[i]
         /\ Append(s, x)[Len(s) + 1] = x
OBVIOUS

\* What the insertion of a run does.
LEMMA InsertDoes ==
  ASSUME Typed, NEW t \in Tasks, Insert(t)
  PROVE  /\ Typed'
         /\ UNCHANGED <<clock, lease>>
         /\ \A u \in Tasks : u # t => ctask'[u] = ctask[u]
         /\ ctask[t].at = "insert" /\ ctask'[t].at = "claim"
         /\ ctask'[t].run = Len(runs) + 1 /\ Len(runs') = Len(runs) + 1
         /\ ctask'[t].claimed = ctask[t].claimed /\ ctask'[t].page = ctask[t].page
         /\ DOMAIN runs = 1 .. Len(runs) /\ DOMAIN runs' = 1 .. Len(runs) + 1
         /\ \A i \in 1 .. Len(runs) : runs'[i] = runs[i]
         /\ runs'[Len(runs) + 1].status = "running"
         /\ runs'[Len(runs) + 1].from = ctask[t].page
         /\ runs'[Len(runs) + 1].next = ctask[t].page
<1>1. PICK x : x = [status |-> "running", started |-> ctask[t].now, seen |-> 0,
                    from |-> ctask[t].page, next |-> ctask[t].page]
  OBVIOUS
<1>2. /\ x \in RunRecord /\ x.status = "running"
      /\ x.from = ctask[t].page /\ x.next = ctask[t].page
  BY <1>1 DEF Typed, TaskRecord, RunRecord, Status
<1>3. runs' = Append(runs, x)
  BY <1>1 DEF Insert
<1>4. runs \in Seq(RunRecord) /\ Len(runs) \in Nat
  BY DEF Typed
<1>5. /\ runs' \in Seq(RunRecord) /\ Len(runs') = Len(runs) + 1
      /\ DOMAIN runs = 1 .. Len(runs) /\ DOMAIN runs' = 1 .. Len(runs) + 1
      /\ \A i \in 1 .. Len(runs) : runs'[i] = runs[i]
      /\ runs'[Len(runs) + 1] = x
  BY <1>2, <1>3, <1>4, RunsAppend
<1>6. /\ ctask[t].at = "insert"
      /\ UNCHANGED <<clock, open, lease, account>>
  BY DEF Insert
<1>7. PICK todo \in SUBSET (Kinds \cup {"account"}) :
         ctask' = [ctask EXCEPT ![t].at = "claim", ![t].run = Len(runs'), ![t].todo = todo]
  BY DEF Insert
<1>8. /\ ctask' \in [Tasks -> TaskRecord]
      /\ \A u \in Tasks : u # t => ctask'[u] = ctask[u]
      /\ ctask'[t].at = "claim" /\ ctask'[t].run = Len(runs) + 1
      /\ ctask'[t].claimed = ctask[t].claimed /\ ctask'[t].page = ctask[t].page
  <2>1. PICK n \in Nat : n = Len(runs') /\ n = Len(runs) + 1
    BY <1>4, <1>5
  <2>2. ctask' = [ctask EXCEPT ![t].at = "claim", ![t].run = n, ![t].todo = todo]
    BY <1>7, <2>1
  <2>3. ctask \in [Tasks -> TaskRecord] /\ todo \in SUBSET (Kinds \cup {"account"})
    BY <1>7 DEF Typed
  <2>4. ctask[t] \in TaskRecord /\ todo \subseteq Kinds \cup {"account"}
    BY <2>3
  <2>5. PICK new : new = [ctask[t] EXCEPT !.at = "claim", !.run = n, !.todo = todo]
    OBVIOUS
  <2>6. /\ new \in TaskRecord /\ new.at = "claim" /\ new.run = n
        /\ new.claimed = ctask[t].claimed /\ new.page = ctask[t].page
    BY <2>1, <2>4, <2>5 DEF TaskRecord, Places
  <2>7. ctask' = [ctask EXCEPT ![t] = new]
    BY <2>2, <2>5
  <2> QED
    BY <2>1, <2>3, <2>6, <2>7
<1>9. Typed'
  <2>1. \A u \in Tasks : ctask[u].run \in Nat /\ ctask[u].run <= Len(runs)
    BY DEF Typed, TaskRecord
  <2>2. \A r \in Resources : lease[r].by \in Nat /\ lease[r].by <= Len(runs)
    BY DEF Typed
  <2>3. /\ \A u \in Tasks : ctask'[u].run <= Len(runs')
        /\ \A r \in Resources : lease'[r].by <= Len(runs')
    BY <1>4, <1>5, <1>6, <1>8, <2>1, <2>2
  <2> QED
    BY <1>5, <1>6, <1>8, <2>3 DEF Typed
<1> QED
  BY <1>2, <1>5, <1>6, <1>8, <1>9

\* What a claim that succeeds does.
LEMMA ClaimDoes ==
  ASSUME Typed, SectorAssumption, NEW t \in Tasks, NEW kind \in Kinds, NEW r \in Pool[kind],
         Claim(t, kind, r)
  PROVE  /\ Typed'
         /\ UNCHANGED <<clock, runs>>
         /\ r \in Resources /\ clock \in Nat /\ TTL \in Nat
         /\ \A u \in Tasks : u # t => ctask'[u] = ctask[u]
         /\ ctask[t].at = "claim" /\ ctask'[t].at = "claim" /\ kind \in ctask[t].todo
         /\ ctask'[t].run = ctask[t].run /\ ctask'[t].page = ctask[t].page
         /\ ctask'[t].claimed = ctask[t].claimed \cup {[resource |-> r, until |-> clock + TTL]}
         /\ ctask'[t].todo = ctask[t].todo \ {kind}
         /\ lease[r].by \in {0, ctask[t].run} \/ lease[r].until < clock
         /\ \A s \in Resources : s # r => lease'[s] = lease[s]
         /\ lease'[r].by = ctask[t].run /\ lease'[r].until = clock + TTL
<1>1. r \in Resources
  BY DEF Resources, Kinds
<1>2. clock \in Nat /\ TTL \in Nat /\ clock + TTL \in Int
  BY DEF Typed, SectorAssumption
<1>3. PICK c \in Claims : c = [resource |-> r, until |-> clock + TTL]
  BY <1>1, <1>2 DEF Claims
<1>4. ctask' = [ctask EXCEPT ![t].claimed = @ \cup {c}, ![t].todo = @ \ {kind}]
  BY <1>3 DEF Claim
<1>5. /\ ctask' \in [Tasks -> TaskRecord]
      /\ \A u \in Tasks : u # t => ctask'[u] = ctask[u]
      /\ ctask'[t].at = ctask[t].at
      /\ ctask'[t].run = ctask[t].run /\ ctask'[t].page = ctask[t].page
      /\ ctask'[t].claimed = ctask[t].claimed \cup {c}
      /\ ctask'[t].todo = ctask[t].todo \ {kind}
  BY <1>3, <1>4 DEF Typed, TaskRecord
<1>6. lease' = [lease EXCEPT ![r] = [by |-> ctask[t].run, until |-> clock + TTL]]
  BY DEF Claim
<1>7. ctask[t].run \in Nat /\ ctask[t].run <= Len(runs)
  BY DEF Typed, TaskRecord
<1>8. /\ lease' \in [Resources -> [by : Nat, until : Int]]
      /\ \A s \in Resources : s # r => lease'[s] = lease[s]
      /\ lease'[r].by = ctask[t].run /\ lease'[r].until = clock + TTL
  BY <1>1, <1>2, <1>6, <1>7 DEF Typed
<1>9. /\ UNCHANGED <<clock, open, runs, account>>
      /\ ctask[t].at = "claim" /\ kind \in ctask[t].todo
      /\ lease[r].by \in {0, ctask[t].run} \/ lease[r].until < clock
  BY DEF Claim, Claimable
<1>10. Typed'
  <2>1. \A u \in Tasks : ctask'[u].run <= Len(runs')
    BY <1>5, <1>9 DEF Typed
  <2>2. \A s \in Resources : lease'[s].by <= Len(runs')
    BY <1>7, <1>8, <1>9 DEF Typed
  <2> QED
    BY <1>5, <1>8, <1>9, <2>1, <2>2 DEF Typed
<1> QED
  BY <1>1, <1>2, <1>3, <1>5, <1>8, <1>9, <1>10

\* What the release of one resource does, and the end of the releases.
LEMMA ReleaseDoes ==
  ASSUME Typed, NEW t \in Tasks, Release(t)
  PROVE  /\ Typed'
         /\ UNCHANGED <<clock, runs>>
         /\ \A u \in Tasks : u # t => ctask'[u] = ctask[u]
         /\ ctask[t].at = "release"
         /\ \/ /\ UNCHANGED lease
               /\ ctask'[t].at = "idle" /\ ctask'[t].claimed = {} /\ ctask'[t].page = 1
            \/ \E c \in ctask[t].claimed :
                  /\ c.resource \in Resources
                  /\ \A s \in Resources : s # c.resource => lease'[s] = lease[s]
                  /\ lease[c.resource].by # ctask[t].run =>
                        lease'[c.resource] = lease[c.resource]
                  /\ ctask'[t].at = "release" /\ ctask'[t].run = ctask[t].run
                  /\ ctask'[t].page = ctask[t].page /\ ctask'[t].todo = ctask[t].todo
                  /\ ctask'[t].claimed = ctask[t].claimed \ {c}
<1>1. ctask[t].at = "release" /\ UNCHANGED <<clock, open, runs, account>>
  BY DEF Release
<1>2. CASE ctask[t].claimed = {}
  <2>1. ctask' = [ctask EXCEPT ![t] = Idle] /\ UNCHANGED lease
    BY <1>2 DEF Release
  <2>2. Idle.run = 0 /\ Idle.claimed = {} /\ Idle.page = 1 /\ Idle.at = "idle"
    BY DEF Idle
  <2>3. 0 <= Len(runs)
    BY DEF Typed
  <2>4. Typed'
    BY <1>1, <2>1, <2>2, <2>3, IdleTyped, OneTaskTyped DEF Typed
  <2>5. (\A u \in Tasks : u # t => ctask'[u] = ctask[u]) /\ ctask'[t] = Idle
    BY <2>1 DEF Typed
  <2> QED
    BY <1>1, <2>1, <2>2, <2>4, <2>5
<1>3. CASE ctask[t].claimed # {}
  <2>1. PICK c \in ctask[t].claimed :
           /\ lease' = [lease EXCEPT ![c.resource] = Freed(c.resource, ctask[t].run)]
           /\ ctask' = [ctask EXCEPT ![t].claimed = @ \ {c}]
    BY <1>3 DEF Release
  <2>2. c.resource \in Resources
    BY <2>1 DEF Typed, TaskRecord, Claims
  <2>3. /\ ctask' \in [Tasks -> TaskRecord]
        /\ \A u \in Tasks : u # t => ctask'[u] = ctask[u]
        /\ ctask'[t].at = ctask[t].at
        /\ ctask'[t].run = ctask[t].run /\ ctask'[t].page = ctask[t].page
        /\ ctask'[t].claimed = ctask[t].claimed \ {c}
        /\ ctask'[t].todo = ctask[t].todo
    BY <2>1 DEF Typed, TaskRecord
  <2>4. /\ lease' \in [Resources -> [by : Nat, until : Int]]
        /\ \A s \in Resources : s # c.resource => lease'[s] = lease[s]
        /\ lease[c.resource].by # ctask[t].run => lease'[c.resource] = lease[c.resource]
        /\ lease'[c.resource].by \in {0, lease[c.resource].by}
    BY <2>1, <2>2 DEF Typed, Freed
  <2>5. Typed'
    <3>1. \A u \in Tasks : ctask'[u].run <= Len(runs')
      BY <1>1, <2>3 DEF Typed
    <3>2. \A s \in Resources : lease'[s].by <= Len(runs')
      BY <1>1, <2>2, <2>4 DEF Typed
    <3> QED
      BY <1>1, <2>3, <2>4, <3>1, <3>2 DEF Typed
  <2> QED
    BY <1>1, <2>1, <2>2, <2>3, <2>4, <2>5
<1> QED
  BY <1>2, <1>3

\* A denial, a scrape and its failure, and a death: the task alone moves.
LEMMA OtherDoes ==
  ASSUME Typed, SectorAssumption, NEW t \in Tasks,
         \/ \E kind \in Kinds : \E r \in Pool[kind] : Denied(t, kind, r)
         \/ Scrape(t)
         \/ \E blocked \in BOOLEAN : ScrapeFails(t, blocked)
         \/ Die(t)
  PROVE  /\ Typed'
         /\ UNCHANGED <<clock, runs, lease>>
         /\ \A u \in Tasks : u # t => ctask'[u] = ctask[u]
         /\ \/ /\ ctask[t].at = "claim" /\ ctask'[t].at \in Open
               /\ ctask'[t].run = ctask[t].run /\ ctask'[t].page = ctask[t].page
               /\ ctask'[t].claimed = ctask[t].claimed /\ ctask'[t].todo = ctask[t].todo
            \/ ctask'[t].at = "idle" /\ ctask'[t].page = 1 /\ ctask'[t].claimed = {}
<1>1. ctask \in [Tasks -> TaskRecord] /\ ctask[t] \in TaskRecord
  BY DEF Typed
<1>2. ASSUME NEW new \in TaskRecord, ctask' = [ctask EXCEPT ![t] = new],
             UNCHANGED <<clock, open, runs, lease>>, account' \in {"ACTIF", "QUARANTAINE"},
             \/ /\ ctask[t].at = "claim" /\ new.at \in Open
                /\ new.run = ctask[t].run /\ new.page = ctask[t].page
                /\ new.claimed = ctask[t].claimed /\ new.todo = ctask[t].todo
             \/ new.at = "idle" /\ new.page = 1 /\ new.claimed = {} /\ new.run = 0
      PROVE  /\ Typed'
             /\ UNCHANGED <<clock, runs, lease>>
             /\ \A u \in Tasks : u # t => ctask'[u] = ctask[u]
             /\ \/ /\ ctask[t].at = "claim" /\ ctask'[t].at \in Open
                   /\ ctask'[t].run = ctask[t].run /\ ctask'[t].page = ctask[t].page
                   /\ ctask'[t].claimed = ctask[t].claimed /\ ctask'[t].todo = ctask[t].todo
                \/ ctask'[t].at = "idle" /\ ctask'[t].page = 1 /\ ctask'[t].claimed = {}
  <2>1. new.run <= Len(runs)
    BY <1>2 DEF Typed
  <2>2. Typed'
    BY <1>2, <2>1, OneTaskTyped
  <2>3. (\A u \in Tasks : u # t => ctask'[u] = ctask[u]) /\ ctask'[t] = new
    BY <1>1, <1>2
  <2> QED
    BY <1>2, <2>2, <2>3
<1>3. account \in {"ACTIF", "QUARANTAINE"}
  BY DEF Typed
<1>4. ASSUME NEW kind \in Kinds, NEW r \in Pool[kind], Denied(t, kind, r)
      PROVE  \E new \in TaskRecord :
                /\ ctask' = [ctask EXCEPT ![t] = new]
                /\ ctask[t].at = "claim" /\ new.at \in Open
                /\ new.run = ctask[t].run /\ new.page = ctask[t].page
                /\ new.claimed = ctask[t].claimed /\ new.todo = ctask[t].todo
  <2>1. r \in Resources
    BY DEF Resources, Kinds
  <2>2. PICK at \in {"fail", ctask[t].at} :
           ctask' = [ctask EXCEPT ![t].tried = @ \cup {r}, ![t].at = at]
    BY <1>4 DEF Denied
  <2>3. ctask[t].at = "claim" /\ at \in Open
    BY <1>4, <2>2 DEF Denied, Open
  <2>4. PICK new : new = [ctask[t] EXCEPT !.tried = @ \cup {r}, !.at = at]
    OBVIOUS
  <2>5. /\ new \in TaskRecord /\ new.at = at
        /\ new.run = ctask[t].run /\ new.page = ctask[t].page
        /\ new.claimed = ctask[t].claimed /\ new.todo = ctask[t].todo
    BY <1>1, <2>1, <2>3, <2>4 DEF TaskRecord, Places, Open
  <2> QED
    BY <2>2, <2>3, <2>4, <2>5
<1>5. ASSUME Scrape(t)
      PROVE  \E new \in TaskRecord :
                /\ ctask' = [ctask EXCEPT ![t] = new]
                /\ ctask[t].at = "claim" /\ new.at \in Open
                /\ new.run = ctask[t].run /\ new.page = ctask[t].page
                /\ new.claimed = ctask[t].claimed /\ new.todo = ctask[t].todo
  <2>1. PICK pages \in {Visited(t), {}}, perPage \in {1, PerPage} :
           ctask' = [ctask EXCEPT ![t].at = "complete", ![t].found = perPage * Cardinality(pages)]
    BY <1>5 DEF Scrape
  <2>2. perPage * Cardinality(pages) \in Int
    <3>1. perPage \in Nat
      BY <2>1 DEF SectorAssumption
    <3>2. ctask[t].page \in Int /\ ctask[t].pages \in Int
      BY <1>1 DEF TaskRecord
    <3>3. IsFiniteSet(pages)
      BY <2>1, <3>2, FS_Interval, FS_EmptySet DEF Visited
    <3>4. Cardinality(pages) \in Nat
      BY <3>3, FS_CardinalityType
    <3> QED
      BY <3>1, <3>4
  <2>3. PICK found \in Int : found = perPage * Cardinality(pages)
    BY <2>2
  <2>4. PICK new : new = [ctask[t] EXCEPT !.at = "complete", !.found = found]
    OBVIOUS
  <2>5. /\ new \in TaskRecord /\ new.at = "complete"
        /\ new.run = ctask[t].run /\ new.page = ctask[t].page
        /\ new.claimed = ctask[t].claimed /\ new.todo = ctask[t].todo
    BY <1>1, <2>3, <2>4 DEF TaskRecord, Places
  <2>6. ctask' = [ctask EXCEPT ![t] = new]
    BY <2>1, <2>3, <2>4
  <2>7. ctask[t].at = "claim"
    BY <1>5 DEF Scrape
  <2> QED
    BY <2>5, <2>6, <2>7 DEF Open
<1>6. ASSUME NEW blocked \in BOOLEAN, ScrapeFails(t, blocked)
      PROVE  \E new \in TaskRecord :
                /\ ctask' = [ctask EXCEPT ![t] = new]
                /\ ctask[t].at = "claim" /\ new.at \in Open
                /\ new.run = ctask[t].run /\ new.page = ctask[t].page
                /\ new.claimed = ctask[t].claimed /\ new.todo = ctask[t].todo
  <2>1. PICK new : new = [ctask[t] EXCEPT !.at = "fail"]
    OBVIOUS
  <2>2. /\ new \in TaskRecord /\ new.at = "fail"
        /\ new.run = ctask[t].run /\ new.page = ctask[t].page
        /\ new.claimed = ctask[t].claimed /\ new.todo = ctask[t].todo
    BY <1>1, <2>1 DEF TaskRecord, Places
  <2>3. ctask' = [ctask EXCEPT ![t] = new] /\ ctask[t].at = "claim"
    BY <1>6, <2>1 DEF ScrapeFails
  <2> QED
    BY <2>2, <2>3 DEF Open
<1>7. CASE Die(t)
  <2>1. Idle.run = 0 /\ Idle.claimed = {} /\ Idle.page = 1 /\ Idle.at = "idle"
    BY DEF Idle
  <2>2. ctask' = [ctask EXCEPT ![t] = Idle] /\ UNCHANGED <<clock, open, runs, lease, account>>
    BY <1>7 DEF Die
  <2> QED
    BY <1>2, <1>3, <2>1, <2>2, IdleTyped
<1>8. CASE \E kind \in Kinds : \E r \in Pool[kind] : Denied(t, kind, r)
  <2>1. UNCHANGED <<clock, open, runs, lease, account>>
    BY <1>8 DEF Denied
  <2> QED
    BY <1>2, <1>3, <1>4, <1>8, <2>1
<1>9. CASE Scrape(t)
  <2>1. UNCHANGED <<clock, open, runs, lease, account>>
    BY <1>9 DEF Scrape
  <2> QED
    BY <1>2, <1>3, <1>5, <1>9, <2>1
<1>10. CASE \E blocked \in BOOLEAN : ScrapeFails(t, blocked)
  <2>1. UNCHANGED <<clock, open, runs, lease>> /\ account' \in {"QUARANTAINE", account}
    BY <1>10 DEF ScrapeFails
  <2> QED
    BY <1>2, <1>3, <1>6, <1>10, <2>1
<1> QED
  BY <1>7, <1>8, <1>9, <1>10

\* The end of a run, one way or the other.
LEMMA CloseDoes ==
  ASSUME Typed, Owned, NEW t \in Tasks, Complete(t) \/ Fail(t)
  PROVE  /\ Typed'
         /\ UNCHANGED <<clock, lease>>
         /\ \A u \in Tasks : u # t => ctask'[u] = ctask[u]
         /\ ctask[t].at \in Open /\ ctask'[t].at = "release"
         /\ ctask'[t].run = ctask[t].run /\ ctask'[t].page = ctask[t].page
         /\ ctask'[t].claimed = ctask[t].claimed /\ ctask'[t].todo = ctask[t].todo
         /\ Len(runs') = Len(runs) /\ DOMAIN runs = 1 .. Len(runs) /\ DOMAIN runs' = 1 .. Len(runs)
         /\ \A i \in 1 .. Len(runs) : i # ctask[t].run => runs'[i] = runs[i]
         /\ runs'[ctask[t].run].from = runs[ctask[t].run].from
         /\ runs'[ctask[t].run].status = "completed"
               \/ runs'[ctask[t].run].next = runs[ctask[t].run].next
<1>1. /\ ctask \in [Tasks -> TaskRecord] /\ ctask[t] \in TaskRecord
      /\ ctask[t].page \in Int /\ ctask[t].pages \in Int /\ ctask[t].found \in Int
      /\ ctask[t].page + ctask[t].pages \in Int
  BY DEF Typed, TaskRecord
<1>2. ctask[t].at \in Open
  BY DEF Complete, Fail, Open
<1>3. ctask[t].run \in 1 .. Len(runs)
  BY <1>2 DEF Owned, Owning
<1>4. runs \in Seq(RunRecord) /\ DOMAIN runs = 1 .. Len(runs) /\ runs[ctask[t].run] \in RunRecord
  BY <1>3 DEF Typed
<1>5. /\ ctask' = [ctask EXCEPT ![t].at = "release"]
      /\ UNCHANGED <<clock, open, lease, account>>
  BY DEF Complete, Fail
<1>6. /\ ctask' \in [Tasks -> TaskRecord]
      /\ \A u \in Tasks : u # t => ctask'[u] = ctask[u]
      /\ ctask'[t].at = "release"
      /\ ctask'[t].run = ctask[t].run /\ ctask'[t].page = ctask[t].page
      /\ ctask'[t].claimed = ctask[t].claimed /\ ctask'[t].todo = ctask[t].todo
  BY <1>1, <1>5 DEF TaskRecord, Places
<1>7. PICK new \in RunRecord :
         /\ runs' = [runs EXCEPT ![ctask[t].run] = new]
         /\ new.from = runs[ctask[t].run].from
         /\ new.status = "completed" \/ new.next = runs[ctask[t].run].next
  <2>1. CASE Complete(t)
    <3>1. PICK new : new = [runs[ctask[t].run] EXCEPT !.status = "completed", !.seen = ctask[t].found,
                                                     !.next = ctask[t].page + ctask[t].pages]
      OBVIOUS
    <3>2. runs' = [runs EXCEPT ![ctask[t].run] = new]
      BY <2>1, <3>1 DEF Complete
    <3>3. new \in RunRecord /\ new.from = runs[ctask[t].run].from /\ new.status = "completed"
      BY <1>1, <1>4, <3>1 DEF RunRecord, Status
    <3> QED
      BY <3>2, <3>3
  <2>2. CASE Fail(t)
    <3>1. PICK new : new = [runs[ctask[t].run] EXCEPT !.status = "failed"]
      OBVIOUS
    <3>2. runs' = [runs EXCEPT ![ctask[t].run] = new]
      BY <2>2, <3>1 DEF Fail, Failed
    <3>3. /\ new \in RunRecord /\ new.from = runs[ctask[t].run].from
          /\ new.next = runs[ctask[t].run].next
      BY <1>4, <3>1 DEF RunRecord, Status
    <3> QED
      BY <3>2, <3>3
  <2> QED
    BY <2>1, <2>2
<1>8. /\ runs' \in Seq(RunRecord) /\ Len(runs') = Len(runs) /\ DOMAIN runs' = 1 .. Len(runs)
      /\ \A i \in 1 .. Len(runs) : i # ctask[t].run => runs'[i] = runs[i]
      /\ runs'[ctask[t].run] = new
  BY <1>3, <1>4, <1>7
<1>9. Typed'
  <2>1. \A u \in Tasks : ctask'[u].run <= Len(runs')
    BY <1>6, <1>8 DEF Typed
  <2> QED
    BY <1>5, <1>6, <1>8, <2>1 DEF Typed
<1> QED
  BY <1>2, <1>4, <1>5, <1>6, <1>7, <1>8, <1>9

-----------------------------------------------------------------------------
(* The leases and the checkpoints.                                         *)

\* A step of one task that opens and closes no run and takes no lease.
LEMMA PlainStep ==
  ASSUME SectorInv, Typed', NEW t \in Tasks, UNCHANGED <<clock, runs, lease>>,
         \A u \in Tasks : u # t => ctask'[u] = ctask[u],
         \/ /\ ctask[t].at \in Open /\ ctask'[t].at \in Open
            /\ ctask'[t].run = ctask[t].run /\ ctask'[t].page = ctask[t].page
            /\ ctask'[t].claimed = ctask[t].claimed /\ ctask'[t].todo = ctask[t].todo
         \/ ctask'[t].at \notin Owning /\ ctask'[t].claimed = {},
         \A page \in 1 .. ctask'[t].page - 1 : Covered(page)
  PROVE  SectorInv'
<1>1. Owned'
  BY DEF SectorInv, Owned, Owning, Open
<1>2. Leased'
  BY DEF SectorInv, Leased
<1>3. Behind'
  BY DEF SectorInv, Behind, Covered
<1> QED
  BY <1>1, <1>2, <1>3 DEF SectorInv

LEMMA ReadStep ==
  ASSUME SectorInv, NEW t \in Tasks, Read(t)
  PROVE  SectorInv'
<1>1. /\ Typed'
      /\ UNCHANGED <<clock, runs, lease>>
      /\ \A u \in Tasks : u # t => ctask'[u] = ctask[u]
      /\ ctask'[t].at = "insert" /\ ctask'[t].claimed = {}
      /\ ctask'[t].page = IF runs = <<>> THEN 1 ELSE runs[Len(runs)].next
  BY ReadTyped DEF SectorInv
<1>2. \A page \in 1 .. ctask'[t].page - 1 : Covered(page)
  <2>1. CASE runs = <<>>
    BY <1>1, <2>1
  <2>2. CASE runs # <<>>
    <3>1. Len(runs) \in DOMAIN runs
      BY <2>2 DEF SectorInv, Typed
    <3> QED
      BY <1>1, <2>2, <3>1 DEF SectorInv, Behind
  <2> QED
    BY <2>1, <2>2
<1>3. ctask'[t].at \notin Owning
  BY <1>1 DEF Owning, Open
<1> QED
  BY <1>1, <1>2, <1>3, PlainStep

LEMMA OtherStep ==
  ASSUME SectorInv, SectorAssumption, NEW t \in Tasks,
         \/ \E kind \in Kinds : \E r \in Pool[kind] : Denied(t, kind, r)
         \/ Scrape(t)
         \/ \E blocked \in BOOLEAN : ScrapeFails(t, blocked)
         \/ Die(t)
  PROVE  SectorInv'
<1>1. /\ Typed'
      /\ UNCHANGED <<clock, runs, lease>>
      /\ \A u \in Tasks : u # t => ctask'[u] = ctask[u]
      /\ \/ /\ ctask[t].at = "claim" /\ ctask'[t].at \in Open
            /\ ctask'[t].run = ctask[t].run /\ ctask'[t].page = ctask[t].page
            /\ ctask'[t].claimed = ctask[t].claimed /\ ctask'[t].todo = ctask[t].todo
         \/ ctask'[t].at = "idle" /\ ctask'[t].page = 1 /\ ctask'[t].claimed = {}
  BY OtherDoes DEF SectorInv
<1>2. "claim" \in Open /\ "idle" \notin Owning
  BY DEF Open, Owning
<1>3. \A page \in 1 .. ctask'[t].page - 1 : Covered(page)
  BY <1>1 DEF SectorInv, Behind
<1> QED
  BY <1>1, <1>2, <1>3, PlainStep

LEMMA InsertStep ==
  ASSUME SectorInv, NEW t \in Tasks, Insert(t)
  PROVE  SectorInv'
<1>1. /\ Typed'
      /\ UNCHANGED <<clock, lease>>
      /\ \A u \in Tasks : u # t => ctask'[u] = ctask[u]
      /\ ctask[t].at = "insert" /\ ctask'[t].at = "claim"
      /\ ctask'[t].run = Len(runs) + 1 /\ Len(runs') = Len(runs) + 1
      /\ ctask'[t].claimed = ctask[t].claimed /\ ctask'[t].page = ctask[t].page
      /\ DOMAIN runs = 1 .. Len(runs) /\ DOMAIN runs' = 1 .. Len(runs) + 1
      /\ \A i \in 1 .. Len(runs) : runs'[i] = runs[i]
      /\ runs'[Len(runs) + 1].status = "running"
      /\ runs'[Len(runs) + 1].from = ctask[t].page
      /\ runs'[Len(runs) + 1].next = ctask[t].page
  BY InsertDoes DEF SectorInv
<1>2. Len(runs) \in Nat
  BY DEF SectorInv, Typed
<1>3. \A u \in Tasks : /\ ctask[u].at \in Owning => ctask[u].run \in 1 .. Len(runs)
                       /\ ctask[u].run \in Nat
  BY DEF SectorInv, Owned, Typed, TaskRecord
<1>4. Owned'
  <2>1. ASSUME NEW u \in Tasks
        PROVE  /\ ctask'[u].at \in Owning => ctask'[u].run \in 1 .. Len(runs')
               /\ ctask'[u].at \notin Owning => ctask'[u].claimed = {}
               /\ ctask'[u].at \in Open =>
                     /\ runs'[ctask'[u].run].status = "running"
                     /\ runs'[ctask'[u].run].from = ctask'[u].page
    <3>1. CASE u = t
      BY <1>1, <1>2, <3>1 DEF Owning, Open
    <3>2. CASE u # t
      <4>1. ctask[u].at \in Owning => ctask[u].run \in 1 .. Len(runs')
        BY <1>1, <1>2, <1>3
      <4> QED
        BY <1>1, <1>3, <3>2, <4>1 DEF SectorInv, Owned, Owning
    <3> QED
      BY <3>1, <3>2
  <2>2. ASSUME NEW u \in Tasks, NEW v \in Tasks, u # v,
               ctask'[u].at \in Owning, ctask'[v].at \in Owning
        PROVE  ctask'[u].run # ctask'[v].run
    <3>1. CASE u # t /\ v # t
      BY <1>1, <2>2, <3>1 DEF SectorInv, Owned
    <3>2. CASE u = t
      BY <1>1, <1>2, <1>3, <2>2, <3>2
    <3>3. CASE v = t
      BY <1>1, <1>2, <1>3, <2>2, <3>3
    <3> QED
      BY <3>1, <3>2, <3>3
  <2> QED
    BY <2>1, <2>2 DEF Owned
<1>5. Leased'
  <2>1. ctask'[t].claimed = {}
    BY <1>1 DEF SectorInv, Owned, Owning, Open
  <2> QED
    BY <1>1, <2>1 DEF SectorInv, Leased
<1>6. \A page : Covered(page) => Covered(page)'
  BY <1>1, <1>2 DEF Covered
<1>7. Behind'
  <2>1. ASSUME NEW i \in DOMAIN runs', NEW page \in 1 .. runs'[i].next - 1
        PROVE  Covered(page)
    <3>1. CASE i = Len(runs) + 1
      BY <1>1, <2>1, <3>1 DEF SectorInv, Behind
    <3>2. CASE i # Len(runs) + 1
      <4>1. i \in 1 .. Len(runs)
        BY <1>1, <1>2, <3>2
      <4> QED
        BY <1>1, <2>1, <4>1 DEF SectorInv, Behind
    <3> QED
      BY <3>1, <3>2
  <2>2. ASSUME NEW u \in Tasks, NEW page \in 1 .. ctask'[u].page - 1
        PROVE  Covered(page)
    BY <1>1, <2>2 DEF SectorInv, Behind
  <2> QED
    BY <1>6, <2>1, <2>2 DEF Behind
<1> QED
  BY <1>1, <1>4, <1>5, <1>7 DEF SectorInv

\* The resource claimed is another one than those of the tasks whose claims hold.
LEMMA ClaimStep ==
  ASSUME SectorInv, SectorAssumption, NEW t \in Tasks, NEW kind \in Kinds, NEW r \in Pool[kind],
         Claim(t, kind, r)
  PROVE  SectorInv'
<1>1. /\ Typed'
      /\ UNCHANGED <<clock, runs>>
      /\ r \in Resources /\ clock \in Nat /\ TTL \in Nat
      /\ \A u \in Tasks : u # t => ctask'[u] = ctask[u]
      /\ ctask[t].at = "claim" /\ ctask'[t].at = "claim" /\ kind \in ctask[t].todo
      /\ ctask'[t].run = ctask[t].run /\ ctask'[t].page = ctask[t].page
      /\ ctask'[t].claimed = ctask[t].claimed \cup {[resource |-> r, until |-> clock + TTL]}
      /\ ctask'[t].todo = ctask[t].todo \ {kind}
      /\ lease[r].by \in {0, ctask[t].run} \/ lease[r].until < clock
      /\ \A s \in Resources : s # r => lease'[s] = lease[s]
      /\ lease'[r].by = ctask[t].run /\ lease'[r].until = clock + TTL
  BY ClaimDoes DEF SectorInv
<1>2. "claim" \in Open /\ "claim" \in Owning
  BY DEF Open, Owning
<1>3. Owned'
  BY <1>1, <1>2 DEF SectorInv, Owned
<1>4. Behind'
  BY <1>1 DEF SectorInv, Behind, Covered
<1>5. ctask[t].run \in 1 .. Len(runs)
  BY <1>1, <1>2 DEF SectorInv, Owned
<1>6. \A c \in ctask[t].claimed : c.resource # r
  BY <1>1 DEF SectorInv, Leased
<1>7. \A k \in Kinds : r \in Pool[k] => k = kind
  BY DEF SectorAssumption
<1>8. \A u \in Tasks : \A c \in ctask[u].claimed :
         c.resource \in Resources /\ c.until \in Int /\ lease[c.resource].until \in Int
  BY DEF SectorInv, Typed, TaskRecord, Claims
<1>9. ASSUME NEW u \in Tasks, NEW c \in ctask'[u].claimed
      PROVE  /\ clock' <= c.until =>
                   /\ lease'[c.resource].by = ctask'[u].run
                   /\ c.until <= lease'[c.resource].until
             /\ \A d \in ctask'[u].claimed : c.resource = d.resource => c = d
             /\ \A k \in Kinds : c.resource \in Pool[k] => k \notin ctask'[u].todo
  <2>1. CASE u = t
    <3>1. CASE c = [resource |-> r, until |-> clock + TTL]
      <4>1. c.resource = r /\ c.until = clock + TTL
        BY <3>1
      <4> QED
        BY <1>1, <1>6, <1>7, <2>1, <3>1, <4>1
    <3>2. CASE c \in ctask[t].claimed
      <4>1. c.resource # r /\ c.resource \in Resources
        BY <1>6, <1>8, <3>2
      <4>2. lease'[c.resource] = lease[c.resource]
        BY <1>1, <4>1
      <4>3. \A d \in ctask'[t].claimed : c.resource = d.resource => d \in ctask[t].claimed
        BY <1>1, <4>1
      <4> QED
        BY <1>1, <2>1, <3>2, <4>2, <4>3 DEF SectorInv, Leased
    <3> QED
      BY <1>1, <1>9, <2>1, <3>1, <3>2
  <2>2. CASE u # t
    <3>1. c \in ctask[u].claimed /\ ctask'[u] = ctask[u]
      BY <1>1, <1>9, <2>2
    <3>2. clock <= c.until => c.resource # r
      <4>1. SUFFICES ASSUME clock <= c.until, c.resource = r
                     PROVE  FALSE
        OBVIOUS
      <4>2. lease[r].by = ctask[u].run /\ c.until <= lease[r].until
        BY <3>1, <4>1 DEF SectorInv, Leased
      <4>3. ctask[u].at \in Owning
        BY <3>1 DEF SectorInv, Owned
      <4>4. ctask[u].run \in 1 .. Len(runs) /\ ctask[u].run # ctask[t].run
        BY <1>1, <1>2, <2>2, <4>3 DEF SectorInv, Owned
      <4>5. c.until \in Int /\ lease[r].until \in Int
        BY <1>8, <3>1, <4>1
      <4>6. lease[r].until < clock
        BY <1>1, <4>2, <4>4
      <4> QED
        BY <1>1, <4>1, <4>2, <4>5, <4>6
    <3>3. c.resource \in Resources
      BY <1>8, <3>1
    <3> QED
      BY <1>1, <3>1, <3>2, <3>3 DEF SectorInv, Leased
  <2> QED
    BY <2>1, <2>2
<1>10. Leased'
  BY <1>9 DEF Leased
<1> QED
  BY <1>1, <1>3, <1>4, <1>10 DEF SectorInv

\* A task frees what is its own, and nothing that another holds.
LEMMA ReleaseStep ==
  ASSUME SectorInv, NEW t \in Tasks, Release(t)
  PROVE  SectorInv'
<1>1. /\ Typed'
      /\ UNCHANGED <<clock, runs>>
      /\ \A u \in Tasks : u # t => ctask'[u] = ctask[u]
      /\ ctask[t].at = "release"
      /\ \/ /\ UNCHANGED lease
            /\ ctask'[t].at = "idle" /\ ctask'[t].claimed = {} /\ ctask'[t].page = 1
         \/ \E c \in ctask[t].claimed :
               /\ c.resource \in Resources
               /\ \A s \in Resources : s # c.resource => lease'[s] = lease[s]
               /\ lease[c.resource].by # ctask[t].run =>
                     lease'[c.resource] = lease[c.resource]
               /\ ctask'[t].at = "release" /\ ctask'[t].run = ctask[t].run
               /\ ctask'[t].page = ctask[t].page /\ ctask'[t].todo = ctask[t].todo
               /\ ctask'[t].claimed = ctask[t].claimed \ {c}
  BY ReleaseDoes DEF SectorInv
<1>2. CASE UNCHANGED lease /\ ctask'[t].at = "idle" /\ ctask'[t].claimed = {} /\ ctask'[t].page = 1
  <2>1. "idle" \notin Owning
    BY DEF Owning, Open
  <2>2. \A page \in 1 .. ctask'[t].page - 1 : Covered(page)
    BY <1>2
  <2> QED
    BY <1>1, <1>2, <2>1, <2>2, PlainStep
<1>3. ASSUME NEW c \in ctask[t].claimed,
             c.resource \in Resources,
             \A s \in Resources : s # c.resource => lease'[s] = lease[s],
             lease[c.resource].by # ctask[t].run => lease'[c.resource] = lease[c.resource],
             ctask'[t].at = "release", ctask'[t].run = ctask[t].run,
             ctask'[t].page = ctask[t].page, ctask'[t].todo = ctask[t].todo,
             ctask'[t].claimed = ctask[t].claimed \ {c}
      PROVE  SectorInv'
  <2>1. "release" \in Owning /\ "release" \notin Open
    BY DEF Owning, Open
  <2>2. Owned'
    BY <1>1, <1>3, <2>1 DEF SectorInv, Owned
  <2>3. Behind'
    BY <1>1, <1>3 DEF SectorInv, Behind, Covered
  <2>4. \A u \in Tasks : \A d \in ctask[u].claimed : d.resource \in Resources
    BY DEF SectorInv, Typed, TaskRecord, Claims
  <2>5. ASSUME NEW u \in Tasks, NEW d \in ctask'[u].claimed
        PROVE  /\ clock' <= d.until =>
                     /\ lease'[d.resource].by = ctask'[u].run
                     /\ d.until <= lease'[d.resource].until
               /\ \A e \in ctask'[u].claimed : d.resource = e.resource => d = e
               /\ \A k \in Kinds : d.resource \in Pool[k] => k \notin ctask'[u].todo
    <3>1. /\ d \in ctask[u].claimed /\ d.resource \in Resources
          /\ ctask'[u].claimed \subseteq ctask[u].claimed
          /\ ctask'[u].todo = ctask[u].todo /\ ctask'[u].run = ctask[u].run
      BY <1>1, <1>3, <2>4, <2>5
    <3>2. clock <= d.until => lease'[d.resource] = lease[d.resource]
      <4>1. CASE u = t
        <5>1. d # c
          BY <1>3, <2>5, <4>1
        <5>2. d.resource # c.resource
          BY <1>3, <3>1, <4>1, <5>1 DEF SectorInv, Leased
        <5> QED
          BY <1>3, <3>1, <5>2
      <4>2. CASE u # t
        <5>1. ctask[u].at \in Owning
          BY <3>1 DEF SectorInv, Owned
        <5>2. ctask[u].run # ctask[t].run
          BY <1>1, <2>1, <4>2, <5>1 DEF SectorInv, Owned
        <5>3. clock <= d.until => lease[d.resource].by = ctask[u].run
          BY <3>1 DEF SectorInv, Leased
        <5> QED
          BY <1>3, <3>1, <5>2, <5>3
      <4> QED
        BY <4>1, <4>2
    <3> QED
      BY <1>1, <3>1, <3>2 DEF SectorInv, Leased
  <2>6. Leased'
    BY <2>5 DEF Leased
  <2> QED
    BY <1>1, <2>2, <2>3, <2>6 DEF SectorInv
<1> QED
  BY <1>1, <1>2, <1>3

\* A run that ends covers its own pages; the runs that cover others had ended.
LEMMA CloseStep ==
  ASSUME SectorInv, NEW t \in Tasks, Complete(t) \/ Fail(t)
  PROVE  SectorInv'
<1>1. /\ Typed'
      /\ UNCHANGED <<clock, lease>>
      /\ \A u \in Tasks : u # t => ctask'[u] = ctask[u]
      /\ ctask[t].at \in Open /\ ctask'[t].at = "release"
      /\ ctask'[t].run = ctask[t].run /\ ctask'[t].page = ctask[t].page
      /\ ctask'[t].claimed = ctask[t].claimed /\ ctask'[t].todo = ctask[t].todo
      /\ Len(runs') = Len(runs) /\ DOMAIN runs = 1 .. Len(runs) /\ DOMAIN runs' = 1 .. Len(runs)
      /\ \A i \in 1 .. Len(runs) : i # ctask[t].run => runs'[i] = runs[i]
      /\ runs'[ctask[t].run].from = runs[ctask[t].run].from
      /\ runs'[ctask[t].run].status = "completed"
            \/ runs'[ctask[t].run].next = runs[ctask[t].run].next
  BY CloseDoes DEF SectorInv
<1>2. "release" \in Owning /\ "release" \notin Open /\ Open \subseteq Owning
  BY DEF Owning, Open
<1>3. /\ ctask[t].run \in 1 .. Len(runs)
      /\ runs[ctask[t].run].status = "running"
      /\ runs[ctask[t].run].from = ctask[t].page
  BY <1>1, <1>2 DEF SectorInv, Owned
<1>4. Owned'
  <2>1. ASSUME NEW u \in Tasks
        PROVE  /\ ctask'[u].at \in Owning => ctask'[u].run \in 1 .. Len(runs')
               /\ ctask'[u].at \notin Owning => ctask'[u].claimed = {}
               /\ ctask'[u].at \in Open =>
                     /\ runs'[ctask'[u].run].status = "running"
                     /\ runs'[ctask'[u].run].from = ctask'[u].page
    <3>1. CASE u = t
      BY <1>1, <1>2, <1>3, <3>1
    <3>2. CASE u # t
      <4>1. ctask'[u] = ctask[u]
        BY <1>1, <3>2
      <4>2. ctask[u].at \in Open => ctask[u].run # ctask[t].run
        BY <1>1, <1>2, <3>2 DEF SectorInv, Owned
      <4>3. ctask[u].at \in Open => runs'[ctask[u].run] = runs[ctask[u].run]
        BY <1>1, <1>2, <4>2 DEF SectorInv, Owned
      <4> QED
        BY <1>1, <4>1, <4>3 DEF SectorInv, Owned
    <3> QED
      BY <3>1, <3>2
  <2>2. \A u, v \in Tasks :
           u # v /\ ctask'[u].at \in Owning /\ ctask'[v].at \in Owning
              => ctask'[u].run # ctask'[v].run
    BY <1>1, <1>2 DEF SectorInv, Owned
  <2> QED
    BY <2>1, <2>2 DEF Owned
<1>5. Leased'
  BY <1>1 DEF SectorInv, Leased
<1>6. \A page : Covered(page) => Covered(page)'
  BY <1>1, <1>3 DEF Covered
<1>7. Behind'
  <2>1. ASSUME NEW i \in DOMAIN runs', NEW page \in 1 .. runs'[i].next - 1
        PROVE  Covered(page)'
    <3>1. i \in 1 .. Len(runs)
      BY <1>1
    <3>2. CASE i # ctask[t].run
      BY <1>1, <1>6, <2>1, <3>1, <3>2 DEF SectorInv, Behind
    <3>3. CASE i = ctask[t].run /\ runs'[i].next = runs[i].next
      BY <1>1, <1>6, <2>1, <3>1, <3>3 DEF SectorInv, Behind
    <3>4. CASE i = ctask[t].run /\ runs'[i].status = "completed"
      <4>1. runs'[i].next \in Int /\ ctask[t].page \in Int
        <5>1. runs' \in Seq(RunRecord) /\ i \in DOMAIN runs'
          BY <1>1, <2>1 DEF Typed
        <5>2. runs'[i] \in RunRecord
          BY <5>1
        <5>3. ctask[t] \in TaskRecord
          BY DEF SectorInv, Typed
        <5> QED
          BY <5>2, <5>3 DEF RunRecord, TaskRecord
      <4>2. CASE page < ctask[t].page
        <5>1. page \in 1 .. ctask[t].page - 1
          BY <2>1, <4>1, <4>2
        <5> QED
          BY <1>6, <5>1 DEF SectorInv, Behind
      <4>3. CASE page >= ctask[t].page
        <5>1. page \in runs'[i].from .. runs'[i].next - 1
          BY <1>1, <1>3, <2>1, <3>4, <4>1, <4>3
        <5> QED
          BY <3>4, <5>1 DEF Covered
      <4> QED
        BY <4>1, <4>2, <4>3
    <3> QED
      BY <1>1, <3>2, <3>3, <3>4
  <2>2. ASSUME NEW u \in Tasks, NEW page \in 1 .. ctask'[u].page - 1
        PROVE  Covered(page)'
    BY <1>1, <1>6, <2>2 DEF SectorInv, Behind
  <2> QED
    BY <2>1, <2>2 DEF Behind
<1> QED
  BY <1>1, <1>4, <1>5, <1>7 DEF SectorInv

LEMMA SectorSteps == SectorAssumption /\ SectorInv /\ [Next]_vars => SectorInv'
<1> SUFFICES ASSUME SectorAssumption, SectorInv, [Next]_vars
             PROVE  SectorInv'
  OBVIOUS
<1>1. CASE Tick
  <2>1. UNCHANGED <<runs, lease, ctask, account>> /\ clock' = clock + 1
    BY <1>1 DEF Tick
  <2>2. Typed'
    BY <1>1, <2>1 DEF SectorAssumption, SectorInv, Typed, Tick
  <2>3. Owned' /\ Behind'
    BY <2>1 DEF SectorInv, Owned, Behind, Covered
  <2>4. \A t \in Tasks : \A c \in ctask[t].claimed :
           clock \in Int /\ c.until \in Int /\ (clock' <= c.until => clock <= c.until)
    BY <2>1 DEF SectorInv, Typed, TaskRecord, Claims
  <2>5. Leased'
    BY <2>1, <2>4 DEF SectorInv, Leased
  <2> QED
    BY <2>2, <2>3, <2>5 DEF SectorInv
<1>2. CASE Reactivate \/ UNCHANGED vars
  <2>1. UNCHANGED <<clock, open, runs, lease, ctask>> /\ account' \in {"ACTIF", account}
    BY <1>2 DEF Reactivate, vars
  <2> QED
    BY <2>1 DEF SectorInv, Typed, Owned, Leased, Behind, Covered
<1> QED
  BY <1>1, <1>2, ReadStep, InsertStep, ReleaseStep, ClaimStep, OtherStep, CloseStep DEF Next

\* The leases hold until they expire, whatever the number of tasks, runs and
\* resources (resource_lock.py 18-45): no other task claims a resource whose
\* lease runs, and none frees it (the finally clause, sector_collection.py 190).
THEOREM ClaimsHold ==
  ASSUME SectorAssumption
  PROVE  Init /\ [][Next]_vars => []LeasesHold
<1>1. SectorInv => LeasesHold
  BY DEF SectorInv, Leased, LeasesHold
<1> QED
  BY <1>1, SectorStart, SectorSteps, PTL

\* Each page before a checkpoint is of a run that completed, whatever runs
\* failed, died or overlapped (next_page, sector_collection.py 114 and 173).
THEOREM CheckpointsAreEarned ==
  ASSUME SectorAssumption
  PROVE  Init /\ [][Next]_vars => []CheckpointsFollowRuns
<1>1. SectorInv => CheckpointsFollowRuns
  BY DEF SectorInv, Behind, Covered, CheckpointsFollowRuns
<1> QED
  BY <1>1, SectorStart, SectorSteps, PTL

\* Every variable keeps its type.
THEOREM Types ==
  ASSUME SectorAssumption
  PROVE  Init /\ [][Next]_vars => []TypeOK
<1>1. SectorAssumption /\ SectorInv => TypeOK
  <2> SUFFICES ASSUME SectorAssumption, SectorInv
               PROVE  TypeOK
    OBVIOUS
  <2>1. DOMAIN runs = 1 .. Len(runs) /\ \A i \in 1 .. Len(runs) : runs[i] \in RunRecord
    BY DEF SectorInv, Typed
  <2>2. \A t \in Tasks : ctask[t].run \in 0 .. Len(runs)
    BY DEF SectorInv, Typed, TaskRecord
  <2>3. \A r \in Resources : lease[r].by \in 0 .. Len(runs)
    BY DEF SectorInv, Typed
  <2> QED
    BY <2>1, <2>2, <2>3 DEF SectorAssumption, SectorInv, Typed, TypeOK, RunRecord, Status
<1> QED
  BY <1>1, SectorStart, SectorSteps, PTL
=============================================================================
