----------------------------- MODULE LauncherProofs -----------------------------
(* Proofs about Launcher, part by part.                                          *)
EXTENDS Launcher, SequenceTheorems, TLAPS, NaturalsInduction, WellFoundedInduction

-------------------------------------------------------------------------------
(* First places in a sequence *)

LEMMA Smallest ==
    ASSUME NEW S \in SUBSET Nat, S # {} PROVE \E n \in S : \A m \in S : n <= m
<1>1. IsWellFoundedOn(OpToRel(<, Nat), Nat)
  BY NatLessThanWellFounded
<1>2. PICK n \in S : \A m \in S : ~ (<<m, n>> \in OpToRel(<, Nat))
  BY <1>1, WFMin
<1>3. \A m \in S : m \in Nat /\ n \in Nat /\ ~ (m < n)
  BY <1>2 DEF OpToRel
<1>4. \A m \in S : n <= m
  BY <1>3
<1> QED BY <1>4

LEMMA MinIsFirst ==
    ASSUME NEW S \in SUBSET Nat, S # {} PROVE Least(S) \in S /\ \A m \in S : Least(S) <= m
BY Smallest DEF Least

-------------------------------------------------------------------------------
(* Trees: the operators of ConfigTree by what they do at a path *)

Paths == Seq(Key)
Apart(p, q) == ~ Above(p, q) /\ ~ Above(q, p)
Headed(keys) == {p \in Paths : Len(p) > 0 /\ p[1] \in keys}

\* Two trees agree at the paths of P.
Agree(t, u, P) ==
    \A p \in P : (p \in DOMAIN t <=> p \in DOMAIN u) /\ (p \in DOMAIN t => t[p] = u[p])

LEMMA PrefixMeans ==
    ASSUME NEW p \in Paths, NEW q \in Paths
    PROVE  Above(p, q) <=> Len(p) <= Len(q) /\ \A i \in 1 .. Len(p) : p[i] = q[i]
<1>1. Len(p) \in Nat /\ Len(q) \in Nat /\ p \in Seq(Key) /\ q \in Seq(Key)
  BY DEF Paths
<1>2. SubSeq(p, 1, Len(p)) \in Seq(Key) /\ Len(SubSeq(p, 1, Len(p))) = Len(p)
      /\ \A i \in 1 .. Len(p) : SubSeq(p, 1, Len(p))[i] = p[i]
  BY <1>1
<1>3. ASSUME Len(p) <= Len(q)
      PROVE  SubSeq(q, 1, Len(p)) \in Seq(Key) /\ Len(SubSeq(q, 1, Len(p))) = Len(p)
             /\ \A i \in 1 .. Len(p) : SubSeq(q, 1, Len(p))[i] = q[i]
  BY <1>1, <1>3
<1>4. ASSUME Len(p) <= Len(q), \A i \in 1 .. Len(p) : p[i] = q[i]
      PROVE  SubSeq(p, 1, Len(p)) = SubSeq(q, 1, Len(p))
  <2> DEFINE a == SubSeq(p, 1, Len(p))
             b == SubSeq(q, 1, Len(p))
  <2>1. a \in Seq(Key) /\ b \in Seq(Key) /\ Len(a) = Len(b) /\ Len(a) = Len(p)
    BY <1>2, <1>3, <1>4
  <2>2. \A i \in 1 .. Len(p) : a[i] = b[i]
    BY <1>2, <1>3, <1>4
  <2> HIDE DEF a, b
  <2>3. a = b
    BY <2>1, <2>2, SeqEqual
  <2> QED BY <2>3 DEF a, b
<1>5. ASSUME Len(p) <= Len(q), SubSeq(p, 1, Len(p)) = SubSeq(q, 1, Len(p)), NEW i \in 1 .. Len(p)
      PROVE  p[i] = q[i]
  BY <1>2, <1>3, <1>5
<1> QED BY <1>4, <1>5 DEF Above

\* Paths that differ at a place are apart.
LEMMA ApartAt ==
    ASSUME NEW p \in Paths, NEW q \in Paths,
           NEW i \in 1 .. Len(p), i \in 1 .. Len(q), p[i] # q[i]
    PROVE  Apart(p, q) /\ Apart(q, p) /\ p # q
BY PrefixMeans DEF Apart

LEMMA HeadsApart ==
    ASSUME NEW keys, NEW p \in Headed(keys), NEW q \in Paths, q \notin Headed(keys), q # <<>>
    PROVE  Apart(p, q) /\ Apart(q, p) /\ p # q
<1>1. p \in Paths /\ Len(p) \in Nat /\ Len(q) \in Nat /\ Len(p) > 0 /\ Len(q) > 0
  BY DEF Headed, Paths
<1>2. p[1] # q[1] /\ 1 \in 1 .. Len(p) /\ 1 \in 1 .. Len(q)
  BY <1>1 DEF Headed
<1> QED BY <1>1, <1>2, ApartAt

\* What is below a headed path has the same head.
LEMMA BelowHead ==
    ASSUME NEW keys, NEW p \in Headed(keys), NEW q \in Paths, Above(p, q)
    PROVE  q \in Headed(keys)
<1>1. p \in Paths /\ Len(p) \in Nat /\ Len(q) \in Nat /\ Len(p) > 0 /\ p[1] \in keys
  BY DEF Headed, Paths
<1>2. Len(p) <= Len(q) /\ p[1] = q[1]
  BY <1>1, PrefixMeans
<1> QED BY <1>1, <1>2 DEF Headed

LEMMA OverlayIs ==
    ASSUME NEW t, NEW o
    PROVE  /\ \A p : p \in DOMAIN Overlay(t, o) <=>
                        p \in DOMAIN o \/ (p \in DOMAIN t /\ \A q \in DOMAIN o : Apart(p, q))
           /\ \A p \in DOMAIN Overlay(t, o) : Overlay(t, o)[p] = IF p \in DOMAIN o THEN o[p] ELSE t[p]
BY DEF Overlay, Joined, Kept, Apart

LEMMA PutIs ==
    ASSUME NEW t, NEW p, NEW v
    PROVE  /\ \A q : q \in DOMAIN Put(t, p, v) <=> q = p \/ (q \in DOMAIN t /\ Apart(q, p))
           /\ \A q \in DOMAIN Put(t, p, v) : Put(t, p, v)[q] = IF q = p THEN v ELSE t[q]
<1> DEFINE o == Leaf(p, v)
<1>1. DOMAIN o = {p} /\ o[p] = v /\ Put(t, p, v) = Overlay(t, o)
  BY DEF Leaf, Put
<1> HIDE DEF o
<1>2. \A q : q \in DOMAIN Put(t, p, v) <=> q = p \/ (q \in DOMAIN t /\ Apart(q, p))
  BY <1>1, OverlayIs
<1>3. \A q \in DOMAIN Put(t, p, v) : Put(t, p, v)[q] = IF q \in DOMAIN o THEN o[q] ELSE t[q]
  BY <1>1, OverlayIs
<1> QED BY <1>1, <1>2, <1>3

LEMMA DropIs ==
    ASSUME NEW t, NEW p
    PROVE  /\ \A q : q \in DOMAIN Drop(t, p) <=> q \in DOMAIN t /\ ~ Above(p, q)
           /\ \A q \in DOMAIN Drop(t, p) : Drop(t, p)[q] = t[q]
BY DEF Drop, Kept

\* Nothing that is put elsewhere disturbs the paths of some first keys.
LEMMA OverlayElsewhere ==
    ASSUME NEW t, NEW o, NEW keys,
           \A q \in DOMAIN o : q \in Paths /\ q # <<>> /\ q \notin Headed(keys)
    PROVE  Agree(Overlay(t, o), t, Headed(keys))
<1>1. \A p \in Headed(keys), q \in DOMAIN o : Apart(p, q) /\ p # q
  BY HeadsApart
<1> QED BY <1>1, OverlayIs DEF Agree

LEMMA PutElsewhere ==
    ASSUME NEW t, NEW q \in Paths, NEW v, NEW keys, q # <<>>, q \notin Headed(keys)
    PROVE  /\ Agree(Put(t, q, v), t, Headed(keys))
           /\ Agree(PutIfMissing(t, q, v), t, Headed(keys))
<1>1. \A p \in Headed(keys) : Apart(p, q) /\ p # q
  BY HeadsApart
<1> QED BY <1>1, PutIs DEF Agree, PutIfMissing

LEMMA DropElsewhere ==
    ASSUME NEW t, NEW q \in Paths, NEW keys, q # <<>>, q \notin Headed(keys)
    PROVE  Agree(Drop(t, q), t, Headed(keys))
<1>1. \A p \in Headed(keys) : Apart(p, q)
  BY HeadsApart
<1> QED BY <1>1, DropIs DEF Agree, Apart

LEMMA AgreeTrans ==
    ASSUME NEW t, NEW u, NEW w, NEW P, Agree(t, u, P), Agree(u, w, P)
    PROVE  Agree(t, w, P)
BY DEF Agree

LEMMA AgreeSees ==
    ASSUME NEW t, NEW u, NEW keys, DOMAIN t \subseteq Paths, DOMAIN u \subseteq Paths,
           Agree(t, u, Headed(keys)), NEW p \in Headed(keys)
    PROVE  (Has(t, p) <=> Has(u, p)) /\ Get(t, p) = Get(u, p)
<1>1. \A q \in Paths : Above(p, q) => q \in Headed(keys)
  BY BelowHead
<1> QED BY <1>1 DEF Agree, Has, Get

LEMMA TreesStayTrees ==
    ASSUME NEW t, DOMAIN t \subseteq Paths
    PROVE  /\ \A o : DOMAIN o \subseteq Paths => DOMAIN Overlay(t, o) \subseteq Paths
           /\ \A p \in Paths : \A v : DOMAIN Put(t, p, v) \cup DOMAIN PutIfMissing(t, p, v) \subseteq Paths
           /\ \A p : DOMAIN Drop(t, p) \subseteq Paths
           /\ \A keep : keep \subseteq DOMAIN t => DOMAIN Kept(t, keep) \subseteq Paths
<1>1. \A o : DOMAIN o \subseteq Paths => DOMAIN Overlay(t, o) \subseteq Paths
  BY OverlayIs
<1>2. \A p \in Paths : \A v : DOMAIN Put(t, p, v) \cup DOMAIN PutIfMissing(t, p, v) \subseteq Paths
  BY PutIs DEF PutIfMissing
<1>3. \A p : DOMAIN Drop(t, p) \subseteq Paths
  BY DropIs
<1> QED BY <1>1, <1>2, <1>3 DEF Kept

\* One step of a configuration: a tree stays one, and keeps what has another head.
LEMMA StepKeeps ==
    ASSUME NEW t, DOMAIN t \subseteq Paths, NEW q \in Paths, q # <<>>, NEW keys, q[1] \notin keys
    PROVE  /\ \A v : /\ DOMAIN Put(t, q, v) \subseteq Paths /\ Agree(Put(t, q, v), t, Headed(keys))
                     /\ DOMAIN PutIfMissing(t, q, v) \subseteq Paths
                     /\ Agree(PutIfMissing(t, q, v), t, Headed(keys))
           /\ DOMAIN Drop(t, q) \subseteq Paths /\ Agree(Drop(t, q), t, Headed(keys))
<1>1. q \notin Headed(keys)
  BY DEF Headed
<1> QED BY <1>1, PutElsewhere, DropElsewhere, TreesStayTrees

-------------------------------------------------------------------------------
\* A behaviour stays in its part, and goes on as the module of that part says.
LEMMA PartsBegin ==
    InitFiles =>
        /\ part = "codex" => Cdx!Init
        /\ part = "homes" => Hms!Init
        /\ part = "interpreter" => Roles!Init
        /\ part = "metadata" => Meta!Init
        /\ part = "setup" => Setup!Init
        /\ part = "blocks" => Blocks!Init
BY DEF InitFiles

LEMMA PartsGoOn ==
    [NextFiles]_fileVars =>
        /\ part' = part
        /\ part = "codex" => [Cdx!Next]_Cdx!vars
        /\ part = "homes" => [Hms!Next]_Hms!vars
        /\ part = "interpreter" => [Roles!Next]_Roles!vars
        /\ part = "metadata" => [Meta!Next]_Meta!vars
        /\ part = "setup" => [Setup!Next]_Setup!vars
        /\ part = "blocks" => [Blocks!Next]_Blocks!vars
<1>1. ASSUME UNCHANGED fileVars
      PROVE  /\ part' = part /\ UNCHANGED Cdx!vars /\ UNCHANGED Hms!vars /\ UNCHANGED Roles!vars
             /\ UNCHANGED Meta!vars /\ UNCHANGED Setup!vars /\ UNCHANGED Blocks!vars
  BY <1>1 DEF fileVars, codexVars, homeVars, interpreterVars, metadataVars, setupVars, blockVars,
              Cdx!vars, Hms!vars, Roles!vars, Meta!vars, Setup!vars, Blocks!vars
<1>2. ASSUME NextFiles
      PROVE  /\ part' = part
             /\ part = "codex" => Cdx!Next
             /\ part = "homes" => Hms!Next
             /\ part = "interpreter" => Roles!Next
             /\ part = "metadata" => Meta!Next
             /\ part = "setup" => Setup!Next
             /\ part = "blocks" => Blocks!Next
  BY <1>2 DEF NextFiles
<1> QED BY <1>1, <1>2

-------------------------------------------------------------------------------
(* CliSetup *)

SetupType ==
    /\ env \in [Setups -> Env] /\ DOMAIN at = Setups
    /\ DOMAIN mine = Setups /\ DOMAIN update = Setups
    /\ DOMAIN files = Setup!Channels /\ DOMAIN given = Setup!Channels

\* A process keeps its state in its home, and what it has set counts.
SetupPlaces ==
    /\ \A place \in DOMAIN states : \A p \in states[place] :
          p \in Setups /\ place[1] = Setup!Home(env[p])
    /\ \A p \in Setups : at[p] = "set up" =>
          DOMAIN update[p] \subseteq DOMAIN given[Setup!Current(env[p])]

LEMMA SetupChannels ==
    ASSUME SetupType, NEW p \in Setups PROVE Setup!Current(env[p]) \in Setup!Channels
BY DEF SetupType, Setup!Channels

LEMMA SetupTypeHolds ==
    /\ Setup!Init => SetupType
    /\ SetupType /\ [Setup!Next]_Setup!vars => SetupType'
<1>1. Setup!Init => SetupType
  BY DEF Setup!Init, SetupType
<1>2. ASSUME SetupType, Setup!Next PROVE SetupType'
  <2>1. env' = env
    BY <1>2 DEF Setup!Next, Setup!Load, Setup!Truncate, Setup!Fill, Setup!Die, Setup!Launch
  <2>2. /\ DOMAIN at' = Setups /\ DOMAIN mine' = Setups /\ DOMAIN update' = Setups
        /\ DOMAIN files' = Setup!Channels /\ DOMAIN given' = Setup!Channels
    BY <1>2 DEF SetupType, Setup!Next, Setup!Load, Setup!Truncate, Setup!Fill, Setup!Die, Setup!Launch
  <2> QED BY <1>2, <2>1, <2>2 DEF SetupType, Setup!Channels
<1>3. ASSUME SetupType, UNCHANGED Setup!vars PROVE SetupType'
  BY <1>3 DEF SetupType, Setup!vars, Setup!Channels
<1> QED BY <1>1, <1>2, <1>3

LEMMA SetupPlacesHold ==
    /\ Setup!Init => SetupPlaces
    /\ SetupType /\ SetupPlaces /\ [Setup!Next]_Setup!vars => SetupPlaces'
<1>1. Setup!Init => SetupPlaces
  BY DEF Setup!Init, SetupPlaces, Setup!Empty
<1> SUFFICES ASSUME SetupType, SetupPlaces, [Setup!Next]_Setup!vars PROVE SetupPlaces'
  BY <1>1
<1> USE DEF SetupType, SetupPlaces
<1>2. CASE UNCHANGED Setup!vars
  BY <1>2 DEF Setup!vars
<1>3. ASSUME NEW p \in Setups, NEW new \in Update, Setup!Load(p, new) PROVE SetupPlaces'
  BY <1>3 DEF Setup!Load
<1>4. ASSUME NEW p \in Setups, Setup!Truncate(p) PROVE SetupPlaces'
  BY <1>4 DEF Setup!Truncate
<1>5. ASSUME NEW p \in Setups, Setup!Fill(p) PROVE SetupPlaces'
  BY <1>5, SetupChannels DEF Setup!Fill, Setup!Joined
<1>6. ASSUME NEW p \in Setups, Setup!Die(p) PROVE SetupPlaces'
  BY <1>6 DEF Setup!Die
<1>7. ASSUME NEW p \in Setups, NEW name \in ProfileName, Setup!Launch(p, name) PROVE SetupPlaces'
  <2> DEFINE place == <<Setup!Home(env[p]), name>>
             there == IF place \in DOMAIN states THEN states[place] ELSE {}
  <2>1. /\ states' = Setup!Joined(Setup!Leaf(place, {p} \cup there), states)
        /\ at' = [at EXCEPT ![p] = "launched"]
        /\ UNCHANGED <<env, update, given>>
    BY <1>7 DEF Setup!Launch
  <2>2. /\ DOMAIN states' = {place} \cup DOMAIN states
        /\ states'[place] = {p} \cup there
        /\ \A q \in DOMAIN states : q # place => states'[q] = states[q]
    BY <2>1 DEF Setup!Joined, Setup!Leaf
  <2>3. \A q \in {p} \cup there : q \in Setups /\ place[1] = Setup!Home(env[q])
    OBVIOUS
  <2> HIDE DEF place, there
  <2>4. \A q \in DOMAIN states' : \A r \in states'[q] : r \in Setups /\ q[1] = Setup!Home(env[r])
    BY <2>2, <2>3
  <2>5. \A q \in Setups : at'[q] = "set up" => at[q] = "set up"
    BY <2>1
  <2> QED BY <2>1, <2>4, <2>5
<1> QED BY <1>2, <1>3, <1>4, <1>5, <1>6, <1>7 DEF Setup!Next

LEMMA HomeIsNamedOrOwn ==
    ASSUME NEW e \in Env
    PROVE  Setup!Home(e) \in Setup!HomesNamed(e) \cup {<<Setup!UserHome(e), Setup!Current(e)>>}
BY DEF Setup!Home, Setup!HomesNamed, Setup!Get

LEMMA ChannelsApartHolds == SetupType /\ SetupPlaces => Setup!ChannelsApart
<1> SUFFICES ASSUME SetupType, SetupPlaces PROVE Setup!ChannelsApart
  OBVIOUS
<1> USE DEF SetupType, SetupPlaces
<1>1. ASSUME NEW place \in DOMAIN states, NEW p \in states[place], NEW q \in states[place]
      PROVE  \/ Setup!Current(env[p]) = Setup!Current(env[q])
             \/ place[1] \in Setup!HomesNamed(env[p]) \cup Setup!HomesNamed(env[q])
  <2>1. /\ p \in Setups /\ place[1] = Setup!Home(env[p])
        /\ q \in Setups /\ place[1] = Setup!Home(env[q])
    OBVIOUS
  <2>2. env[p] \in Env /\ env[q] \in Env
    BY <2>1
  <2>3. /\ place[1] \in Setup!HomesNamed(env[p])
           \/ place[1] = <<Setup!UserHome(env[p]), Setup!Current(env[p])>>
        /\ place[1] \in Setup!HomesNamed(env[q])
           \/ place[1] = <<Setup!UserHome(env[q]), Setup!Current(env[q])>>
    BY <2>1, <2>2, HomeIsNamedOrOwn
  <2>4. ASSUME <<Setup!UserHome(env[p]), Setup!Current(env[p])>>
                 = <<Setup!UserHome(env[q]), Setup!Current(env[q])>>
        PROVE  Setup!Current(env[p]) = Setup!Current(env[q])
    BY <2>4
  <2>5. CASE place[1] \in Setup!HomesNamed(env[p]) \/ place[1] \in Setup!HomesNamed(env[q])
    BY <2>5
  <2>6. CASE /\ place[1] = <<Setup!UserHome(env[p]), Setup!Current(env[p])>>
             /\ place[1] = <<Setup!UserHome(env[q]), Setup!Current(env[q])>>
    <3>1. <<Setup!UserHome(env[p]), Setup!Current(env[p])>>
            = <<Setup!UserHome(env[q]), Setup!Current(env[q])>>
      BY <2>6, Zenon
    <3> QED BY <3>1, <2>4
  <2> QED BY <2>3, <2>5, <2>6
<1>2. ASSUME NEW p \in Setups, env[p].exe \notin Asset \cup {None}, at[p] = "set up"
      PROVE  DOMAIN update[p] \subseteq DOMAIN given[Setup!Name(env[p].exe)]
  BY <1>2 DEF Setup!Current
<1>3. ASSUME NEW p \in Setups, env[p].exe \notin Asset \cup {None}, Setup!Name(env[p].exe) # "prod"
      PROVE  Setup!Home(env[p]) = Setup!Home([env[p] EXCEPT !.home = None])
  <2> DEFINE e == [env[p] EXCEPT !.home = None]
  <2>1. e.exe = env[p].exe /\ e.staged = env[p].staged /\ e.user = env[p].user
    <3>1. env[p] \in Env
      OBVIOUS
    <3>2. DOMAIN env[p] = {"exe", "channel", "stage", "home", "staged", "user"}
      BY <3>1, EnvAssumption
    <3> QED BY <3>2
  <2>2. Setup!Current(env[p]) = Setup!Name(env[p].exe) /\ Setup!Current(e) = Setup!Name(env[p].exe)
    BY <1>3, <2>1 DEF Setup!Current
  <2> QED BY <1>3, <2>1, <2>2 DEF Setup!Home, Setup!UserHome
<1> QED BY <1>1, <1>2, <1>3 DEF Setup!ChannelsApart

\* The values that a file shows are those of the settings it was filled from.
LEMMA NamedJoined ==
    ASSUME NEW tree, NEW over
    PROVE  Setup!Named(Setup!Joined(over, Setup!Named(tree))) = Setup!Named(Setup!Joined(over, tree))
<1> DEFINE shown == Setup!Named(tree)
           left == Setup!Joined(over, shown)
           right == Setup!Joined(over, tree)
<1>1. /\ DOMAIN shown = {p \in DOMAIN tree : tree[p] # "none"}
      /\ \A p \in DOMAIN shown : shown[p] = tree[p]
  BY DEF Setup!Named, Setup!Kept
<1>2. /\ DOMAIN left = DOMAIN over \cup DOMAIN shown
      /\ DOMAIN right = DOMAIN over \cup DOMAIN tree
      /\ \A p \in DOMAIN over : left[p] = over[p] /\ right[p] = over[p]
      /\ \A p \in DOMAIN left \ DOMAIN over : left[p] = shown[p]
      /\ \A p \in DOMAIN right \ DOMAIN over : right[p] = tree[p]
  BY DEF Setup!Joined
<1> HIDE DEF shown, left, right
<1>3. {p \in DOMAIN left : left[p] # "none"} = {p \in DOMAIN right : right[p] # "none"}
  BY <1>1, <1>2
<1>4. \A p \in {q \in DOMAIN left : left[q] # "none"} : left[p] = right[p]
  BY <1>1, <1>2
<1>5. Setup!Named(left) = Setup!Named(right)
  BY <1>3, <1>4 DEF Setup!Named, Setup!Kept
<1> QED BY <1>5 DEF left, right, shown

\* In a channel where no two setups have overlapped and none has died halfway,
\* at most one is under way; it holds the settings of the file with its own, and
\* the file has them all unless it is empty for the moment.
Underway(p, c) == Setup!Current(env[p]) = c /\ at[p] \in {"loaded", "empty"}
SetupKept ==
    \A c \in Setup!Channels \ raced :
        /\ \A p, q \in Setups : Underway(p, c) /\ Underway(q, c) => p = q
        /\ \A p \in Setups : Underway(p, c) =>
              mine[p] = Setup!Merged(Setup!Named(given[c]), update[p])
        /\ (\A p \in Setups : Setup!Current(env[p]) = c => at[p] # "empty") =>
              files[c] = Setup!Named(given[c])

LEMMA SetupKeptHolds ==
    /\ Setup!Init => SetupKept
    /\ SetupType /\ SetupKept /\ [Setup!Next]_Setup!vars => SetupKept'
<1>1. Setup!Init => SetupKept
  BY DEF Setup!Init, SetupKept, Underway, Setup!Empty, Setup!Named, Setup!Kept
<1> SUFFICES ASSUME SetupType, SetupKept, [Setup!Next]_Setup!vars PROVE SetupKept'
  BY <1>1
<1> USE DEF SetupType, SetupKept, Underway
<1>2. CASE UNCHANGED Setup!vars
  BY <1>2 DEF Setup!vars, Setup!Channels
<1>3. ASSUME NEW p \in Setups, NEW new \in Update, Setup!Load(p, new) PROVE SetupKept'
  <2>1. /\ at[p] = "idle" /\ at' = [at EXCEPT ![p] = "loaded"]
        /\ mine' = [mine EXCEPT ![p] = Setup!Merged(files[Setup!Current(env[p])], new)]
        /\ update' = [update EXCEPT ![p] = new]
        /\ raced' = IF Setup!Others(p) = {} THEN raced ELSE raced \cup {Setup!Current(env[p])}
        /\ UNCHANGED <<env, files, given>>
    BY <1>3 DEF Setup!Load
  <2>2. Setup!Channels' = Setup!Channels
    BY <2>1 DEF Setup!Channels
  <2> SUFFICES ASSUME NEW c \in Setup!Channels, c \notin raced'
               PROVE  /\ \A q, r \in Setups : Underway(q, c)' /\ Underway(r, c)' => q = r
                      /\ \A q \in Setups : Underway(q, c)' =>
                            mine'[q] = Setup!Merged(Setup!Named(given'[c]), update'[q])
                      /\ (\A q \in Setups : Setup!Current(env'[q]) = c => at'[q] # "empty") =>
                            files'[c] = Setup!Named(given'[c])
    BY <2>2
  <2>3. c \notin raced
    BY <2>1
  <2>4. \A q \in Setups : q # p => at'[q] = at[q] /\ mine'[q] = mine[q] /\ update'[q] = update[q]
    BY <2>1
  <2>5. at'[p] = "loaded" /\ update'[p] = new
        /\ mine'[p] = Setup!Merged(files[Setup!Current(env[p])], new)
    BY <2>1
  <2>6. CASE Setup!Current(env[p]) # c
    BY <2>1, <2>3, <2>4, <2>5, <2>6
  <2>7. CASE Setup!Current(env[p]) = c
    <3>1. \A q \in Setups \ {p} : ~ Underway(q, c)
      BY <2>1, <2>7 DEF Setup!Others
    <3>2. \A q \in Setups : Setup!Current(env[q]) = c => at[q] # "empty"
      BY <2>1, <3>1
    <3>3. files[c] = Setup!Named(given[c])
      BY <2>3, <3>2
    <3> QED BY <2>1, <2>4, <2>5, <2>7, <3>1, <3>3
  <2> QED BY <2>6, <2>7
<1>4. ASSUME NEW p \in Setups, Setup!Truncate(p) PROVE SetupKept'
  BY <1>4 DEF Setup!Truncate, Setup!Channels
<1>5. ASSUME NEW p \in Setups, Setup!Fill(p) PROVE SetupKept'
  <2> DEFINE d == Setup!Current(env[p])
  <2>1. /\ at[p] = "empty" /\ at' = [at EXCEPT ![p] = "set up"]
        /\ files' = [files EXCEPT ![d] = mine[p]]
        /\ given' = [given EXCEPT ![d] = Setup!Joined(update[p], @)]
        /\ UNCHANGED <<env, mine, update, raced>>
    BY <1>5 DEF Setup!Fill
  <2>2. d \in Setup!Channels /\ Setup!Channels' = Setup!Channels
    BY <2>1, SetupChannels DEF Setup!Channels
  <2>3. files'[d] = mine[p] /\ given'[d] = Setup!Joined(update[p], given[d])
    BY <2>1, <2>2
  <2>4. \A c \in Setup!Channels : c # d => files'[c] = files[c] /\ given'[c] = given[c]
    BY <2>1, <2>2
  <2>5. \A q \in Setups : q # p => at'[q] = at[q]
    BY <2>1
  <2>6. at'[p] = "set up"
    BY <2>1
  <2> HIDE DEF d
  <2>7. d \notin raced => files'[d] = Setup!Named(given'[d])
    <3> SUFFICES ASSUME d \notin raced PROVE files'[d] = Setup!Named(given'[d])
      OBVIOUS
    <3>1. mine[p] = Setup!Merged(Setup!Named(given[d]), update[p])
      BY <2>1, <2>2 DEF d
    <3> QED BY <2>3, <3>1, NamedJoined DEF Setup!Merged
  <2>8. ASSUME NEW c \in Setup!Channels, c \notin raced, c # d
        PROVE  /\ \A q, r \in Setups : Underway(q, c)' /\ Underway(r, c)' => q = r
               /\ \A q \in Setups : Underway(q, c)' =>
                      mine'[q] = Setup!Merged(Setup!Named(given'[c]), update'[q])
               /\ (\A q \in Setups : Setup!Current(env'[q]) = c => at'[q] # "empty") =>
                      files'[c] = Setup!Named(given'[c])
    <3>1. c \notin raced
      BY <2>1, <2>8
    <3>2. ASSUME NEW q \in Setups PROVE Underway(q, c)' <=> Underway(q, c)
      BY <2>1, <2>5, <2>6, <2>8 DEF d
    <3>3. ASSUME \A q \in Setups : Setup!Current(env'[q]) = c => at'[q] # "empty"
          PROVE  \A q \in Setups : Setup!Current(env[q]) = c => at[q] # "empty"
      BY <2>1, <2>5, <2>8, <3>3 DEF d
    <3>4. files'[c] = files[c] /\ given'[c] = given[c]
      BY <2>4, <2>8
    <3> HIDE DEF Underway
    <3> QED BY <2>1, <3>1, <3>2, <3>3, <3>4
  <2>9. d \notin raced => \A q \in Setups : ~ Underway(q, d)'
    BY <2>1, <2>2, <2>5, <2>6 DEF d
  <2> SUFFICES ASSUME NEW c \in Setup!Channels, c \notin raced
               PROVE  /\ \A q, r \in Setups : Underway(q, c)' /\ Underway(r, c)' => q = r
                      /\ \A q \in Setups : Underway(q, c)' =>
                            mine'[q] = Setup!Merged(Setup!Named(given'[c]), update'[q])
                      /\ (\A q \in Setups : Setup!Current(env'[q]) = c => at'[q] # "empty") =>
                            files'[c] = Setup!Named(given'[c])
    BY <2>1, <2>2
  <2> HIDE DEF Underway
  <2>10. CASE c = d
    <3>1. files'[c] = Setup!Named(given'[c])
      BY <2>7, <2>10
    <3>2. \A q \in Setups : ~ Underway(q, c)'
      BY <2>1, <2>9, <2>10 DEF Underway, d
    <3> QED BY <3>1, <3>2
  <2> QED BY <2>8, <2>10
<1>6. ASSUME NEW p \in Setups, Setup!Die(p) PROVE SetupKept'
  BY <1>6 DEF Setup!Die, Setup!Channels
<1>7. ASSUME NEW p \in Setups, NEW name \in ProfileName, Setup!Launch(p, name) PROVE SetupKept'
  <2>1. /\ at[p] \in {"idle", "set up"} /\ at' = [at EXCEPT ![p] = "launched"]
        /\ UNCHANGED <<env, mine, files, update, given, raced>>
    BY <1>7 DEF Setup!Launch
  <2>2. Setup!Channels' = Setup!Channels
    BY <2>1 DEF Setup!Channels
  <2>3. \A q \in Setups : at'[q] = at[q] \/ q = p
    BY <2>1
  <2>4. \A q \in Setups : at'[q] \in {"loaded", "empty"} <=> at[q] \in {"loaded", "empty"}
    BY <2>1
  <2>5. \A q \in Setups : at'[q] # "empty" <=> at[q] # "empty"
    BY <2>1
  <2>6. \A q \in Setups, c \in Setup!Channels : Underway(q, c)' <=> Underway(q, c)
    BY <2>1, <2>4
  <2> HIDE DEF Underway
  <2> QED BY <2>1, <2>2, <2>5, <2>6
<1> QED BY <1>2, <1>3, <1>4, <1>5, <1>6, <1>7 DEF Setup!Next

LEMMA SettingsStayHolds == SetupType /\ SetupKept => Setup!SettingsStay
BY DEF SetupKept, Setup!SettingsStay

-------------------------------------------------------------------------------
(* CodexLaunch *)

LEMMA CodexTrees ==
    /\ \A t, o : Cdx!Overlay(t, o) = Overlay(t, o)
    /\ \A t, p, v : Cdx!Put(t, p, v) = Put(t, p, v) /\ Cdx!PutIfMissing(t, p, v) = PutIfMissing(t, p, v)
    /\ \A t, p : Cdx!Drop(t, p) = Drop(t, p) /\ Cdx!Get(t, p) = Get(t, p) /\ (Cdx!Has(t, p) <=> Has(t, p))
    /\ \A t, o, s : Cdx!OverlayProfile(t, o, s) = OverlayProfile(t, o, s)
    /\ \A t, p, l : Cdx!PutAt(t, p, l) = PutAt(t, p, l)
    /\ \A t, k : Cdx!Kept(t, k) = Kept(t, k)
    /\ \A p, q : Cdx!Above(p, q) <=> Above(p, q)
<1>1. \A p, q : Cdx!Above(p, q) <=> Above(p, q)
  BY DEF Cdx!Above, Above
<1>2. \A t, k : Cdx!Kept(t, k) = Kept(t, k)
  BY DEF Cdx!Kept, Kept
<1>3. \A t, o : Cdx!Overlay(t, o) = Overlay(t, o)
  BY DEF Cdx!Overlay, Overlay, Cdx!Joined, Joined, Cdx!Kept, Kept, Cdx!Above, Above
<1>4. \A t, p : Cdx!Drop(t, p) = Drop(t, p)
  BY DEF Cdx!Drop, Drop, Cdx!Kept, Kept, Cdx!Above, Above
<1>5. \A t, p : Cdx!Get(t, p) = Get(t, p)
  BY DEF Cdx!Get, Get
<1>6. \A t, p : Cdx!Has(t, p) <=> Has(t, p)
  BY <1>1 DEF Cdx!Has, Has
<1>7. \A t, p, v : Cdx!Put(t, p, v) = Put(t, p, v)
  BY <1>3 DEF Cdx!Put, Put, Cdx!Leaf, Leaf
<1>8. \A t, p, v : Cdx!PutIfMissing(t, p, v) = PutIfMissing(t, p, v)
  BY <1>6, <1>7 DEF Cdx!PutIfMissing, PutIfMissing
<1>9. \A t, o, s : Cdx!OverlayProfile(t, o, s) = OverlayProfile(t, o, s)
  BY <1>3 DEF Cdx!OverlayProfile, OverlayProfile, Cdx!Kept, Kept, Cdx!Above, Above
<1>10. \A t, p, l : Cdx!PutAt(t, p, l) = PutAt(t, p, l)
  BY <1>3, <1>4 DEF Cdx!PutAt, PutAt
<1> QED BY <1>1, <1>2, <1>3, <1>4, <1>5, <1>6, <1>7, <1>8, <1>9, <1>10

\* What each step leaves alone: all that has another head than the ones it writes.
LEMMA BasicsKeep ==
    ASSUME NEW t, DOMAIN t \subseteq Paths, NEW keys,
           keys \cap {"cli_auth_credentials_store", "preferred_auth_method", "features"} = {}
    PROVE  DOMAIN Cdx!Basics(t) \subseteq Paths /\ Agree(Cdx!Basics(t), t, Headed(keys))
<1> DEFINE a == PutIfMissing(t, <<"cli_auth_credentials_store">>, "file")
           b == Drop(a, <<"preferred_auth_method">>)
           c == PutIfMissing(b, <<"features", "responses_websockets">>, "false")
<1>1. Cdx!Basics(t) = c
  BY CodexTrees DEF Cdx!Basics
<1>2. /\ <<"cli_auth_credentials_store">> \in Paths /\ <<"preferred_auth_method">> \in Paths
      /\ <<"features", "responses_websockets">> \in Paths
  BY KeyAssumption DEF Paths
<1>3. DOMAIN a \subseteq Paths /\ Agree(a, t, Headed(keys))
  BY <1>2, StepKeeps
<1> HIDE DEF a
<1>4. DOMAIN b \subseteq Paths /\ Agree(b, a, Headed(keys))
  BY <1>2, <1>3, StepKeeps
<1> HIDE DEF b
<1>5. DOMAIN c \subseteq Paths /\ Agree(c, b, Headed(keys))
  BY <1>2, <1>4, StepKeeps
<1> HIDE DEF c
<1> QED BY <1>1, <1>3, <1>4, <1>5, AgreeTrans

LEMMA WithModelKeeps ==
    ASSUME NEW t, DOMAIN t \subseteq Paths, NEW keys, "model" \notin keys, NEW asked
    PROVE  DOMAIN Cdx!WithModel(t, asked) \subseteq Paths /\ Agree(Cdx!WithModel(t, asked), t, Headed(keys))
<1>1. <<"model">> \in Paths
  BY KeyAssumption DEF Paths
<1>2. \A v : /\ DOMAIN Put(t, <<"model">>, v) \subseteq Paths
             /\ Agree(Put(t, <<"model">>, v), t, Headed(keys))
             /\ DOMAIN PutIfMissing(t, <<"model">>, v) \subseteq Paths
             /\ Agree(PutIfMissing(t, <<"model">>, v), t, Headed(keys))
  BY <1>1, StepKeeps
<1> QED BY <1>2, CodexTrees DEF Cdx!WithModel, Agree

LEMMA WithCatalogKeeps ==
    ASSUME NEW t, DOMAIN t \subseteq Paths, NEW keys, "model_catalog_json" \notin keys, NEW asked
    PROVE  DOMAIN Cdx!WithCatalog(t, asked) \subseteq Paths /\ Agree(Cdx!WithCatalog(t, asked), t, Headed(keys))
<1>1. <<"model_catalog_json">> \in Paths
  BY KeyAssumption DEF Paths
<1>2. /\ DOMAIN Put(t, <<"model_catalog_json">>, "generated") \subseteq Paths
      /\ Agree(Put(t, <<"model_catalog_json">>, "generated"), t, Headed(keys))
      /\ DOMAIN Drop(t, <<"model_catalog_json">>) \subseteq Paths
      /\ Agree(Drop(t, <<"model_catalog_json">>), t, Headed(keys))
  BY <1>1, StepKeeps
<1> QED BY <1>2, CodexTrees DEF Cdx!WithCatalog, Agree

\* The paths of the launcher's own provider.
LEMMA ProviderPaths ==
    ASSUME NEW x \in Key
    PROVE  LET p == Cdx!Provider \o <<x>>
           IN  p \in Paths /\ p # <<>> /\ Len(p) = 3 /\ p[1] = "model_providers" /\ p[2] = "ai_fence" /\ p[3] = x
BY KeyAssumption DEF Paths, Cdx!Provider

LEMMA WithProviderKeeps ==
    ASSUME NEW t, DOMAIN t \subseteq Paths, NEW keys,
           keys \cap {"openai_base_url", "model_provider", "model_providers"} = {}
    PROVE  DOMAIN Cdx!WithProvider(t) \subseteq Paths /\ Agree(Cdx!WithProvider(t), t, Headed(keys))
<1> DEFINE a == Drop(t, <<"openai_base_url">>)
           b == Put(a, <<"model_provider">>, "ai_fence")
           c == PutIfMissing(b, Cdx!Provider \o <<"name">>, "ours")
           d == Put(c, Cdx!Provider \o <<"base_url">>, "proxy")
           e == Put(d, Cdx!Provider \o <<"wire_api">>, "responses")
           f == PutIfMissing(e, Cdx!Provider \o <<"supports_websockets">>, "true")
<1>1. Cdx!WithProvider(t) = f
  BY CodexTrees DEF Cdx!WithProvider
<1>2. <<"openai_base_url">> \in Paths /\ <<"model_provider">> \in Paths
  BY KeyAssumption DEF Paths
<1>3. \A x \in {"name", "base_url", "wire_api", "supports_websockets"} :
         /\ Cdx!Provider \o <<x>> \in Paths /\ Cdx!Provider \o <<x>> # <<>>
         /\ (Cdx!Provider \o <<x>>)[1] = "model_providers"
  <2>1. \A x \in {"name", "base_url", "wire_api", "supports_websockets"} : x \in Key
    BY KeyAssumption
  <2> QED BY <2>1, ProviderPaths
<1>4. DOMAIN a \subseteq Paths /\ Agree(a, t, Headed(keys))
  BY <1>2, StepKeeps
<1> HIDE DEF a
<1>5. DOMAIN b \subseteq Paths /\ Agree(b, a, Headed(keys))
  BY <1>2, <1>4, StepKeeps
<1> HIDE DEF b
<1>6. DOMAIN c \subseteq Paths /\ Agree(c, b, Headed(keys))
  BY <1>3, <1>5, StepKeeps
<1> HIDE DEF c
<1>7. DOMAIN d \subseteq Paths /\ Agree(d, c, Headed(keys))
  BY <1>3, <1>6, StepKeeps
<1> HIDE DEF d
<1>8. DOMAIN e \subseteq Paths /\ Agree(e, d, Headed(keys))
  BY <1>3, <1>7, StepKeeps
<1> HIDE DEF e
<1>9. DOMAIN f \subseteq Paths /\ Agree(f, e, Headed(keys))
  BY <1>3, <1>8, StepKeeps
<1> HIDE DEF f
<1> QED BY <1>1, <1>4, <1>5, <1>6, <1>7, <1>8, <1>9, AgreeTrans

\* The sources of credentials: pairwise apart, unless they are the same.
LEMMA SourcePaths ==
    /\ \A a \in Cdx!Auth : Cdx!Sources[a] \in Paths /\ Len(Cdx!Sources[a]) = 3
                         /\ Cdx!Sources[a][1] = "model_providers" /\ Cdx!Sources[a][2] = "ai_fence"
    /\ Cdx!Sources["EnvKey"][3] = "env_key" /\ Cdx!Sources["EnvBearer"][3] = "env_key"
    /\ Cdx!Sources["OpenAiAuth"][3] = "requires_openai_auth" /\ Cdx!Sources["Command"][3] = "auth"
    /\ Cdx!Sources["EnvKey"] = Cdx!Sources["EnvBearer"]
<1>1. \A x \in {"env_key", "requires_openai_auth", "auth"} : x \in Key
  BY KeyAssumption
<1>2. /\ Cdx!Sources["EnvKey"] = Cdx!Provider \o <<"env_key">>
      /\ Cdx!Sources["EnvBearer"] = Cdx!Provider \o <<"env_key">>
      /\ Cdx!Sources["OpenAiAuth"] = Cdx!Provider \o <<"requires_openai_auth">>
      /\ Cdx!Sources["Command"] = Cdx!Provider \o <<"auth">>
  BY DEF Cdx!Sources
<1>3. \A x \in {"env_key", "requires_openai_auth", "auth"} :
         LET p == Cdx!Provider \o <<x>>
         IN  p \in Paths /\ Len(p) = 3 /\ p[1] = "model_providers" /\ p[2] = "ai_fence" /\ p[3] = x
  BY <1>1, ProviderPaths
<1> HIDE DEF Cdx!Provider
<1>4. \A a \in Cdx!Auth : \E x \in {"env_key", "requires_openai_auth", "auth"} :
         Cdx!Sources[a] = Cdx!Provider \o <<x>>
  BY <1>2 DEF Cdx!Auth
<1> QED BY <1>2, <1>3, <1>4

\* Where the one source of a launch is written.
AuthPath(a) == Cdx!Sources[a] \o (IF a = "Command" THEN <<"command">> ELSE <<>>)

LEMMA AuthPathIs ==
    ASSUME NEW a \in Cdx!Auth
    PROVE  /\ AuthPath(a) \in Paths /\ Len(AuthPath(a)) >= 3
           /\ \A i \in 1 .. 3 : AuthPath(a)[i] = Cdx!Sources[a][i]
<1> DEFINE s == Cdx!Sources[a]
           e == IF a = "Command" THEN <<"command">> ELSE <<>>
<1>1. s \in Seq(Key) /\ Len(s) = 3
  BY SourcePaths DEF Paths
<1>2. e \in Seq(Key) /\ Len(e) \in Nat
  BY KeyAssumption
<1>3. AuthPath(a) = s \o e
  BY DEF AuthPath
<1> HIDE DEF s, e
<1>4. /\ s \o e \in Seq(Key) /\ Len(s \o e) = Len(s) + Len(e)
      /\ \A i \in 1 .. Len(s) + Len(e) : (s \o e)[i] = IF i <= Len(s) THEN s[i] ELSE e[i - Len(s)]
  BY <1>1, <1>2, ConcatProperties
<1>5. \A i \in 1 .. 3 : i \in 1 .. Len(s) + Len(e) /\ i <= Len(s)
  BY <1>1, <1>2
<1>6. \A i \in 1 .. 3 : (s \o e)[i] = s[i]
  BY <1>4, <1>5
<1>7. Len(s \o e) >= 3
  BY <1>1, <1>2, <1>4
<1> QED BY <1>3, <1>4, <1>6, <1>7 DEF Paths, s

LEMMA WithAuthIs ==
    ASSUME NEW t, DOMAIN t \subseteq Paths, NEW asked, asked.auth \in Cdx!Auth
    PROVE  LET new == Cdx!WithAuth(t, asked)
               place == AuthPath(asked.auth)
           IN  /\ DOMAIN new \subseteq Paths
               /\ \A p : p \in DOMAIN new <=>
                     \/ p = place
                     \/ /\ p \in DOMAIN t /\ Apart(p, place)
                        /\ \A a \in Cdx!Auth : ~ Above(Cdx!Sources[a], p)
               /\ \A p \in DOMAIN new : p # place => new[p] = t[p]
<1> DEFINE keep == {p \in DOMAIN t : \A s \in {Cdx!Sources[a] : a \in Cdx!Auth} : ~ Cdx!Above(s, p)}
           bare == Cdx!Kept(t, keep)
           place == AuthPath(asked.auth)
           v == Cdx!Secrets[asked.auth]
<1>1. Cdx!WithAuth(t, asked) = Put(bare, place, v)
  BY CodexTrees DEF Cdx!WithAuth, AuthPath
<1>2. /\ \A p : p \in DOMAIN bare <=> p \in DOMAIN t /\ \A a \in Cdx!Auth : ~ Above(Cdx!Sources[a], p)
      /\ \A p \in DOMAIN bare : bare[p] = t[p]
  BY CodexTrees DEF Kept
<1> HIDE DEF bare, place, v
<1>3. place \in Paths
  BY AuthPathIs DEF place
<1> QED BY <1>1, <1>2, <1>3, PutIs DEF place

LEMMA WithAuthKeeps ==
    ASSUME NEW t, DOMAIN t \subseteq Paths, NEW asked, asked.auth \in Cdx!Auth, NEW keys, "model_providers" \notin keys
    PROVE  DOMAIN Cdx!WithAuth(t, asked) \subseteq Paths /\ Agree(Cdx!WithAuth(t, asked), t, Headed(keys))
<1> DEFINE place == AuthPath(asked.auth)
<1>1. \A a \in Cdx!Auth : Cdx!Sources[a] \in Paths /\ Cdx!Sources[a] # <<>> /\ Cdx!Sources[a] \notin Headed(keys)
  BY SourcePaths DEF Headed
<1>2. place \in Paths /\ place # <<>> /\ place \notin Headed(keys)
  BY AuthPathIs, SourcePaths DEF Headed
<1> HIDE DEF place
<1>3. \A p \in Headed(keys) : /\ Apart(p, place) /\ p # place
                            /\ \A a \in Cdx!Auth : ~ Above(Cdx!Sources[a], p)
  BY <1>1, <1>2, HeadsApart DEF Apart
<1> QED BY <1>3, WithAuthIs DEF Agree, place

LEMMA TrustPathIs ==
    ASSUME NEW p \in Key
    PROVE  /\ Cdx!TrustPath(p) \in Paths /\ Cdx!TrustPath(p) # <<>> /\ Len(Cdx!TrustPath(p)) = 3
           /\ Cdx!TrustPath(p)[1] = "projects" /\ Cdx!TrustPath(p)[2] = p /\ Cdx!TrustPath(p)[3] = "trust_level"
BY KeyAssumption DEF Paths, Cdx!TrustPath

LEMMA TrustPathsApart ==
    ASSUME NEW p \in Key, NEW q \in Key, p # q
    PROVE  Apart(Cdx!TrustPath(p), Cdx!TrustPath(q)) /\ Cdx!TrustPath(p) # Cdx!TrustPath(q)
<1> DEFINE a == Cdx!TrustPath(p)
           b == Cdx!TrustPath(q)
<1>1. a \in Paths /\ b \in Paths /\ Len(a) = 3 /\ Len(b) = 3 /\ a[2] = p /\ b[2] = q
  BY TrustPathIs
<1> HIDE DEF a, b
<1>2. 2 \in 1 .. Len(a) /\ 2 \in 1 .. Len(b) /\ a[2] # b[2]
  BY <1>1
<1>3. Apart(a, b) /\ a # b
  BY <1>1, <1>2, ApartAt
<1> QED BY <1>3 DEF a, b

\* The levels of the projects over what was there, and with --yolo the current one.
LevelsCount(new, t, levels, asked) ==
    \A p \in Key :
        LET q == Cdx!TrustPath(p)
        IN  IF asked.yolo /\ p = "here" THEN Get(new, q) = "trusted"
            ELSE IF p \in DOMAIN levels THEN q \in DOMAIN new /\ new[q] = levels[p]
            ELSE (q \in DOMAIN new <=> q \in DOMAIN t) /\ (q \in DOMAIN t => new[q] = t[q])

LEMMA WithTrustIs ==
    ASSUME NEW t, DOMAIN t \subseteq Paths, NEW levels, DOMAIN levels \subseteq Key, NEW asked
    PROVE  LET new == Cdx!WithTrust(t, levels, asked)
           IN  /\ DOMAIN new \subseteq Paths
               /\ \A keys : "projects" \notin keys => Agree(new, t, Headed(keys))
               /\ LevelsCount(new, t, levels, asked)
<1> DEFINE o == [q \in {Cdx!TrustPath(p) : p \in DOMAIN levels} |-> levels[q[2]]]
           merged == Overlay(t, o)
           new == Cdx!WithTrust(t, levels, asked)
           here == Put(merged, Cdx!TrustPath("here"), "trusted")
<1>1. new = IF asked.yolo THEN here ELSE merged
  BY CodexTrees DEF Cdx!WithTrust
<1>2. /\ \A q : q \in DOMAIN o <=> \E p \in DOMAIN levels : q = Cdx!TrustPath(p)
      /\ \A p \in DOMAIN levels : o[Cdx!TrustPath(p)] = levels[p]
  BY TrustPathIs
<1>3. \A q \in DOMAIN o : q \in Paths /\ q # <<>> /\ q[1] = "projects"
  BY <1>2, TrustPathIs
<1> HIDE DEF o
<1>4. DOMAIN merged \subseteq Paths
  BY <1>3, TreesStayTrees
<1>5. \A keys : "projects" \notin keys => Agree(merged, t, Headed(keys))
  BY <1>3, OverlayElsewhere DEF Headed
<1>6. ASSUME NEW p \in Key
      PROVE  /\ p \in DOMAIN levels =>
                    Cdx!TrustPath(p) \in DOMAIN merged /\ merged[Cdx!TrustPath(p)] = levels[p]
             /\ p \notin DOMAIN levels =>
                   /\ Cdx!TrustPath(p) \in DOMAIN merged <=> Cdx!TrustPath(p) \in DOMAIN t
                   /\ Cdx!TrustPath(p) \in DOMAIN t => merged[Cdx!TrustPath(p)] = t[Cdx!TrustPath(p)]
  <2>1. CASE p \in DOMAIN levels
    BY <1>2, <2>1, OverlayIs
  <2>2. CASE p \notin DOMAIN levels
    <3>1. \A q \in DOMAIN o : Apart(Cdx!TrustPath(p), q) /\ Cdx!TrustPath(p) # q
      BY <1>2, <2>2, TrustPathsApart
    <3> QED BY <2>2, <3>1, OverlayIs
  <2> QED BY <2>1, <2>2
<1> HIDE DEF merged
<1>7. Cdx!TrustPath("here") \in Paths /\ Cdx!TrustPath("here") # <<>> /\ Cdx!TrustPath("here")[1] = "projects"
      /\ "here" \in Key
  BY KeyAssumption, TrustPathIs
<1>8. DOMAIN here \subseteq Paths
  BY <1>4, <1>7, TreesStayTrees
<1>9. \A keys : "projects" \notin keys => Agree(here, merged, Headed(keys))
  BY <1>4, <1>7, StepKeeps
<1>10. Cdx!TrustPath("here") \in DOMAIN here /\ here[Cdx!TrustPath("here")] = "trusted"
  BY PutIs
<1>11. ASSUME NEW p \in Key, p # "here"
       PROVE  /\ Cdx!TrustPath(p) \in DOMAIN here <=> Cdx!TrustPath(p) \in DOMAIN merged
              /\ Cdx!TrustPath(p) \in DOMAIN merged => here[Cdx!TrustPath(p)] = merged[Cdx!TrustPath(p)]
  BY <1>7, <1>11, TrustPathsApart, PutIs
<1> HIDE DEF here
<1>12. \A keys : "projects" \notin keys => Agree(new, t, Headed(keys))
  BY <1>1, <1>5, <1>9, AgreeTrans
<1>13. DOMAIN new \subseteq Paths
  BY <1>1, <1>4, <1>8
<1> HIDE DEF Cdx!TrustPath
<1>14. CASE asked.yolo
  <2>1. new = here
    BY <1>1, <1>14
  <2>2. Get(new, Cdx!TrustPath("here")) = "trusted"
    BY <1>10, <2>1 DEF Get
  <2> HIDE DEF new
  <2>3. LevelsCount(new, t, levels, asked)
    BY <1>6, <1>11, <1>14, <2>1, <2>2 DEF LevelsCount
  <2> QED BY <1>12, <1>13, <2>3 DEF new
<1>15. CASE ~ asked.yolo
  <2>1. new = merged
    BY <1>1, <1>15
  <2> HIDE DEF new
  <2>2. LevelsCount(new, t, levels, asked)
    BY <1>6, <1>15, <2>1 DEF LevelsCount
  <2> QED BY <1>12, <1>13, <2>2 DEF new
<1> QED BY <1>14, <1>15

IsServer(s) == s.name \in Key /\ \A q \in DOMAIN s.leaves : q \in Paths /\ s.leaves[q] # None
Servers(table, n) == {p \in Paths : Len(p) >= 2 /\ p[1] = table /\ p[2] = n}

\* A path below the name of a server.
LEMMA ServerPath ==
    ASSUME NEW n \in Key, NEW q \in Paths
    PROVE  <<"mcp_servers", n>> \in Paths /\ <<"mcp_servers", n>> \o q \in Servers("mcp_servers", n)
<1> DEFINE a == <<"mcp_servers", n>>
<1>1. a \in Seq(Key) /\ q \in Seq(Key) /\ Len(a) = 2 /\ a[1] = "mcp_servers" /\ a[2] = n /\ Len(q) \in Nat
  BY KeyAssumption DEF Paths
<1> HIDE DEF a
<1>2. /\ a \o q \in Seq(Key) /\ Len(a \o q) = Len(a) + Len(q)
      /\ \A i \in 1 .. Len(a) + Len(q) : (a \o q)[i] = IF i <= Len(a) THEN a[i] ELSE q[i - Len(a)]
  BY <1>1, ConcatProperties
<1>3. 1 \in 1 .. Len(a) + Len(q) /\ 2 \in 1 .. Len(a) + Len(q) /\ 1 <= Len(a) /\ 2 <= Len(a)
  BY <1>1
<1>4. (a \o q)[1] = "mcp_servers" /\ (a \o q)[2] = n /\ Len(a \o q) >= 2
  BY <1>1, <1>2, <1>3
<1> QED BY <1>1, <1>2, <1>4 DEF Servers, Paths, a

\* The servers of a launch go under their names, and nowhere else.
LEMMA WithServersKeeps ==
    ASSUME NEW t, DOMAIN t \subseteq Paths, NEW servers, \A s \in servers : IsServer(s)
    PROVE  LET new == Cdx!WithServers(t, servers)
           IN  /\ DOMAIN new \subseteq Paths
               /\ \A keys : "mcp_servers" \notin keys => Agree(new, t, Headed(keys))
               /\ \A n \in Key : (\A s \in servers : s.name # n) => Agree(new, t, Servers("mcp_servers", n))
<1> DEFINE Place(s) == <<"mcp_servers", s.name>>
           leaves == UNION {{Place(s) \o q : q \in DOMAIN s.leaves} : s \in servers}
           named(n) == CHOOSE s \in servers : s.name = n
           o == [p \in leaves |-> named(p[2]).leaves[SubSeq(p, 3, Len(p))]]
           keep == {p \in DOMAIN t : \A s \in servers : ~ Cdx!Above(Place(s), p)}
           bare == Cdx!Kept(t, keep)
           new == Cdx!WithServers(t, servers)
<1>1. new = Overlay(bare, o)
  BY CodexTrees DEF Cdx!WithServers
<1>2. \A p \in DOMAIN o : \E s \in servers : \E q \in DOMAIN s.leaves : p = Place(s) \o q
  OBVIOUS
<1>3. \A p \in DOMAIN o : p \in Paths /\ Len(p) >= 2 /\ p[1] = "mcp_servers" /\ \E s \in servers : p[2] = s.name
  <2> SUFFICES ASSUME NEW p \in DOMAIN o
               PROVE  p \in Paths /\ Len(p) >= 2 /\ p[1] = "mcp_servers" /\ \E s \in servers : p[2] = s.name
    OBVIOUS
  <2>1. PICK s \in servers : \E q \in DOMAIN s.leaves : p = Place(s) \o q
    BY <1>2
  <2>2. PICK q \in DOMAIN s.leaves : p = <<"mcp_servers", s.name>> \o q
    BY <2>1
  <2>3. s.name \in Key /\ q \in Paths
    BY DEF IsServer
  <2> HIDE DEF o
  <2>4. p \in Servers("mcp_servers", s.name)
    BY <2>2, <2>3, ServerPath
  <2> QED BY <2>4 DEF Servers
<1>4. /\ \A p : p \in DOMAIN bare <=> p \in DOMAIN t /\ \A s \in servers : ~ Above(Place(s), p)
      /\ \A p \in DOMAIN bare : bare[p] = t[p]
  BY CodexTrees DEF Kept
<1>5. \A s \in servers : Place(s) \in Paths /\ Len(Place(s)) = 2 /\ Place(s)[1] = "mcp_servers" /\ Place(s)[2] = s.name
  BY KeyAssumption DEF IsServer, Paths
<1> HIDE DEF o, bare, Place, new
<1>6. DOMAIN bare \subseteq Paths /\ DOMAIN o \subseteq Paths
  BY <1>3, <1>4
<1>7. DOMAIN new \subseteq Paths
  BY <1>1, <1>6, TreesStayTrees
<1>8. ASSUME NEW keys, "mcp_servers" \notin keys PROVE Agree(new, t, Headed(keys))
  <2>1. \A q \in DOMAIN o : q \in Paths /\ q # <<>> /\ q \notin Headed(keys)
    BY <1>3, <1>8 DEF Headed
  <2>2. Agree(new, bare, Headed(keys))
    BY <1>1, <2>1, OverlayElsewhere
  <2>3. \A s \in servers : Place(s) # <<>> /\ Place(s) \notin Headed(keys)
    BY <1>5, <1>8 DEF Headed
  <2>4. \A p \in Headed(keys) : \A s \in servers : ~ Above(Place(s), p)
    BY <1>5, <2>3, HeadsApart DEF Apart
  <2>5. Agree(bare, t, Headed(keys))
    BY <1>4, <2>4 DEF Agree
  <2> QED BY <2>2, <2>5, AgreeTrans
<1>9. ASSUME NEW n \in Key, \A s \in servers : s.name # n PROVE Agree(new, t, Servers("mcp_servers", n))
  <2>1. ASSUME NEW p \in Servers("mcp_servers", n), NEW q \in Paths, Len(q) >= 2, q[2] # n PROVE Apart(p, q) /\ Apart(q, p) /\ p # q
    <3>1. p \in Paths /\ Len(p) \in Nat /\ Len(q) \in Nat /\ 2 \in 1 .. Len(p) /\ 2 \in 1 .. Len(q) /\ p[2] # q[2]
      BY <2>1 DEF Servers, Paths
    <3> QED BY <3>1, ApartAt
  <2>2. \A p \in Servers("mcp_servers", n) : \A q \in DOMAIN o : Apart(p, q) /\ p # q
    BY <1>3, <1>9, <2>1
  <2>3. \A p \in Servers("mcp_servers", n) : \A s \in servers : ~ Above(Place(s), p)
    BY <1>5, <1>9, <2>1 DEF Apart
  <2>4. Agree(new, bare, Servers("mcp_servers", n))
    BY <1>1, <2>2, OverlayIs DEF Agree
  <2>5. Agree(bare, t, Servers("mcp_servers", n))
    BY <1>4, <2>3 DEF Agree
  <2> QED BY <2>4, <2>5, AgreeTrans
<1> QED BY <1>7, <1>8, <1>9 DEF new

(* The lane of a launch *)

LaneKeys == {"openai_base_url", "model_provider", "model_providers", "model_catalog_json"}

\* OwnLane for a tree.
Lane(tree, auth) ==
    /\ Get(tree, <<"model_provider">>) = "ai_fence"
    /\ Get(tree, Cdx!Provider \o <<"base_url">>) = "proxy"
    /\ Get(tree, Cdx!Provider \o <<"wire_api">>) = "responses"
    /\ ~ Has(tree, <<"openai_base_url">>)
    /\ \A a \in Cdx!Auth : Has(tree, Cdx!Sources[a]) <=> Cdx!Sources[a] = Cdx!Sources[auth]
    /\ auth = "OpenAiAuth" => ~ Has(tree, <<"model_catalog_json">>)

\* What is not at the paths of the lane does not matter to it.
LEMMA LaneStays ==
    ASSUME NEW t, NEW u, DOMAIN t \subseteq Paths, DOMAIN u \subseteq Paths,
           Agree(t, u, Headed(LaneKeys)), NEW auth, Lane(u, auth)
    PROVE  Lane(t, auth)
<1>1. /\ <<"model_provider">> \in Headed(LaneKeys) /\ <<"openai_base_url">> \in Headed(LaneKeys)
      /\ <<"model_catalog_json">> \in Headed(LaneKeys)
  BY KeyAssumption DEF Headed, Paths, LaneKeys
<1>2. \A x \in {"base_url", "wire_api"} : Cdx!Provider \o <<x>> \in Headed(LaneKeys)
  <2>1. \A x \in {"base_url", "wire_api"} : x \in Key
    BY KeyAssumption
  <2>2. \A x \in {"base_url", "wire_api"} : LET p == Cdx!Provider \o <<x>>
          IN  p \in Paths /\ Len(p) = 3 /\ p[1] = "model_providers"
    BY <2>1, ProviderPaths
  <2>3. "model_providers" \in LaneKeys
    BY DEF LaneKeys
  <2> HIDE DEF Cdx!Provider, LaneKeys
  <2> SUFFICES ASSUME NEW x \in {"base_url", "wire_api"} PROVE Cdx!Provider \o <<x>> \in Headed(LaneKeys)
    OBVIOUS
  <2> DEFINE p == Cdx!Provider \o <<x>>
  <2>4. p \in Paths /\ Len(p) = 3 /\ p[1] = "model_providers"
    BY <2>2
  <2> HIDE DEF p
  <2>5. p \in Headed(LaneKeys)
    BY <2>3, <2>4 DEF Headed
  <2> QED BY <2>5 DEF p
<1>3. \A a \in Cdx!Auth : Cdx!Sources[a] \in Headed(LaneKeys)
  BY SourcePaths DEF Headed, LaneKeys
<1>4. \A p \in Headed(LaneKeys) : (Has(t, p) <=> Has(u, p)) /\ Get(t, p) = Get(u, p)
  BY AgreeSees
<1> HIDE DEF LaneKeys
<1> QED BY <1>1, <1>2, <1>3, <1>4 DEF Lane

\* `configure_codex_proxy_provider` leaves nothing that leads elsewhere.
LEMMA WithProviderIs ==
    ASSUME NEW t, DOMAIN t \subseteq Paths
    PROVE  LET new == Cdx!WithProvider(t)
           IN  /\ Get(new, <<"model_provider">>) = "ai_fence"
               /\ Get(new, Cdx!Provider \o <<"base_url">>) = "proxy"
               /\ Get(new, Cdx!Provider \o <<"wire_api">>) = "responses"
               /\ ~ Has(new, <<"openai_base_url">>)
<1> DEFINE P(x) == Cdx!Provider \o <<x>>
           a == Drop(t, <<"openai_base_url">>)
           b == Put(a, <<"model_provider">>, "ai_fence")
           c == PutIfMissing(b, P("name"), "ours")
           d == Put(c, P("base_url"), "proxy")
           e == Put(d, P("wire_api"), "responses")
           f == PutIfMissing(e, P("supports_websockets"), "true")
           Names == {"name", "base_url", "wire_api", "supports_websockets"}
<1>1. Cdx!WithProvider(t) = f
  BY CodexTrees DEF Cdx!WithProvider
<1>2. /\ <<"openai_base_url">> \in Paths /\ <<"model_provider">> \in Paths
      /\ <<"openai_base_url">> # <<>> /\ <<"model_provider">> # <<>>
  BY KeyAssumption DEF Paths
<1>3. \A x \in Names : P(x) \in Paths /\ P(x) # <<>> /\ Len(P(x)) = 3 /\ P(x)[1] = "model_providers" /\ P(x)[3] = x
  <2>1. \A x \in Names : x \in Key
    BY KeyAssumption
  <2> QED BY <2>1, ProviderPaths
<1> HIDE DEF P
<1>4. \A x, y \in Names : x # y => Apart(P(x), P(y)) /\ P(x) # P(y)
  <2> SUFFICES ASSUME NEW x \in Names, NEW y \in Names, x # y PROVE Apart(P(x), P(y)) /\ P(x) # P(y)
    OBVIOUS
  <2>1. 3 \in 1 .. Len(P(x)) /\ 3 \in 1 .. Len(P(y)) /\ P(x)[3] # P(y)[3]
    BY <1>3
  <2> QED BY <1>3, <2>1, ApartAt
<1>5. ~ Has(a, <<"openai_base_url">>) /\ DOMAIN a \subseteq Paths
  BY DropIs DEF Has
<1> HIDE DEF a
<1> DEFINE Url == Headed({"openai_base_url"})
           Lead == Headed({"model_provider"})
<1>6. DOMAIN b \subseteq Paths /\ Agree(b, a, Url) /\ Get(b, <<"model_provider">>) = "ai_fence"
  <2>1. DOMAIN b \subseteq Paths /\ Agree(b, a, Url)
    BY <1>2, <1>5, StepKeeps
  <2>2. <<"model_provider">> \in DOMAIN b /\ b[<<"model_provider">>] = "ai_fence"
    BY PutIs
  <2> QED BY <2>1, <2>2 DEF Get
<1> HIDE DEF b
<1>7. DOMAIN c \subseteq Paths /\ Agree(c, b, Url) /\ Agree(c, b, Lead)
  BY <1>3, <1>6, StepKeeps
<1> HIDE DEF c
<1>8. DOMAIN d \subseteq Paths /\ Agree(d, c, Url) /\ Agree(d, c, Lead)
  BY <1>3, <1>7, StepKeeps
<1>9. P("base_url") \in DOMAIN d /\ d[P("base_url")] = "proxy"
  BY PutIs
<1> HIDE DEF d
<1>10. DOMAIN e \subseteq Paths /\ Agree(e, d, Url) /\ Agree(e, d, Lead)
  BY <1>3, <1>8, StepKeeps
<1>11. /\ P("base_url") \in DOMAIN e /\ e[P("base_url")] = "proxy"
       /\ P("wire_api") \in DOMAIN e /\ e[P("wire_api")] = "responses"
  BY <1>4, <1>9, PutIs
<1> HIDE DEF e
<1>12. DOMAIN f \subseteq Paths /\ Agree(f, e, Url) /\ Agree(f, e, Lead)
  BY <1>3, <1>10, StepKeeps
<1>13. /\ P("base_url") \in DOMAIN f /\ f[P("base_url")] = "proxy"
       /\ P("wire_api") \in DOMAIN f /\ f[P("wire_api")] = "responses"
  <2>1. f = e \/ f = Put(e, P("supports_websockets"), "true")
    BY DEF PutIfMissing
  <2> HIDE DEF f
  <2> QED BY <1>4, <1>11, <2>1, PutIs
<1> HIDE DEF f
<1>14. Agree(f, a, Url) /\ Agree(f, b, Lead)
  BY <1>6, <1>7, <1>8, <1>10, <1>12, AgreeTrans
<1>15. <<"openai_base_url">> \in Url /\ <<"model_provider">> \in Lead
  BY <1>2 DEF Headed
<1>16. ~ Has(f, <<"openai_base_url">>) /\ Get(f, <<"model_provider">>) = "ai_fence"
  BY <1>5, <1>6, <1>12, <1>14, <1>15, AgreeSees
<1>17. Get(f, P("base_url")) = "proxy" /\ Get(f, P("wire_api")) = "responses"
  BY <1>13 DEF Get
<1> QED BY <1>1, <1>16, <1>17 DEF P

\* The first three steps of a configuration make the lane of the launch.
LEMMA LaneIsMade ==
    ASSUME NEW t, DOMAIN t \subseteq Paths, NEW asked, asked.auth \in Cdx!Auth
    PROVE  LET new == Cdx!WithAuth(Cdx!WithProvider(Cdx!WithCatalog(t, asked)), asked)
           IN  DOMAIN new \subseteq Paths /\ Lane(new, asked.auth)
<1> DEFINE P(x) == Cdx!Provider \o <<x>>
           c == Cdx!WithCatalog(t, asked)
           w == Cdx!WithProvider(c)
           new == Cdx!WithAuth(w, asked)
           place == AuthPath(asked.auth)
<1>1. DOMAIN c \subseteq Paths /\ (asked.auth = "OpenAiAuth" => ~ Has(c, <<"model_catalog_json">>))
  <2>1. asked.auth = "OpenAiAuth" => c = Drop(t, <<"model_catalog_json">>)
    BY CodexTrees DEF Cdx!WithCatalog
  <2>2. ~ Has(Drop(t, <<"model_catalog_json">>), <<"model_catalog_json">>)
    BY DropIs DEF Has
  <2>3. DOMAIN c \subseteq Paths
    <3>1. "model_catalog_json" \notin {}
      OBVIOUS
    <3> QED BY <3>1, WithCatalogKeeps
  <2> QED BY <2>1, <2>2, <2>3
<1> HIDE DEF c
<1> DEFINE Listing == Headed({"model_catalog_json"})
<1>2. DOMAIN w \subseteq Paths /\ Agree(w, c, Listing)
  <2>1. {"model_catalog_json"} \cap {"openai_base_url", "model_provider", "model_providers"} = {}
    OBVIOUS
  <2> QED BY <1>1, <2>1, WithProviderKeeps
<1>3. /\ Get(w, <<"model_provider">>) = "ai_fence"
      /\ Get(w, P("base_url")) = "proxy" /\ Get(w, P("wire_api")) = "responses"
      /\ ~ Has(w, <<"openai_base_url">>)
  BY <1>1, WithProviderIs
<1> HIDE DEF w, P
<1> DEFINE Rest == {"model_catalog_json", "openai_base_url", "model_provider"}
<1>4. DOMAIN new \subseteq Paths /\ Agree(new, w, Listing) /\ Agree(new, w, Headed(Rest))
  <2>1. "model_providers" \notin {"model_catalog_json"} /\ "model_providers" \notin Rest
    OBVIOUS
  <2> HIDE DEF Rest
  <2> QED BY <1>2, <2>1, WithAuthKeeps
<1>5. /\ <<"model_provider">> \in Headed(Rest) /\ <<"openai_base_url">> \in Headed(Rest)
      /\ <<"model_catalog_json">> \in Listing
  BY KeyAssumption DEF Headed, Paths
<1>6. Get(new, <<"model_provider">>) = "ai_fence" /\ ~ Has(new, <<"openai_base_url">>)
  <2> HIDE DEF Rest
  <2> QED BY <1>2, <1>3, <1>4, <1>5, AgreeSees
<1>7. asked.auth = "OpenAiAuth" => ~ Has(new, <<"model_catalog_json">>)
  <2>1. Agree(new, c, Listing)
    BY <1>2, <1>4, AgreeTrans
  <2> QED BY <1>1, <1>4, <1>5, <2>1, AgreeSees
<1>8. /\ \A p : p \in DOMAIN new <=>
            \/ p = place
            \/ /\ p \in DOMAIN w /\ Apart(p, place)
               /\ \A a \in Cdx!Auth : ~ Above(Cdx!Sources[a], p)
      /\ \A p \in DOMAIN new : p # place => new[p] = w[p]
  BY <1>2, WithAuthIs
<1>9. place \in Paths /\ Len(place) >= 3 /\ Len(place) \in Nat
      /\ \A i \in 1 .. 3 : place[i] = Cdx!Sources[asked.auth][i]
  BY AuthPathIs DEF Paths
<1> HIDE DEF place, new
<1>10. ASSUME NEW a \in Cdx!Auth
       PROVE  Has(new, Cdx!Sources[a]) <=> Cdx!Sources[a] = Cdx!Sources[asked.auth]
  <2>1. Cdx!Sources[a] \in Paths /\ Len(Cdx!Sources[a]) = 3
        /\ Cdx!Sources[asked.auth] \in Paths /\ Len(Cdx!Sources[asked.auth]) = 3
    BY SourcePaths
  <2>2. Above(Cdx!Sources[a], place) <=> \A i \in 1 .. 3 : Cdx!Sources[a][i] = place[i]
    <3> DEFINE s == Cdx!Sources[a]
    <3>1. s \in Paths /\ Len(s) = 3
      BY <2>1
    <3> HIDE DEF s
    <3>2. Above(s, place) <=> Len(s) <= Len(place) /\ \A i \in 1 .. Len(s) : s[i] = place[i]
      BY <1>9, <3>1, PrefixMeans
    <3>3. Above(s, place) <=> \A i \in 1 .. 3 : s[i] = place[i]
      BY <1>9, <3>1, <3>2
    <3> QED BY <3>3 DEF s
  <2>3. Cdx!Sources[a] = Cdx!Sources[asked.auth] <=> \A i \in 1 .. 3 : Cdx!Sources[a][i] = Cdx!Sources[asked.auth][i]
    BY <2>1, SeqEqual DEF Paths
  <2>4. Has(new, Cdx!Sources[a]) <=> Above(Cdx!Sources[a], place)
    BY <1>8 DEF Has
  <2> QED BY <1>9, <2>2, <2>3, <2>4
<1>11. ASSUME NEW x \in {"base_url", "wire_api"} PROVE Get(new, P(x)) = Get(w, P(x))
  <2>1. P(x) \in Paths /\ Len(P(x)) = 3 /\ P(x)[3] = x
    <3>1. x \in Key
      BY KeyAssumption
    <3> QED BY <3>1, ProviderPaths DEF P
  <2>2. \A a \in Cdx!Auth : Cdx!Sources[a][3] # x
    BY SourcePaths DEF Cdx!Auth
  <2>3. 3 \in 1 .. Len(P(x)) /\ 3 \in 1 .. Len(place) /\ P(x)[3] # place[3]
    BY <1>9, <2>1, <2>2
  <2>4. Apart(P(x), place) /\ P(x) # place
    BY <1>9, <2>1, <2>3, ApartAt
  <2>5. \A a \in Cdx!Auth : ~ Above(Cdx!Sources[a], P(x))
    <3> SUFFICES ASSUME NEW a \in Cdx!Auth PROVE ~ Above(Cdx!Sources[a], P(x))
      OBVIOUS
    <3>1. Cdx!Sources[a] \in Paths /\ 3 \in 1 .. Len(Cdx!Sources[a]) /\ 3 \in 1 .. Len(P(x))
          /\ P(x)[3] # Cdx!Sources[a][3]
      BY <2>1, <2>2, SourcePaths
    <3> QED BY <2>1, <3>1, ApartAt DEF Apart
  <2> QED BY <1>8, <2>4, <2>5 DEF Get
<1>12. Get(new, P("base_url")) = "proxy" /\ Get(new, P("wire_api")) = "responses"
  BY <1>3, <1>11
<1> QED BY <1>4, <1>6, <1>7, <1>10, <1>12 DEF Lane, P, new, w, c

\* What a launcher writes below a name.
LEMMA ServedUnder ==
    ASSUME NEW table, NEW n, NEW q \in Servers(table, n), NEW p \in Paths
    PROVE  Above(SubSeq(q, 1, 2), p) <=> p \in Servers(table, n)
<1> DEFINE s == SubSeq(q, 1, 2)
<1>1. q \in Seq(Key) /\ Len(q) \in Nat /\ Len(q) >= 2 /\ Len(p) \in Nat
  BY DEF Servers, Paths
<1>2. s \in Seq(Key) /\ Len(s) = 2 /\ s[1] = q[1] /\ s[2] = q[2]
  BY <1>1
<1> HIDE DEF s
<1>3. Above(s, p) <=> Len(s) <= Len(p) /\ \A i \in 1 .. Len(s) : s[i] = p[i]
  BY <1>2, PrefixMeans DEF Paths
<1>4. Above(s, p) <=> 2 <= Len(p) /\ s[1] = p[1] /\ s[2] = p[2]
  BY <1>1, <1>2, <1>3
<1>5. q[1] = table /\ q[2] = n
  BY DEF Servers
<1> QED BY <1>1, <1>2, <1>4, <1>5 DEF Servers, s

\* The overlay of a profile, by what it does at a path.
LEMMA OverlayProfileIs ==
    ASSUME NEW table, NEW t, NEW o, DOMAIN t \subseteq Paths, DOMAIN o \subseteq Paths
    PROVE  LET new == OverlayProfile(t, o, table)
           IN  /\ \A p : p \in DOMAIN new <=>
                     \/ p \in DOMAIN o
                     \/ /\ p \in DOMAIN t
                        /\ \A n : p \in Servers(table, n) => \A q \in DOMAIN o : q \notin Servers(table, n)
                        /\ \A q \in DOMAIN o : Apart(p, q)
               /\ \A p \in DOMAIN new : new[p] = IF p \in DOMAIN o THEN o[p] ELSE t[p]
<1> DEFINE replaced == {q \in DOMAIN o : Len(q) > 1 /\ Head(q) = table}
           bare == Kept(t, {p \in DOMAIN t : \A q \in replaced : ~ Above(SubSeq(q, 1, 2), p)})
           new == OverlayProfile(t, o, table)
<1>1. new = Overlay(bare, o)
  BY DEF OverlayProfile
<1>2. /\ \A p : p \in DOMAIN bare <=> p \in DOMAIN t /\ \A q \in replaced : ~ Above(SubSeq(q, 1, 2), p)
      /\ \A p \in DOMAIN bare : bare[p] = t[p]
  BY DEF Kept
<1>3. \A q \in DOMAIN o : q \in replaced <=> q \in Servers(table, q[2])
  <2> SUFFICES ASSUME NEW q \in DOMAIN o PROVE q \in replaced <=> q \in Servers(table, q[2])
    OBVIOUS
  <2>1. q \in Seq(Key) /\ Len(q) \in Nat
    BY DEF Paths
  <2>2. Len(q) > 1 => Head(q) = q[1]
    BY <2>1
  <2> QED BY <2>1, <2>2 DEF Servers, Paths
<1>4. ASSUME NEW q \in replaced, NEW p \in DOMAIN t
      PROVE  Above(SubSeq(q, 1, 2), p) <=> p \in Servers(table, q[2])
  BY <1>3, ServedUnder
<1>5. \A q, n : q \in Servers(table, n) => n = q[2]
  BY DEF Servers
<1> HIDE DEF replaced
<1>6. ASSUME NEW p \in DOMAIN t
      PROVE  (\A q \in replaced : ~ Above(SubSeq(q, 1, 2), p))
                <=> \A n : p \in Servers(table, n) => \A q \in DOMAIN o : q \notin Servers(table, n)
  <2>1. \A q \in replaced : q \in DOMAIN o
    BY DEF replaced
  <2> QED BY <1>3, <1>4, <1>5, <2>1
<1> HIDE DEF bare, new
<1> QED BY <1>1, <1>2, <1>6, OverlayIs DEF new

\* A tree of the user: no value at the root, and none that is None.
Tree(t) == DOMAIN t \subseteq Paths /\ <<>> \notin DOMAIN t /\ \A p \in DOMAIN t : t[p] # None

\* The servers that a profile names are those of the profile.
ServersFollow(new, o) ==
    \A n : \A q \in DOMAIN o : q \in Servers("mcp_servers", n) =>
        \A p \in Servers("mcp_servers", n) : p \in DOMAIN new <=> p \in DOMAIN o

LEMMA WrittenIs ==
    ASSUME Tree(template), NEW o, Tree(o), NEW asked, asked.profile = TRUE
    PROVE  LET new == Cdx!Written(asked, o)
           IN  /\ Tree(new) /\ ServersFollow(new, o)
               /\ \A p \in DOMAIN o : p[1] # "sqlite_home" => p \in DOMAIN new /\ new[p] = o[p]
<1> DEFINE over == OverlayProfile(template, o, "mcp_servers")
           bare == Drop(over, <<"sqlite_home">>)
           new == Cdx!Written(asked, o)
<1>1. new = bare
  BY CodexTrees DEF Cdx!Written
<1>2. /\ \A p : p \in DOMAIN over <=>
            \/ p \in DOMAIN o
            \/ /\ p \in DOMAIN template
               /\ \A n : p \in Servers("mcp_servers", n) => \A q \in DOMAIN o : q \notin Servers("mcp_servers", n)
               /\ \A q \in DOMAIN o : Apart(p, q)
      /\ \A p \in DOMAIN over : over[p] = IF p \in DOMAIN o THEN o[p] ELSE template[p]
  BY OverlayProfileIs DEF Tree
<1>3. Tree(over)
  BY <1>2 DEF Tree
<1> HIDE DEF over
<1>4. /\ \A q : q \in DOMAIN bare <=> q \in DOMAIN over /\ ~ Above(<<"sqlite_home">>, q)
      /\ \A q \in DOMAIN bare : bare[q] = over[q]
  BY DropIs
<1>5. \A p \in Paths : Above(<<"sqlite_home">>, p) => p[1] = "sqlite_home"
  <2>1. <<"sqlite_home">> \in Paths /\ Len(<<"sqlite_home">>) = 1 /\ <<"sqlite_home">>[1] = "sqlite_home"
    BY KeyAssumption DEF Paths
  <2> DEFINE h == <<"sqlite_home">>
  <2> HIDE DEF h
  <2>2. h \in Paths /\ Len(h) = 1 /\ h[1] = "sqlite_home"
    BY <2>1 DEF h
  <2>3. \A p \in Paths : Above(h, p) => p[1] = "sqlite_home"
    BY <2>2, PrefixMeans
  <2> QED BY <2>3 DEF h
<1> HIDE DEF bare, new
<1>6. Tree(bare)
  BY <1>3, <1>4 DEF Tree
<1>7. \A p \in DOMAIN o : p[1] # "sqlite_home" => p \in DOMAIN bare /\ bare[p] = o[p]
  BY <1>2, <1>4, <1>5 DEF Tree
<1>8. ASSUME NEW n, NEW q \in DOMAIN o, q \in Servers("mcp_servers", n), NEW p \in Servers("mcp_servers", n)
      PROVE  p \in DOMAIN bare <=> p \in DOMAIN o
  <2>1. p \in Paths /\ p[1] # "sqlite_home"
    BY <1>8 DEF Servers
  <2> QED BY <1>2, <1>4, <1>5, <1>8, <2>1
<1>9. ServersFollow(bare, o)
  BY <1>8 DEF ServersFollow
<1> QED BY <1>1, <1>6, <1>7, <1>9 DEF new

LEMMA WrittenIsATree ==
    ASSUME Tree(template), NEW o, Tree(o), NEW asked, asked.profile \in BOOLEAN
    PROVE  Tree(Cdx!Written(asked, o))
<1>1. asked.profile = TRUE => Tree(Cdx!Written(asked, o))
  BY WrittenIs
<1>2. asked.profile = FALSE => Cdx!Written(asked, o) = template
  BY DEF Cdx!Written
<1> QED BY <1>1, <1>2

\* At first keys that are not those of servers, what profiles agree on counts the same.
LEMMA WrittenAgrees ==
    ASSUME Tree(template), NEW o, Tree(o), NEW u, Tree(u), NEW a, NEW b, a.profile = TRUE, b.profile = TRUE,
           NEW keys, "mcp_servers" \notin keys, Agree(o, u, Headed(keys))
    PROVE  Agree(Cdx!Written(a, o), Cdx!Written(b, u), Headed(keys))
<1> DEFINE Over(x) == OverlayProfile(template, x, "mcp_servers")
           Bare(x) == Drop(Over(x), <<"sqlite_home">>)
<1>1. Cdx!Written(a, o) = Bare(o) /\ Cdx!Written(b, u) = Bare(u)
  BY CodexTrees DEF Cdx!Written
<1>2. \A x : Tree(x) =>
      /\ \A p : p \in DOMAIN Over(x) <=>
            \/ p \in DOMAIN x
            \/ /\ p \in DOMAIN template
               /\ \A n : p \in Servers("mcp_servers", n) => \A q \in DOMAIN x : q \notin Servers("mcp_servers", n)
               /\ \A q \in DOMAIN x : Apart(p, q)
      /\ \A p \in DOMAIN Over(x) : Over(x)[p] = IF p \in DOMAIN x THEN x[p] ELSE template[p]
  BY OverlayProfileIs DEF Tree
<1>3. \A p \in Headed(keys) : \A n : p \notin Servers("mcp_servers", n)
  BY DEF Headed, Servers
<1>4. \A p \in Headed(keys) : \A x : Tree(x) =>
         ((\A q \in DOMAIN x : Apart(p, q)) <=> \A q \in DOMAIN x \cap Headed(keys) : Apart(p, q))
  BY HeadsApart DEF Tree
<1> HIDE DEF Over
<1>5. DOMAIN o \cap Headed(keys) = DOMAIN u \cap Headed(keys)
  BY DEF Agree
<1>6. Agree(Over(o), Over(u), Headed(keys))
  BY <1>2, <1>3, <1>4, <1>5 DEF Agree
<1>7. \A x : /\ \A q : q \in DOMAIN Bare(x) <=> q \in DOMAIN Over(x) /\ ~ Above(<<"sqlite_home">>, q)
             /\ \A q \in DOMAIN Bare(x) : Bare(x)[q] = Over(x)[q]
  BY DropIs
<1> HIDE DEF Bare
<1>8. Agree(Bare(o), Bare(u), Headed(keys))
  BY <1>6, <1>7 DEF Agree
<1> QED BY <1>1, <1>8

\* The steps from what the user wrote and chose to the whole configuration.
Ended(t, asked, levels) ==
    Cdx!WithServers(
        Cdx!WithTrust(Cdx!WithAuth(Cdx!WithProvider(Cdx!WithCatalog(t, asked)), asked), levels, asked),
        asked.servers)

LEMMA EndedIs ==
    ASSUME NEW t, DOMAIN t \subseteq Paths, NEW asked, asked.auth \in Cdx!Auth,
           \A s \in asked.servers : IsServer(s), NEW levels, DOMAIN levels \subseteq Key
    PROVE  LET new == Ended(t, asked, levels)
           IN  /\ DOMAIN new \subseteq Paths /\ Lane(new, asked.auth)
               /\ Agree(new, t, Headed({"model", "model_reasoning_effort"}))
               /\ \A n \in Key : (\A s \in asked.servers : s.name # n) => Agree(new, t, Servers("mcp_servers", n))
               /\ LevelsCount(new, t, levels, asked)
<1> DEFINE a == Cdx!WithCatalog(t, asked)
           b == Cdx!WithProvider(a)
           c == Cdx!WithAuth(b, asked)
           d == Cdx!WithTrust(c, levels, asked)
           new == Cdx!WithServers(d, asked.servers)
           Picked == {"model", "model_reasoning_effort"}
           Keep == {"model", "model_reasoning_effort", "mcp_servers", "projects"}
<1>1. /\ "model_catalog_json" \notin Keep /\ "model_providers" \notin Keep
      /\ Keep \cap {"openai_base_url", "model_provider", "model_providers"} = {}
  OBVIOUS
<1>2. /\ Picked \subseteq Keep /\ {"mcp_servers"} \subseteq Keep /\ {"projects"} \subseteq Keep
      /\ "projects" \notin Picked /\ "projects" \notin {"mcp_servers"} /\ "projects" \notin LaneKeys
      /\ "mcp_servers" \notin Picked /\ "mcp_servers" \notin {"projects"} /\ "mcp_servers" \notin LaneKeys
  BY DEF LaneKeys
<1> HIDE DEF Keep, Picked
<1>3. DOMAIN a \subseteq Paths /\ Agree(a, t, Headed(Keep))
  BY <1>1, WithCatalogKeeps
<1>4. DOMAIN c \subseteq Paths /\ Lane(c, asked.auth)
  BY LaneIsMade
<1> HIDE DEF a
<1>5. DOMAIN b \subseteq Paths /\ Agree(b, a, Headed(Keep))
  BY <1>1, <1>3, WithProviderKeeps
<1> HIDE DEF b
<1>6. Agree(c, b, Headed(Keep))
  BY <1>1, <1>5, WithAuthKeeps
<1> HIDE DEF c
<1>7. Agree(c, t, Headed(Keep))
  BY <1>3, <1>5, <1>6, AgreeTrans
<1>8. /\ DOMAIN d \subseteq Paths
      /\ \A keys : "projects" \notin keys => Agree(d, c, Headed(keys))
      /\ LevelsCount(d, c, levels, asked)
  BY <1>4, WithTrustIs
<1> HIDE DEF d
<1>9. /\ DOMAIN new \subseteq Paths
      /\ \A keys : "mcp_servers" \notin keys => Agree(new, d, Headed(keys))
      /\ \A n \in Key : (\A s \in asked.servers : s.name # n) => Agree(new, d, Servers("mcp_servers", n))
  BY <1>8, WithServersKeeps
<1> HIDE DEF new
<1>10. \A keys : keys \subseteq Keep => Agree(c, t, Headed(keys))
  BY <1>7 DEF Agree, Headed
<1>11. Lane(new, asked.auth)
  <2>1. Agree(new, c, Headed(LaneKeys))
    BY <1>2, <1>8, <1>9, AgreeTrans
  <2> QED BY <1>4, <1>9, <2>1, LaneStays
<1>12. Agree(new, t, Headed(Picked))
  BY <1>2, <1>8, <1>9, <1>10, AgreeTrans
<1>13. ASSUME NEW n \in Key, \A s \in asked.servers : s.name # n PROVE Agree(new, t, Servers("mcp_servers", n))
  <2>1. Agree(d, t, Headed({"mcp_servers"}))
    BY <1>2, <1>8, <1>10, AgreeTrans
  <2>2. Agree(d, t, Servers("mcp_servers", n))
    BY <2>1 DEF Agree, Headed, Servers, Paths
  <2> QED BY <1>9, <1>13, <2>2, AgreeTrans
<1>14. ASSUME NEW p \in Key
       PROVE  LET q == Cdx!TrustPath(p)
              IN  /\ q \in DOMAIN new <=> q \in DOMAIN d
                  /\ q \in DOMAIN d => new[q] = d[q]
                  /\ q \in DOMAIN c <=> q \in DOMAIN t
                  /\ q \in DOMAIN t => c[q] = t[q]
  <2>1. Cdx!TrustPath(p) \in Headed({"projects"})
    BY TrustPathIs DEF Headed
  <2>2. Agree(new, d, Headed({"projects"})) /\ Agree(c, t, Headed({"projects"}))
    BY <1>2, <1>9, <1>10
  <2> HIDE DEF Cdx!TrustPath
  <2> QED BY <2>1, <2>2 DEF Agree
<1>15. Ended(t, asked, levels) = new
  BY DEF Ended, new, d, c, b, a
<1>16. LevelsCount(new, t, levels, asked)
  <2> HIDE DEF Cdx!TrustPath
  <2> QED BY <1>8, <1>14 DEF LevelsCount, Get
<1> QED BY <1>9, <1>11, <1>12, <1>13, <1>15, <1>16 DEF Picked

LEMMA Behind ==
    ASSUME NEW a \in Paths, NEW q \in Paths PROVE SubSeq(a \o q, Len(a) + 1, Len(a \o q)) = q
<1> DEFINE s == a \o q
           b == SubSeq(s, Len(a) + 1, Len(s))
<1>1. a \in Seq(Key) /\ q \in Seq(Key) /\ Len(a) \in Nat /\ Len(q) \in Nat
  BY DEF Paths
<1>2. /\ s \in Seq(Key) /\ Len(s) = Len(a) + Len(q)
      /\ \A i \in 1 .. Len(a) + Len(q) : s[i] = IF i <= Len(a) THEN a[i] ELSE q[i - Len(a)]
  BY <1>1, ConcatProperties
<1> HIDE DEF s
<1>3. b \in Seq(Key) /\ Len(b) = Len(q) /\ \A i \in 1 .. Len(q) : b[i] = s[Len(a) + i]
  BY <1>1, <1>2
<1> HIDE DEF b
<1>4. \A i \in 1 .. Len(q) : b[i] = q[i]
  <2> SUFFICES ASSUME NEW i \in 1 .. Len(q) PROVE b[i] = q[i]
    OBVIOUS
  <2>1. Len(a) + i \in 1 .. Len(a) + Len(q) /\ ~ (Len(a) + i <= Len(a)) /\ (Len(a) + i) - Len(a) = i
    BY <1>1
  <2> QED BY <1>2, <1>3, <2>1
<1>5. b = q
  BY <1>1, <1>3, <1>4, SeqEqual
<1> QED BY <1>5 DEF b, s

\* What is put below a path: these leaves, and of the others those apart.
IsPutAt(new, t, a, leaves) ==
    /\ \A p : p \in DOMAIN new <=>
          \/ \E q \in DOMAIN leaves : p = a \o q
          \/ p \in DOMAIN t /\ ~ Above(a, p) /\ \A q \in DOMAIN leaves : Apart(p, a \o q)
    /\ \A q \in DOMAIN leaves : new[a \o q] = leaves[q]
    /\ \A p \in DOMAIN new : (\A q \in DOMAIN leaves : p # a \o q) => new[p] = t[p]

LEMMA PutAtIs ==
    ASSUME NEW t, NEW a \in Paths, NEW leaves, DOMAIN leaves \subseteq Paths
    PROVE  IsPutAt(PutAt(t, a, leaves), t, a, leaves)
<1> DEFINE o == [p \in {a \o q : q \in DOMAIN leaves} |-> leaves[SubSeq(p, Len(a) + 1, Len(p))]]
           new == PutAt(t, a, leaves)
           bare == Drop(t, a)
<1>1. new = Overlay(bare, o)
  BY DEF PutAt
<1>2. /\ \A p : p \in DOMAIN o <=> \E q \in DOMAIN leaves : p = a \o q
      /\ \A q \in DOMAIN leaves : o[a \o q] = leaves[q]
  BY Behind
<1> HIDE DEF o
<1>3. /\ \A p : p \in DOMAIN bare <=> p \in DOMAIN t /\ ~ Above(a, p)
      /\ \A p \in DOMAIN bare : bare[p] = t[p]
  BY DropIs
<1> HIDE DEF bare, new
<1>4. /\ \A p : p \in DOMAIN new <=>
            p \in DOMAIN o \/ (p \in DOMAIN bare /\ \A q \in DOMAIN o : Apart(p, q))
      /\ \A p \in DOMAIN new : new[p] = IF p \in DOMAIN o THEN o[p] ELSE bare[p]
  BY <1>1, OverlayIs
<1>5. \A p : p \in DOMAIN new <=>
                     \/ \E q \in DOMAIN leaves : p = a \o q
                     \/ p \in DOMAIN t /\ ~ Above(a, p) /\ \A q \in DOMAIN leaves : Apart(p, a \o q)
  BY <1>2, <1>3, <1>4
<1>6. \A q \in DOMAIN leaves : new[a \o q] = leaves[q]
  BY <1>2, <1>4
<1>7. \A p \in DOMAIN new : (\A q \in DOMAIN leaves : p # a \o q) => new[p] = t[p]
  BY <1>2, <1>3, <1>4
<1> QED BY <1>5, <1>6, <1>7 DEF new, IsPutAt

\* What a launch begins with.
LEMMA ChosenIs ==
    ASSUME Tree(template), NEW o, Tree(o), NEW asked, asked.profile \in BOOLEAN
    PROVE  LET new == Cdx!Chosen(asked, o)
               old == Cdx!Written(asked, o)
           IN  /\ DOMAIN new \subseteq Paths
               /\ Agree(new, old, Headed({"model_reasoning_effort", "mcp_servers", "projects"}))
               /\ <<"model">> \in DOMAIN new => new[<<"model">>] # None
               /\ asked.explicit # None => Get(new, <<"model">>) = asked.explicit
               /\ asked.explicit = None /\ <<"model">> \in DOMAIN old =>
                     <<"model">> \in DOMAIN new /\ new[<<"model">>] = old[<<"model">>]
<1> DEFINE old == Cdx!Written(asked, o)
           basic == Cdx!Basics(old)
           new == Cdx!WithModel(basic, asked)
           Keep == {"model_reasoning_effort", "mcp_servers", "projects"}
           m == <<"model">>
<1>1. Cdx!Chosen(asked, o) = new
  BY DEF Cdx!Chosen
<1>2. Tree(old)
  BY WrittenIsATree
<1> HIDE DEF old
<1>3. /\ Keep \cap {"cli_auth_credentials_store", "preferred_auth_method", "features"} = {}
      /\ {"model"} \cap {"cli_auth_credentials_store", "preferred_auth_method", "features"} = {}
      /\ "model" \notin Keep
  OBVIOUS
<1> HIDE DEF Keep
<1>4. DOMAIN basic \subseteq Paths /\ Agree(basic, old, Headed(Keep)) /\ Agree(basic, old, Headed({"model"}))
  BY <1>2, <1>3, BasicsKeep DEF Tree
<1> HIDE DEF basic
<1>5. DOMAIN new \subseteq Paths /\ Agree(new, basic, Headed(Keep))
  BY <1>3, <1>4, WithModelKeeps
<1>6. m \in Headed({"model"})
  BY KeyAssumption DEF Headed, Paths
<1>7. (m \in DOMAIN basic <=> m \in DOMAIN old) /\ (m \in DOMAIN basic => basic[m] = old[m])
  BY <1>4, <1>6 DEF Agree
<1>8. new = IF asked.explicit # None THEN Put(basic, m, asked.explicit)
            ELSE IF asked.default # None THEN PutIfMissing(basic, m, asked.default)
            ELSE basic
  BY CodexTrees DEF Cdx!WithModel
<1> HIDE DEF new, m
<1>9. \A v : m \in DOMAIN Put(basic, m, v) /\ Put(basic, m, v)[m] = v
  BY PutIs
<1>10. m \in DOMAIN old => old[m] # None
  BY <1>2 DEF Tree
<1>11. m \in DOMAIN basic => Has(basic, m)
  BY <1>6, PrefixMeans DEF Has, Headed
<1>12. CASE asked.explicit # None
  BY <1>1, <1>4, <1>5, <1>8, <1>9, <1>12, AgreeTrans DEF Get, m, Keep, old
<1>13. CASE asked.explicit = None
  <2>1. m \in DOMAIN old => m \in DOMAIN new /\ new[m] = old[m]
    BY <1>7, <1>8, <1>11, <1>13 DEF PutIfMissing
  <2>2. m \in DOMAIN new => new[m] # None
    BY <1>7, <1>8, <1>9, <1>10, <1>11, <1>13 DEF PutIfMissing
  <2> QED BY <1>1, <1>4, <1>5, <1>13, <2>1, <2>2, AgreeTrans DEF m, Keep, old
<1> QED BY <1>12, <1>13

LEMMA ConfigIs ==
    ASSUME NEW asked, NEW o, NEW levels
    PROVE  Cdx!CodexConfig(asked, o, levels) = Ended(Cdx!Chosen(asked, o), asked, levels)
BY DEF Cdx!CodexConfig, Ended

AskedCodex(a) ==
    /\ a.auth \in Cdx!Auth /\ a.profile \in BOOLEAN /\ \A s \in a.servers : IsServer(s)

LEMMA AsksAreAsked == \A a \in CodexAsk : AskedCodex(a)
BY CodexAssumption DEF AskedCodex, IsServer, Cdx!Auth, Paths

\* The generated catalogue lists the model of the launch.
LEMMA CatalogLists ==
    ASSUME NEW t, NEW asked \in CodexAsk, asked.explicit # None, Get(t, <<"model">>) = asked.explicit,
           Cdx!Catalog(t, asked) # <<>>
    PROVE  asked.explicit \in Cdx!Range(Cdx!Catalog(t, asked))
<1> DEFINE e == asked.explicit
           s == asked.offered
<1>1. s \in Seq(Key) /\ e \in Key
  BY CodexAssumption
<1>2. Cdx!Get(t, <<"model">>) = e
  BY CodexTrees
<1>3. Cdx!Catalog(t, asked) = IF e \in Cdx!Range(s) THEN s ELSE <<e>> \o s
  BY <1>2 DEF Cdx!Catalog
<1>4. (<<e>> \o s)[1] = e /\ Len(<<e>> \o s) >= 1
  <2>1. <<e>> \in Seq(Key) /\ Len(<<e>>) = 1 /\ <<e>>[1] = e /\ Len(s) \in Nat
    BY <1>1
  <2> DEFINE h == <<e>>
  <2> HIDE DEF h
  <2>2. h \in Seq(Key) /\ Len(h) = 1 /\ h[1] = e
    BY <2>1 DEF h
  <2>3. /\ Len(h \o s) = Len(h) + Len(s)
        /\ \A i \in 1 .. Len(h) + Len(s) : (h \o s)[i] = IF i <= Len(h) THEN h[i] ELSE s[i - Len(h)]
    BY <1>1, <2>2, ConcatProperties
  <2>4. (h \o s)[1] = e /\ Len(h \o s) >= 1
    BY <2>1, <2>2, <2>3
  <2> QED BY <2>4 DEF h
<1> HIDE DEF e, s
<1>5. <<e>> \o s \in Seq(Key)
  BY <1>1
<1>6. e \in Cdx!Range(<<e>> \o s)
  BY <1>4, <1>5 DEF Cdx!Range
<1> QED BY <1>3, <1>6 DEF e

Model == <<"model">>
Effort == <<"model_reasoning_effort">>

CodexType ==
    /\ Tree(template) /\ Tree(profile)
    /\ DOMAIN trust \subseteq Key /\ \A p \in DOMAIN trust : trust[p] \in Cdx!Level
    /\ DOMAIN home = {"config", "catalog", "trust"}
    /\ run # None =>
          /\ run \in CodexAsk /\ DOMAIN home.config \subseteq Paths
          /\ \A q \in {Model, Effort} : q \in DOMAIN home.config => home.config[q] # None

\* The agent of a run is in its lane.
CodexInLane ==
    run # None =>
        /\ Lane(home.config, run.auth)
        /\ run.explicit # None /\ home.catalog # <<>> => run.explicit \in Cdx!Range(home.catalog)

\* A level that is none comes from what the user wrote, and hides no answer.
CodexAnswers ==
    run # None /\ run.profile =>
        /\ home.trust = trust
        /\ \A p \in DOMAIN trust :
              Cdx!TrustPath(p) \in DOMAIN home.config /\ home.config[Cdx!TrustPath(p)] \in Cdx!Level
        /\ \A p \in Key :
              LET q == Cdx!TrustPath(p)
              IN  q \in DOMAIN home.config /\ home.config[q] \notin Cdx!Level =>
                     q \in DOMAIN Cdx!Written(run, profile) /\ Cdx!Written(run, profile)[q] = home.config[q]

\* A server of the profile is there as the profile has it, and alone.
CodexWhole ==
    run # None /\ run.profile =>
        \A n \in Key : \A q \in DOMAIN profile :
            q \in Servers("mcp_servers", n) /\ (\A s \in run.servers : s.name # n) =>
                \A p \in Servers("mcp_servers", n) : p \in DOMAIN home.config <=> p \in DOMAIN profile

CodexInv == CodexType /\ CodexInLane /\ CodexAnswers /\ CodexWhole

\* What the configuration of a launch is to all four of them.
LEMMA LaunchedIs ==
    ASSUME Tree(template), NEW o, Tree(o), NEW asked, AskedCodex(asked),
           NEW levels, DOMAIN levels \subseteq Key
    PROVE  LET new == Cdx!CodexConfig(asked, o, levels)
               old == Cdx!Written(asked, o)
           IN  /\ DOMAIN new \subseteq Paths /\ Lane(new, asked.auth)
               /\ \A q \in {Model, Effort} : q \in DOMAIN new => new[q] # None
               /\ asked.explicit = None /\ Model \in DOMAIN old => Get(new, Model) = old[Model]
               /\ Effort \in DOMAIN old => Get(new, Effort) = old[Effort]
               /\ \A n \in Key : (\A s \in asked.servers : s.name # n) => Agree(new, old, Servers("mcp_servers", n))
               /\ LevelsCount(new, old, levels, asked)
<1> DEFINE old == Cdx!Written(asked, o)
           mid == Cdx!Chosen(asked, o)
           new == Ended(mid, asked, levels)
           Keep == {"model_reasoning_effort", "mcp_servers", "projects"}
           Both == {"model", "model_reasoning_effort"}
<1>1. Tree(old)
  BY WrittenIsATree DEF AskedCodex
<1>2. /\ DOMAIN mid \subseteq Paths
      /\ Agree(mid, old, Headed(Keep))
      /\ Model \in DOMAIN mid => mid[Model] # None
      /\ asked.explicit = None /\ Model \in DOMAIN old => Model \in DOMAIN mid /\ mid[Model] = old[Model]
  BY ChosenIs DEF AskedCodex, Model
<1> HIDE DEF old, mid
<1>3. /\ DOMAIN new \subseteq Paths /\ Lane(new, asked.auth)
      /\ Agree(new, mid, Headed(Both))
      /\ \A n \in Key : (\A s \in asked.servers : s.name # n) => Agree(new, mid, Servers("mcp_servers", n))
      /\ LevelsCount(new, mid, levels, asked)
  BY <1>2, EndedIs DEF AskedCodex
<1> HIDE DEF new
<1>4. Model \in Headed(Both) /\ Effort \in Headed(Both) /\ Effort \in Headed(Keep)
  BY KeyAssumption DEF Headed, Paths, Model, Effort
<1>5. \A p \in Key : Cdx!TrustPath(p) \in Headed(Keep)
  BY TrustPathIs DEF Headed
<1>6. \A n : Servers("mcp_servers", n) \subseteq Headed(Keep)
  BY DEF Servers, Headed, Paths
<1> HIDE DEF Keep, Both
<1>7. \A q \in {Model, Effort} : q \in DOMAIN new => new[q] # None
  BY <1>1, <1>2, <1>3, <1>4 DEF Agree, Tree
<1>8. /\ asked.explicit = None /\ Model \in DOMAIN old => Get(new, Model) = old[Model]
      /\ Effort \in DOMAIN old => Get(new, Effort) = old[Effort]
  BY <1>2, <1>3, <1>4 DEF Agree, Get
<1>9. \A n \in Key : (\A s \in asked.servers : s.name # n) => Agree(new, old, Servers("mcp_servers", n))
  BY <1>2, <1>3, <1>6 DEF Agree
<1>10. LevelsCount(new, old, levels, asked)
  BY <1>2, <1>3, <1>5 DEF Agree, LevelsCount
<1>11. Cdx!CodexConfig(asked, o, levels) = new
  BY ConfigIs DEF new, mid
<1> QED BY <1>3, <1>7, <1>8, <1>9, <1>10, <1>11 DEF old

\* What the user may choose leaves all else alone.
LEMMA UsedIs ==
    ASSUME NEW t, DOMAIN t \subseteq Paths, NEW picks \in Picks
    PROVE  LET new == Overlay(t, picks)
           IN  /\ DOMAIN new \subseteq Paths
               /\ Agree(new, t, Headed(LaneKeys)) /\ Agree(new, t, Headed({"mcp_servers"}))
               /\ \A q \in {Model, Effort} : q \in DOMAIN new =>
                     new[q] # None \/ (q \in DOMAIN t /\ new[q] = t[q])
               /\ \A p \in Key :
                     /\ Cdx!TrustPath(p) \in DOMAIN t => Cdx!TrustPath(p) \in DOMAIN new
                     /\ Cdx!TrustPath(p) \in DOMAIN new =>
                           \/ new[Cdx!TrustPath(p)] \in Cdx!Level
                           \/ Cdx!TrustPath(p) \in DOMAIN t /\ new[Cdx!TrustPath(p)] = t[Cdx!TrustPath(p)]
<1> DEFINE new == Overlay(t, picks)
           Free == LaneKeys \cup {"mcp_servers"}
           Trusts == {Cdx!TrustPath(p) : p \in Project}
<1>1. /\ \A q \in DOMAIN picks : \/ q \in {Model, Effort} /\ picks[q] # None
                                 \/ q \in Trusts /\ picks[q] \in Cdx!Level
      /\ Project \subseteq Key
  BY CodexAssumption DEF Model, Effort, Cdx!TrustPath, Cdx!Level
<1>2. /\ Model \in Paths /\ Model # <<>> /\ Model[1] = "model"
      /\ Effort \in Paths /\ Effort # <<>> /\ Effort[1] = "model_reasoning_effort"
  BY KeyAssumption DEF Paths, Model, Effort
<1>3. \A q \in Trusts : q \in Paths /\ q # <<>> /\ q[1] = "projects"
  BY <1>1, TrustPathIs
<1>4. \A q \in DOMAIN picks : q \in Paths /\ q # <<>> /\ q[1] \notin Free
  BY <1>1, <1>2, <1>3 DEF LaneKeys
<1>5. DOMAIN new \subseteq Paths
  BY <1>4, TreesStayTrees
<1>6. \A q \in DOMAIN picks : q \notin Headed(LaneKeys) /\ q \notin Headed({"mcp_servers"})
  BY <1>4 DEF Headed
<1>7. Agree(new, t, Headed(LaneKeys)) /\ Agree(new, t, Headed({"mcp_servers"}))
  BY <1>4, <1>6, OverlayElsewhere
<1>8. /\ \A p : p \in DOMAIN new <=>
            p \in DOMAIN picks \/ (p \in DOMAIN t /\ \A q \in DOMAIN picks : Apart(p, q))
      /\ \A p \in DOMAIN new : new[p] = IF p \in DOMAIN picks THEN picks[p] ELSE t[p]
  BY OverlayIs
<1>9. Model \notin Trusts /\ Effort \notin Trusts
  BY <1>2, <1>3
<1>10. ASSUME NEW q \in {Model, Effort}, q \in DOMAIN new
       PROVE  new[q] # None \/ (q \in DOMAIN t /\ new[q] = t[q])
  BY <1>1, <1>8, <1>9, <1>10
<1>11. ASSUME NEW p \in Key
       PROVE  /\ Cdx!TrustPath(p) \in DOMAIN t => Cdx!TrustPath(p) \in DOMAIN new
              /\ Cdx!TrustPath(p) \in DOMAIN new =>
                    \/ new[Cdx!TrustPath(p)] \in Cdx!Level
                    \/ Cdx!TrustPath(p) \in DOMAIN t /\ new[Cdx!TrustPath(p)] = t[Cdx!TrustPath(p)]
  <2> DEFINE me == Cdx!TrustPath(p)
  <2>1. me \in Headed({"projects"}) /\ me # Model /\ me # Effort
    BY <1>2, TrustPathIs DEF Headed
  <2>2. Model \notin Headed({"projects"}) /\ Effort \notin Headed({"projects"})
    BY <1>2 DEF Headed
  <2>3. Apart(me, Model) /\ Apart(me, Effort)
    BY <1>2, <2>1, <2>2, HeadsApart
  <2>4. \A q \in Trusts : q # me => Apart(me, q)
    BY <1>1, TrustPathsApart
  <2> HIDE DEF me, new, Trusts
  <2>5. me \in DOMAIN t => me \in DOMAIN new
    BY <1>1, <1>8, <2>3, <2>4
  <2>6. me \in DOMAIN new => new[me] \in Cdx!Level \/ (me \in DOMAIN t /\ new[me] = t[me])
    BY <1>1, <1>8, <2>1
  <2> QED BY <2>5, <2>6 DEF me
<1> QED BY <1>5, <1>7, <1>10, <1>11

LEMMA PutIsATree ==
    ASSUME NEW t, Tree(t), NEW p \in Paths, p # <<>>, NEW v, v # None PROVE Tree(Put(t, p, v))
BY PutIs DEF Tree

IsSelection(new, t) ==
    /\ Tree(new) /\ DOMAIN new \subseteq {Model, Effort}
    /\ \A q \in {Model, Effort} : (q \in DOMAIN t /\ t[q] # None) => q \in DOMAIN new /\ new[q] = t[q]

LEMMA SelectionIs ==
    ASSUME NEW t PROVE IsSelection(Cdx!Selection(t), t)
<1>1. Model \in Paths /\ Model # <<>> /\ Effort \in Paths /\ Effort # <<>>
  BY KeyAssumption DEF Paths, Model, Effort
<1> QED BY <1>1, CodexTrees DEF Cdx!Selection, Get, Model, Effort, Tree, IsSelection

LEMMA SavedIsATree ==
    ASSUME Tree(profile) PROVE Tree(Cdx!SavedProfile)
<1>1. Cdx!SavedProfile = Overlay(profile, Cdx!Selection(home.config)) /\ Tree(Cdx!Selection(home.config))
  BY CodexTrees, SelectionIs DEF Cdx!SavedProfile, IsSelection
<1> QED BY <1>1, OverlayIs DEF Tree

\* The levels of all projects that were answered.
AnswersCount(new, t, copied) ==
    /\ DOMAIN new \subseteq Key /\ \A p \in DOMAIN new : new[p] \in Cdx!Level
    /\ \A p \in Key : Cdx!TrustPath(p) \in DOMAIN t =>
          IF t[Cdx!TrustPath(p)] \in Cdx!Level THEN p \in DOMAIN new /\ new[p] = t[Cdx!TrustPath(p)]
          ELSE p \notin DOMAIN copied => p \notin DOMAIN new

LEMMA TrustedIs ==
    ASSUME NEW t, DOMAIN t \subseteq Paths, NEW copied, DOMAIN copied \subseteq Key,
           \A p \in DOMAIN copied : copied[p] \in Cdx!Level
    PROVE  AnswersCount(Cdx!Trusted(t, copied), t, copied)
<1> DEFINE answered == {q \in DOMAIN t : /\ Len(q) = 3 /\ q[1] = "projects"
                                         /\ q[3] = "trust_level" /\ t[q] \in Cdx!Level}
           levels == [p \in {q[2] : q \in answered} |-> t[Cdx!TrustPath(p)]]
           new == Cdx!Trusted(t, copied)
<1>1. new = IF answered = {} THEN copied ELSE levels
  BY DEF Cdx!Trusted
<1>2. \A q \in answered : q[2] \in Key /\ q = Cdx!TrustPath(q[2])
  <2> SUFFICES ASSUME NEW q \in answered PROVE q[2] \in Key /\ q = Cdx!TrustPath(q[2])
    OBVIOUS
  <2>1. q \in Seq(Key) /\ Len(q) = 3 /\ q[1] = "projects" /\ q[3] = "trust_level"
    BY DEF Paths
  <2>2. q[2] \in Key
    <3>1. 2 \in 1 .. Len(q)
      BY <2>1
    <3> QED BY <2>1, <3>1, ElementOfSeq
  <2> DEFINE u == Cdx!TrustPath(q[2])
  <2>3. u \in Seq(Key) /\ Len(u) = 3 /\ u[1] = "projects" /\ u[2] = q[2] /\ u[3] = "trust_level"
    BY <2>2, TrustPathIs DEF Paths
  <2> HIDE DEF u
  <2>4. \A i \in 1 .. 3 : u[i] = q[i]
    BY <2>1, <2>3
  <2>5. u = q
    BY <2>1, <2>3, <2>4, SeqEqual
  <2> QED BY <2>2, <2>5 DEF u
<1>3. \A p \in Key : Cdx!TrustPath(p) \in DOMAIN t /\ t[Cdx!TrustPath(p)] \in Cdx!Level =>
          Cdx!TrustPath(p) \in answered /\ Cdx!TrustPath(p)[2] = p
  BY TrustPathIs
<1>4. \A q \in answered : q \in DOMAIN t /\ t[q] \in Cdx!Level
  OBVIOUS
<1>5. /\ \A p : p \in DOMAIN levels <=> \E q \in answered : p = q[2]
      /\ \A p \in DOMAIN levels : levels[p] = t[Cdx!TrustPath(p)]
  OBVIOUS
<1> HIDE DEF answered, levels, new
<1>6. \A p \in DOMAIN levels : p \in Key /\ levels[p] \in Cdx!Level
  BY <1>2, <1>4, <1>5
<1>7. ASSUME NEW p \in Key, Cdx!TrustPath(p) \in DOMAIN t, t[Cdx!TrustPath(p)] \in Cdx!Level
      PROVE  p \in DOMAIN new /\ new[p] = t[Cdx!TrustPath(p)]
  BY <1>1, <1>3, <1>5, <1>7
<1>8. ASSUME NEW p \in Key, Cdx!TrustPath(p) \in DOMAIN t, t[Cdx!TrustPath(p)] \notin Cdx!Level,
             p \notin DOMAIN copied
      PROVE  p \notin DOMAIN new
  BY <1>1, <1>2, <1>4, <1>5, <1>8
<1>9. DOMAIN new \subseteq Key /\ \A p \in DOMAIN new : new[p] \in Cdx!Level
  BY <1>1, <1>6
<1> HIDE DEF Cdx!TrustPath, Cdx!Level
<1> QED BY <1>7, <1>8, <1>9 DEF new, AnswersCount

\* A server that is edited into a profile.
LEMMA UpsertedIsATree ==
    ASSUME NEW t, Tree(t), NEW s \in Server PROVE Tree(PutAt(t, <<"mcp_servers", s.name>>, s.leaves))
<1> DEFINE a == <<"mcp_servers", s.name>>
           leaves == s.leaves
           new == PutAt(t, a, leaves)
<1>1. s.name \in Key /\ \A q \in DOMAIN leaves : q \in Paths /\ leaves[q] # None
  BY CodexAssumption DEF Paths
<1>2. a \in Paths
  BY <1>1, KeyAssumption DEF Paths
<1>3. \A q \in DOMAIN leaves : a \o q \in Paths /\ a \o q # <<>>
  <2> SUFFICES ASSUME NEW q \in DOMAIN leaves PROVE a \o q \in Paths /\ a \o q # <<>>
    OBVIOUS
  <2>1. q \in Paths
    BY <1>1
  <2>2. a \o q \in Servers("mcp_servers", s.name)
    BY <1>1, <2>1, ServerPath
  <2> HIDE DEF a
  <2> QED BY <2>2 DEF Servers, Paths
<1> HIDE DEF a, leaves
<1>4. IsPutAt(new, t, a, leaves)
  <2>1. a \in Paths /\ DOMAIN leaves \subseteq Paths
    BY <1>1, <1>2
  <2> QED BY <2>1, PutAtIs
<1> HIDE DEF new
<1>5. DOMAIN new \subseteq Paths /\ <<>> \notin DOMAIN new
  BY <1>3, <1>4 DEF Tree, IsPutAt
<1>6. ASSUME NEW p \in DOMAIN new PROVE new[p] # None
  <2>1. CASE \E q \in DOMAIN leaves : p = a \o q
    <3>1. PICK q \in DOMAIN leaves : p = a \o q
      BY <2>1
    <3>2. new[a \o q] = leaves[q] /\ leaves[q] # None
      BY <1>1, <1>4 DEF IsPutAt
    <3> QED BY <3>1, <3>2, Zenon
  <2>2. CASE \A q \in DOMAIN leaves : p # a \o q
    <3>1. p \in DOMAIN t /\ new[p] = t[p]
      BY <1>4, <2>2 DEF IsPutAt
    <3> QED BY <3>1 DEF Tree
  <2> QED BY <2>1, <2>2
<1> QED BY <1>5, <1>6 DEF Tree, new, a, leaves

LEMMA CodexBegins == Cdx!Init => CodexInv
BY DEF Cdx!Init, Cdx!Empty, Cdx!NoHome, CodexInv, CodexType, CodexInLane, CodexAnswers, CodexWhole, Tree

\* Between runs only the files of the user change.
LEMMA CodexEdited ==
    ASSUME CodexInv, run = None, run' = None, home' = home, trust' = trust, Tree(template'), Tree(profile')
    PROVE  CodexInv'
BY DEF CodexInv, CodexType, CodexInLane, CodexAnswers, CodexWhole, Tree, Cdx!Level

LEMMA CodexLaunched ==
    ASSUME CodexInv, NEW a \in CodexAsk, Cdx!Launch(a) PROVE CodexInv'
<1> DEFINE levels == IF a.profile THEN trust ELSE Cdx!Empty
           old == Cdx!Written(a, profile)
           chosen == Cdx!Chosen(a, profile)
           new == Cdx!CodexConfig(a, profile, levels)
<1>1. /\ home' = [config |-> new, catalog |-> Cdx!Catalog(chosen, a), trust |-> levels]
      /\ run' = a /\ UNCHANGED <<template, profile, trust>>
  BY DEF Cdx!Launch
<1>2. AskedCodex(a)
  BY AsksAreAsked
<1>3. DOMAIN levels \subseteq Key
  BY DEF CodexInv, CodexType, Cdx!Empty
<1>4. Tree(template) /\ Tree(profile)
  BY DEF CodexInv, CodexType
<1> HIDE DEF levels
<1>5. /\ DOMAIN new \subseteq Paths /\ Lane(new, a.auth)
      /\ \A q \in {Model, Effort} : q \in DOMAIN new => new[q] # None
      /\ \A n \in Key : (\A s \in a.servers : s.name # n) => Agree(new, old, Servers("mcp_servers", n))
      /\ LevelsCount(new, old, levels, a)
  BY <1>2, <1>3, <1>4, LaunchedIs
<1>6. a.explicit # None => Get(chosen, Model) = a.explicit
  BY <1>2, <1>4, ChosenIs DEF AskedCodex, Model
<1>7. Cdx!Written(a, profile)' = old
  BY <1>1 DEF Cdx!Written
<1> HIDE DEF new, old, chosen
<1>8. CodexType'
  BY <1>1, <1>4, <1>5 DEF CodexInv, CodexType, Tree, Cdx!Level
<1>9. CodexInLane'
  <2>1. a.explicit # None /\ Cdx!Catalog(chosen, a) # <<>> => a.explicit \in Cdx!Range(Cdx!Catalog(chosen, a))
    BY <1>6, CatalogLists DEF Model
  <2>2. Lane(new, a.auth)
    BY <1>5
  <2>3. Lane(home.config, run.auth)' <=> Lane(new, a.auth)
    BY <1>1 DEF Lane, Get, Has, Cdx!Auth, Cdx!Sources, Cdx!Provider
  <2> QED BY <1>1, <2>1, <2>2, <2>3 DEF CodexInLane, Cdx!Range
<1>10. CodexAnswers'
  <2> SUFFICES ASSUME a.profile PROVE CodexAnswers'
    BY <1>1 DEF CodexAnswers
  <2>1. levels = trust
    BY DEF levels
  <2>2. \A p \in DOMAIN trust : p \in Key /\ trust[p] \in Cdx!Level
    BY DEF CodexInv, CodexType
  <2>3. "trusted" \in Cdx!Level /\ "trusted" # None
    BY KeyAssumption DEF Cdx!Level
  <2> HIDE DEF Cdx!TrustPath, Cdx!Level
  <2>4. \A p \in DOMAIN trust : Cdx!TrustPath(p) \in DOMAIN new /\ new[Cdx!TrustPath(p)] \in Cdx!Level
    BY <1>5, <2>1, <2>2, <2>3 DEF LevelsCount, Get
  <2>5. \A p \in Key : LET q == Cdx!TrustPath(p)
            IN  q \in DOMAIN new /\ new[q] \notin Cdx!Level => q \in DOMAIN old /\ old[q] = new[q]
    BY <1>5, <2>1, <2>2, <2>3 DEF LevelsCount, Get
  <2>6. Cdx!Written(run, profile)' = old
    BY <1>1, <1>7
  <2> QED BY <1>1, <2>1, <2>4, <2>5, <2>6 DEF CodexAnswers, Cdx!TrustPath, Cdx!Level
<1>11. CodexWhole'
  <2> SUFFICES ASSUME a.profile, NEW n \in Key, NEW q \in DOMAIN profile, q \in Servers("mcp_servers", n),
                      \A s \in a.servers : s.name # n, NEW p \in Servers("mcp_servers", n)
               PROVE  p \in DOMAIN new <=> p \in DOMAIN profile
    BY <1>1 DEF CodexWhole, Servers
  <2>1. Agree(new, old, Servers("mcp_servers", n))
    BY <1>5
  <2>2. ServersFollow(old, profile)
    <3>1. a.profile = TRUE
      BY <1>2 DEF AskedCodex
    <3> QED BY <1>4, <3>1, WrittenIs DEF old
  <2>3. p \in DOMAIN old <=> p \in DOMAIN profile
    BY <2>2 DEF ServersFollow
  <2> QED BY <2>1, <2>3 DEF Agree
<1> QED BY <1>8, <1>9, <1>10, <1>11 DEF CodexInv

LEMMA CodexUsed ==
    ASSUME CodexInv, NEW picks \in Picks, Cdx!Use(picks) PROVE CodexInv'
<1> DEFINE t == home.config
           new == Overlay(t, picks)
<1>1. /\ run # None /\ run' = run /\ UNCHANGED <<template, profile, trust>>
      /\ home' = [home EXCEPT !.config = new]
  BY CodexTrees DEF Cdx!Use
<1>2. /\ DOMAIN t \subseteq Paths
      /\ \A q \in {Model, Effort} : q \in DOMAIN t => t[q] # None
      /\ DOMAIN home = {"config", "catalog", "trust"}
  BY <1>1 DEF CodexInv, CodexType
<1>3. /\ home'.config = new /\ home'.catalog = home.catalog /\ home'.trust = home.trust
      /\ DOMAIN home' = DOMAIN home
  BY <1>1, <1>2
<1> HIDE DEF t
<1>4. /\ DOMAIN new \subseteq Paths
      /\ Agree(new, t, Headed(LaneKeys)) /\ Agree(new, t, Headed({"mcp_servers"}))
      /\ \A q \in {Model, Effort} : q \in DOMAIN new =>
            new[q] # None \/ (q \in DOMAIN t /\ new[q] = t[q])
      /\ \A p \in Key :
            /\ Cdx!TrustPath(p) \in DOMAIN t => Cdx!TrustPath(p) \in DOMAIN new
            /\ Cdx!TrustPath(p) \in DOMAIN new =>
                  \/ new[Cdx!TrustPath(p)] \in Cdx!Level
                  \/ Cdx!TrustPath(p) \in DOMAIN t /\ new[Cdx!TrustPath(p)] = t[Cdx!TrustPath(p)]
  BY <1>2, UsedIs
<1> HIDE DEF new
<1>5. CodexType'
  BY <1>1, <1>2, <1>3, <1>4 DEF CodexInv, CodexType, Tree, Cdx!Level
<1>6. CodexInLane'
  <2>1. Lane(new, run.auth)
    BY <1>1, <1>2, <1>4, LaneStays DEF CodexInv, CodexInLane, t
  <2>2. Lane(home.config, run.auth)' <=> Lane(new, run.auth)
    BY <1>1, <1>3 DEF Lane, Get, Has, Cdx!Auth, Cdx!Sources, Cdx!Provider
  <2> QED BY <1>1, <1>3, <2>1, <2>2 DEF CodexInv, CodexInLane, Cdx!Range
<1>7. CodexAnswers'
  <2> SUFFICES ASSUME run.profile PROVE CodexAnswers'
    BY <1>1 DEF CodexAnswers
  <2> DEFINE old == Cdx!Written(run, profile)
  <2>1. old' = old
    BY <1>1 DEF Cdx!Written
  <2>2. /\ home.trust = trust
        /\ \A p \in DOMAIN trust : p \in Key /\ Cdx!TrustPath(p) \in DOMAIN t /\ t[Cdx!TrustPath(p)] \in Cdx!Level
        /\ \A p \in Key : Cdx!TrustPath(p) \in DOMAIN t /\ t[Cdx!TrustPath(p)] \notin Cdx!Level =>
              Cdx!TrustPath(p) \in DOMAIN old /\ old[Cdx!TrustPath(p)] = t[Cdx!TrustPath(p)]
    BY <1>1 DEF CodexInv, CodexType, CodexAnswers, t
  <2> HIDE DEF Cdx!TrustPath, Cdx!Level
  <2>3. /\ \A p \in DOMAIN trust : Cdx!TrustPath(p) \in DOMAIN new /\ new[Cdx!TrustPath(p)] \in Cdx!Level
        /\ \A p \in Key : Cdx!TrustPath(p) \in DOMAIN new /\ new[Cdx!TrustPath(p)] \notin Cdx!Level =>
              Cdx!TrustPath(p) \in DOMAIN old /\ old[Cdx!TrustPath(p)] = new[Cdx!TrustPath(p)]
    <3> HIDE DEF old
    <3> QED BY <1>4, <2>2
  <2> QED BY <1>1, <1>3, <2>1, <2>2, <2>3 DEF CodexAnswers, Cdx!TrustPath, Cdx!Level
<1>8. CodexWhole'
  <2> SUFFICES ASSUME run.profile, NEW n \in Key, NEW q \in DOMAIN profile, q \in Servers("mcp_servers", n),
                      \A s \in run.servers : s.name # n, NEW p \in Servers("mcp_servers", n)
               PROVE  p \in DOMAIN new <=> p \in DOMAIN profile
    BY <1>1, <1>3 DEF CodexWhole, Servers
  <2>1. p \in DOMAIN t <=> p \in DOMAIN profile
    BY <1>1 DEF CodexInv, CodexWhole, t
  <2>2. p \in Headed({"mcp_servers"})
    BY DEF Servers, Headed, Paths
  <2> QED BY <1>4, <2>1, <2>2 DEF Agree
<1> QED BY <1>5, <1>6, <1>7, <1>8 DEF CodexInv

LEMMA CodexFinished ==
    ASSUME CodexInv, Cdx!Finish PROVE CodexInv'
<1>1. /\ run # None /\ run' = None /\ template' = template
      /\ profile' = IF run.profile THEN Cdx!SavedProfile ELSE profile
      /\ trust' = IF run.profile THEN Cdx!SavedTrust ELSE trust
      /\ home' = Cdx!NoHome
  BY DEF Cdx!Finish
<1>2. Tree(template') /\ Tree(profile')
  BY <1>1, SavedIsATree DEF CodexInv, CodexType, Tree
<1>3. DOMAIN trust' \subseteq Key /\ \A p \in DOMAIN trust' : trust'[p] \in Cdx!Level
  <2> DEFINE copied == Cdx!Joined(home.trust, trust)
  <2>1. run.profile => home.trust = trust
    BY <1>1 DEF CodexInv, CodexAnswers
  <2>2. DOMAIN trust \subseteq Key /\ \A p \in DOMAIN trust : trust[p] \in Cdx!Level
    BY DEF CodexInv, CodexType
  <2>3. run.profile => DOMAIN copied \subseteq Key /\ \A p \in DOMAIN copied : copied[p] \in Cdx!Level
    BY <2>1, <2>2 DEF Cdx!Joined
  <2>4. DOMAIN home.config \subseteq Paths
    BY <1>1 DEF CodexInv, CodexType
  <2>5. Cdx!SavedTrust = Cdx!Trusted(home.config, copied)
    BY DEF Cdx!SavedTrust
  <2> HIDE DEF copied
  <2>6. run.profile => DOMAIN Cdx!SavedTrust \subseteq Key /\ \A p \in DOMAIN Cdx!SavedTrust : Cdx!SavedTrust[p] \in Cdx!Level
    BY <2>3, <2>4, <2>5, TrustedIs DEF AnswersCount
  <2> QED BY <1>1, <2>2, <2>6
<1>4. CodexType'
  BY <1>1, <1>2, <1>3 DEF CodexType, Tree, Cdx!Level, Cdx!NoHome
<1> QED BY <1>1, <1>4 DEF CodexInv, CodexInLane, CodexAnswers, CodexWhole

LEMMA CodexHolds == CodexInv /\ [Cdx!Next]_Cdx!vars => CodexInv'
<1> SUFFICES ASSUME CodexInv, [Cdx!Next]_Cdx!vars PROVE CodexInv'
  OBVIOUS
<1>1. CASE UNCHANGED Cdx!vars
  <2>1. Cdx!Written(run, profile)' = Cdx!Written(run, profile)
    BY <1>1 DEF Cdx!vars, Cdx!Written
  <2> QED BY <1>1, <2>1 DEF Cdx!vars, CodexInv, CodexType, CodexInLane, CodexAnswers, CodexWhole, Tree, Lane, Get, Has,
        Cdx!Level, Cdx!Range, Cdx!TrustPath, Cdx!Auth, Cdx!Sources, Cdx!Provider
<1>2. ASSUME NEW s \in Setting, Cdx!EditTemplate(s) \/ Cdx!EditProfile(s) PROVE CodexInv'
  <2>1. s[1] \in Paths /\ s[1] # <<>> /\ s[2] # None /\ Tree(template) /\ Tree(profile)
    BY CodexAssumption DEF Paths, CodexInv, CodexType
  <2>2. Tree(Put(template, s[1], s[2])) /\ Tree(Put(profile, s[1], s[2]))
    BY <2>1, PutIsATree
  <2>3. /\ template' \in {template, Put(template, s[1], s[2])}
        /\ profile' \in {profile, Put(profile, s[1], s[2])}
        /\ run = None /\ run' = None /\ home' = home /\ trust' = trust
    BY <1>2, CodexTrees DEF Cdx!EditTemplate, Cdx!EditProfile
  <2>4. Tree(template') /\ Tree(profile')
    BY <2>1, <2>2, <2>3
  <2> QED BY <2>3, <2>4, CodexEdited
<1>3. ASSUME NEW s \in Server, Cdx!UpsertServer(s) PROVE CodexInv'
  <2>1. /\ profile' = PutAt(profile, <<"mcp_servers", s.name>>, s.leaves)
        /\ template' = template /\ run = None /\ run' = None /\ home' = home /\ trust' = trust
    BY <1>3, CodexTrees DEF Cdx!UpsertServer
  <2>2. Tree(template) /\ Tree(profile)
    BY DEF CodexInv, CodexType
  <2>3. Tree(template') /\ Tree(profile')
    BY <2>1, <2>2, UpsertedIsATree
  <2> QED BY <2>1, <2>3, CodexEdited
<1> QED BY <1>1, <1>2, <1>3, CodexLaunched, CodexUsed, CodexFinished DEF Cdx!Next

LEMMA OwnLaneHolds == CodexInv => Cdx!OwnLane
<1> SUFFICES ASSUME CodexInv, run # None PROVE Cdx!OwnLane
  BY DEF Cdx!OwnLane
<1>1. Lane(home.config, run.auth) /\ run.auth \in Cdx!Auth
  BY AsksAreAsked DEF CodexInv, CodexInLane, CodexType, AskedCodex
<1>2. {a \in Cdx!Auth : Cdx!Has(home.config, Cdx!Sources[a])} = {a \in Cdx!Auth : Cdx!Sources[a] = Cdx!Sources[run.auth]}
  BY <1>1, CodexTrees DEF Lane
<1> QED BY <1>1, <1>2, CodexTrees DEF Cdx!OwnLane, Lane, CodexInv, CodexInLane

LEMMA CodexServersHold == CodexInv => Cdx!ServersAreWhole
<1> SUFFICES ASSUME CodexInv, run # None, run.profile, NEW q \in DOMAIN profile, Len(q) > 2,
                    Head(q) = "mcp_servers", \A s \in run.servers : s.name # q[2]
             PROVE  \A p : p \in DOMAIN home.config /\ Above(SubSeq(q, 1, 2), p)
                            <=> p \in DOMAIN profile /\ Above(SubSeq(q, 1, 2), p)
  BY CodexTrees DEF Cdx!ServersAreWhole
<1>1. DOMAIN home.config \subseteq Paths /\ DOMAIN profile \subseteq Paths
  BY DEF CodexInv, CodexType, Tree
<1>2. q \in Seq(Key) /\ Len(q) \in Nat /\ 2 \in 1 .. Len(q) /\ q[1] = "mcp_servers"
  BY <1>1 DEF Paths
<1>3. q[2] \in Key /\ q \in Servers("mcp_servers", q[2])
  BY <1>1, <1>2, ElementOfSeq DEF Servers, Paths
<1>4. \A p \in Servers("mcp_servers", q[2]) : p \in DOMAIN home.config <=> p \in DOMAIN profile
  BY <1>3 DEF CodexInv, CodexWhole
<1>5. \A p \in Paths : Above(SubSeq(q, 1, 2), p) <=> p \in Servers("mcp_servers", q[2])
  BY <1>3, ServedUnder
<1> QED BY <1>1, <1>4, <1>5

\* The steps of a copy back, an overlay and a merge keep every choice.
LEMMA ChoicesHold == CodexInv => Cdx!ChoicesSurvive
<1> DEFINE plain == [profile |-> TRUE, explicit |-> None, default |-> "fallback",
                     auth |-> "EnvKey", offered |-> <<>>, yolo |-> FALSE, servers |-> {}]
           t == home.config
           saved == Cdx!SavedProfile
           levels == Cdx!SavedTrust
           next == Cdx!CodexConfig(plain, saved, levels)
           old == Cdx!Written(plain, saved)
           own == Cdx!Written(run, profile)
<1> SUFFICES ASSUME CodexInv, run # None, run.profile,
                    NEW q \in DOMAIN t, q \in {Model, Effort} \/ \E p \in Project : q = Cdx!TrustPath(p)
             PROVE  Get(next, q) = t[q]
  BY CodexTrees DEF Cdx!ChoicesSurvive, Cdx!NextLaunch, Model, Effort
<1>1. /\ Tree(template) /\ Tree(profile) /\ run \in CodexAsk /\ DOMAIN t \subseteq Paths
      /\ \A p \in {Model, Effort} : p \in DOMAIN t => t[p] # None
      /\ home.trust = trust /\ DOMAIN trust \subseteq Key /\ \A p \in DOMAIN trust : trust[p] \in Cdx!Level
      /\ run.profile = TRUE
  <2>1. run \in CodexAsk
    BY DEF CodexInv, CodexType
  <2>2. run.profile \in BOOLEAN
    BY <2>1, CodexAssumption
  <2> QED BY <2>1, <2>2 DEF CodexInv, CodexType, CodexAnswers
<1>2. AskedCodex(plain) /\ plain.explicit = None /\ plain.profile = TRUE /\ plain.yolo = FALSE
  BY DEF AskedCodex, Cdx!Auth
<1>3. Tree(saved)
  BY <1>1, SavedIsATree
<1> DEFINE picked == Cdx!Selection(t)
<1>4. saved = Overlay(profile, picked)
  BY CodexTrees DEF Cdx!SavedProfile
<1>5. /\ Tree(picked) /\ DOMAIN picked \subseteq {Model, Effort}
      /\ \A p \in {Model, Effort} : p \in DOMAIN t => p \in DOMAIN picked /\ picked[p] = t[p]
  <2>1. IsSelection(picked, t)
    BY SelectionIs
  <2> HIDE DEF picked, t
  <2> QED BY <1>1, <2>1 DEF IsSelection
<1> DEFINE copied == Cdx!Joined(home.trust, trust)
<1>6. DOMAIN copied = DOMAIN trust /\ \A p \in DOMAIN trust : copied[p] = trust[p]
  BY <1>1 DEF Cdx!Joined
<1>7. levels = Cdx!Trusted(t, copied)
  BY DEF Cdx!SavedTrust
<1>8. AnswersCount(levels, t, copied)
  <2> HIDE DEF copied, levels, t
  <2> QED BY <1>1, <1>6, <1>7, TrustedIs
<1> HIDE DEF t, picked, copied, plain, saved, levels
<1>9. /\ plain.explicit = None /\ Model \in DOMAIN old => Get(next, Model) = old[Model]
      /\ Effort \in DOMAIN old => Get(next, Effort) = old[Effort]
      /\ LevelsCount(next, old, levels, plain)
  BY <1>1, <1>2, <1>3, <1>8, LaunchedIs DEF AnswersCount
<1>10. \A p \in DOMAIN saved : p[1] # "sqlite_home" => p \in DOMAIN old /\ old[p] = saved[p]
  <2>1. Tree(template) /\ plain.profile = TRUE
    BY <1>1, <1>2
  <2> QED BY <1>3, <2>1, WrittenIs
<1>11. Agree(old, own, Headed({"projects"}))
  <2>1. \A p \in DOMAIN picked : p \in Paths /\ p # <<>> /\ p \notin Headed({"projects"})
    <3>1. Model \in Paths /\ Model # <<>> /\ Model[1] = "model" /\ Effort \in Paths /\ Effort # <<>>
          /\ Effort[1] = "model_reasoning_effort"
      BY KeyAssumption DEF Paths, Model, Effort
    <3> QED BY <1>5, <3>1 DEF Headed
  <2>2. Agree(saved, profile, Headed({"projects"}))
    BY <1>4, <2>1, OverlayElsewhere
  <2>3. "mcp_servers" \notin {"projects"}
    OBVIOUS
  <2> HIDE DEF old, own
  <2> QED BY <1>1, <1>2, <1>3, <2>2, <2>3, WrittenAgrees DEF old, own
<1> HIDE DEF next, old, own
<1>12. CASE q \in {Model, Effort}
  <2>1. q \in DOMAIN picked /\ picked[q] = t[q]
    BY <1>5, <1>12
  <2>2. q \in DOMAIN saved /\ saved[q] = t[q]
    BY <1>4, <2>1, OverlayIs
  <2>3. q[1] # "sqlite_home"
    BY <1>12 DEF Model, Effort
  <2>4. q \in DOMAIN old /\ old[q] = t[q]
    BY <1>10, <2>2, <2>3
  <2> QED BY <1>2, <1>9, <1>12, <2>4
<1>13. ASSUME NEW p \in Project, q = Cdx!TrustPath(p) PROVE Get(next, q) = t[q]
  <2>1. p \in Key
    BY CodexAssumption
  <2>2. /\ p \in DOMAIN levels => q \in DOMAIN next /\ next[q] = levels[p]
        /\ p \notin DOMAIN levels => (q \in DOMAIN next <=> q \in DOMAIN old) /\ (q \in DOMAIN old => next[q] = old[q])
    BY <1>2, <1>9, <1>13, <2>1 DEF LevelsCount
  <2>3. CASE t[q] \in Cdx!Level
    BY <1>8, <1>13, <2>1, <2>2, <2>3 DEF Get, AnswersCount
  <2>4. CASE t[q] \notin Cdx!Level
    <3>1. q \in DOMAIN own /\ own[q] = t[q] /\ p \notin DOMAIN trust
      <4> HIDE DEF Cdx!TrustPath, Cdx!Level
      <4> QED BY <1>13, <2>1, <2>4 DEF CodexInv, CodexAnswers, t, own
    <3>2. p \notin DOMAIN levels
      BY <1>6, <1>8, <1>13, <2>1, <2>4, <3>1 DEF AnswersCount
    <3>3. q \in Headed({"projects"})
      BY <1>13, <2>1, TrustPathIs DEF Headed
    <3>4. q \in DOMAIN old /\ old[q] = t[q]
      BY <1>11, <3>1, <3>3 DEF Agree
    <3> QED BY <2>2, <3>2, <3>4 DEF Get
  <2> QED BY <2>3, <2>4
<1> QED BY <1>12, <1>13

-------------------------------------------------------------------------------
(* InterpreterLaunch *)

LEMMA RolesTrees ==
    /\ \A t, o : Roles!Overlay(t, o) = Overlay(t, o)
    /\ \A t, p, v : Roles!Put(t, p, v) = Put(t, p, v) /\ Roles!PutIfMissing(t, p, v) = PutIfMissing(t, p, v)
    /\ \A t, p : Roles!Drop(t, p) = Drop(t, p) /\ Roles!Get(t, p) = Get(t, p) /\ (Roles!Has(t, p) <=> Has(t, p))
    /\ \A t, o, s : Roles!OverlayProfile(t, o, s) = OverlayProfile(t, o, s)
    /\ \A t, k : Roles!Kept(t, k) = Kept(t, k)
    /\ \A p, q : Roles!Above(p, q) <=> Above(p, q)
<1>1. \A p, q : Roles!Above(p, q) <=> Above(p, q)
  BY DEF Roles!Above, Above
<1>2. \A t, k : Roles!Kept(t, k) = Kept(t, k)
  BY DEF Roles!Kept, Kept
<1>3. \A t, o : Roles!Overlay(t, o) = Overlay(t, o)
  BY DEF Roles!Overlay, Overlay, Roles!Joined, Joined, Roles!Kept, Kept, Roles!Above, Above
<1>4. \A t, p : Roles!Drop(t, p) = Drop(t, p)
  BY DEF Roles!Drop, Drop, Roles!Kept, Kept, Roles!Above, Above
<1>5. \A t, p : Roles!Get(t, p) = Get(t, p)
  BY DEF Roles!Get, Get
<1>6. \A t, p : Roles!Has(t, p) <=> Has(t, p)
  BY <1>1 DEF Roles!Has, Has
<1>7. \A t, p, v : Roles!Put(t, p, v) = Put(t, p, v)
  BY <1>3 DEF Roles!Put, Put, Roles!Leaf, Leaf
<1>8. \A t, p, v : Roles!PutIfMissing(t, p, v) = PutIfMissing(t, p, v)
  BY <1>6, <1>7 DEF Roles!PutIfMissing, PutIfMissing
<1>9. \A t, o, s : Roles!OverlayProfile(t, o, s) = OverlayProfile(t, o, s)
  BY <1>3 DEF Roles!OverlayProfile, OverlayProfile, Roles!Kept, Kept, Roles!Above, Above
<1> QED BY <1>1, <1>2, <1>3, <1>4, <1>5, <1>6, <1>7, <1>8, <1>9

LEMMA ServersKeep ==
    ASSUME NEW t, NEW table, NEW m, NEW n, m # n, NEW q \in Servers(table, m)
    PROVE  /\ \A v : Agree(Put(t, q, v), t, Servers(table, n))
           /\ Agree(Drop(t, q), t, Servers(table, n))
<1>1. ASSUME NEW p \in Servers(table, n) PROVE Apart(p, q) /\ p # q
  <2>1. p \in Paths /\ q \in Paths /\ 2 \in 1 .. Len(p) /\ 2 \in 1 .. Len(q) /\ p[2] # q[2]
    BY DEF Servers, Paths
  <2> QED BY <2>1, ApartAt
<1> QED BY <1>1, PutIs, DropIs DEF Agree, Apart

LEMMA BelowServers ==
    ASSUME NEW table, NEW n, NEW p \in Servers(table, n), NEW q \in Paths, Above(p, q)
    PROVE  q \in Servers(table, n)
<1>1. p \in Paths /\ Len(p) \in Nat /\ Len(q) \in Nat /\ Len(p) >= 2 /\ p[1] = table /\ p[2] = n
  BY DEF Servers, Paths
<1>2. Len(p) <= Len(q) /\ \A i \in 1 .. Len(p) : p[i] = q[i]
  BY <1>1, PrefixMeans
<1>3. 1 \in 1 .. Len(p) /\ 2 \in 1 .. Len(p)
  BY <1>1
<1> QED BY <1>1, <1>2, <1>3 DEF Servers

LEMMA AgreeSeesServers ==
    ASSUME NEW t, NEW u, NEW table, NEW n, DOMAIN t \subseteq Paths, DOMAIN u \subseteq Paths,
           Agree(t, u, Servers(table, n)), NEW p \in Servers(table, n)
    PROVE  (Has(t, p) <=> Has(u, p)) /\ Get(t, p) = Get(u, p)
<1>1. \A q \in Paths : Above(p, q) => q \in Servers(table, n)
  BY BelowServers
<1> QED BY <1>1 DEF Agree, Has, Get

LEMMA IsServed ==
    ASSUME NEW table, NEW n, NEW p \in Paths, Len(p) >= 2, p[1] = table, p[2] = n
    PROVE  p \in Servers(table, n)
BY DEF Servers

\* The paths of the three providers.
Of(api) == Servers("model_providers", Roles!Provider[api])
InUnder(api, x) == Roles!Under(api) \o <<x>>

LEMMA RolePaths ==
    ASSUME NEW api \in Roles!WireApi, NEW q \in Paths, Len(q) > 0
    PROVE  Roles!Under(api) \o q \in Of(api) /\ Len(Roles!Under(api) \o q) >= 3 /\ (Roles!Under(api) \o q)[3] = q[1]
<1> DEFINE a == Roles!Under(api)
           n == Roles!Provider[api]
<1>1. n \in Key
  BY KeyAssumption DEF Roles!Provider, Roles!WireApi
<1>2. a = <<"model_providers", n>>
  BY DEF Roles!Under
<1> HIDE DEF n
<1>3. a \in Seq(Key) /\ q \in Seq(Key) /\ Len(a) = 2 /\ a[1] = "model_providers" /\ a[2] = n /\ Len(q) \in Nat
  BY <1>1, <1>2, KeyAssumption DEF Paths
<1> HIDE DEF a
<1>4. /\ a \o q \in Seq(Key) /\ Len(a \o q) = Len(a) + Len(q)
      /\ \A i \in 1 .. Len(a) + Len(q) : (a \o q)[i] = IF i <= Len(a) THEN a[i] ELSE q[i - Len(a)]
  BY <1>3, ConcatProperties
<1>5. /\ 1 \in 1 .. Len(a) + Len(q) /\ 2 \in 1 .. Len(a) + Len(q) /\ 3 \in 1 .. Len(a) + Len(q)
      /\ 1 <= Len(a) /\ 2 <= Len(a) /\ ~ (3 <= Len(a)) /\ 3 - Len(a) = 1
  BY <1>3
<1>6. (a \o q)[1] = "model_providers" /\ (a \o q)[2] = n /\ (a \o q)[3] = q[1] /\ Len(a \o q) >= 3
  BY <1>3, <1>4, <1>5
<1>7. a \o q \in Of(api)
  <2>1. a \o q \in Paths /\ Len(a \o q) >= 2
    BY <1>3, <1>4 DEF Paths
  <2>2. a \o q \in Servers("model_providers", n)
    BY <1>6, <2>1, IsServed
  <2> QED BY <2>2 DEF Of, n
<1>8. a \o q \in Of(api) /\ Len(a \o q) >= 3 /\ (a \o q)[3] = q[1]
  BY <1>6, <1>7
<1> QED BY <1>8, Zenon DEF a

LEMMA InUnderIs ==
    ASSUME NEW api \in Roles!WireApi, NEW x \in Key
    PROVE  InUnder(api, x) \in Of(api) /\ Len(InUnder(api, x)) >= 3 /\ InUnder(api, x)[3] = x
<1> DEFINE q == <<x>>
<1>1. q \in Paths /\ Len(q) > 0 /\ q[1] = x
  BY DEF Paths
<1>2. InUnder(api, x) = Roles!Under(api) \o q
  BY DEF InUnder
<1> HIDE DEF q
<1> QED BY <1>1, <1>2, RolePaths

\* Different entries of a provider are apart.
LEMMA UndersApart ==
    ASSUME NEW api \in Roles!WireApi, NEW p \in Of(api), NEW q \in Of(api),
           Len(p) >= 3, Len(q) >= 3, p[3] # q[3]
    PROVE  Apart(p, q) /\ p # q
<1>1. p \in Paths /\ q \in Paths /\ 3 \in 1 .. Len(p) /\ 3 \in 1 .. Len(q)
  BY DEF Of, Servers, Paths
<1> QED BY <1>1, ApartAt

\* What an entry of a provider holds, and what else there is.
Entry(api, x) == {p \in Of(api) : Len(p) >= 3 /\ p[3] = x}
Beside(u, t, api) ==
    /\ DOMAIN u \subseteq Paths
    /\ \A other \in Roles!WireApi \ {api} : Agree(u, t, Of(other))
    /\ \A keys : "model_providers" \notin keys => Agree(u, t, Headed(keys))
OnlyEntry(u, t, api, x) == Beside(u, t, api) /\ \A y : y # x => Agree(u, t, Entry(api, y))

LEMMA ProvidersDiffer ==
    ASSUME NEW api \in Roles!WireApi, NEW other \in Roles!WireApi \ {api}
    PROVE  Roles!Provider[api] # Roles!Provider[other]
BY DEF Roles!Provider, Roles!WireApi

LEMMA EntryStep ==
    ASSUME NEW api \in Roles!WireApi, NEW x, NEW q \in Entry(api, x),
           NEW t, DOMAIN t \subseteq Paths
    PROVE  (\A v : OnlyEntry(Put(t, q, v), t, api, x)) /\ OnlyEntry(Drop(t, q), t, api, x)
<1>1. q \in Of(api) /\ q \in Paths /\ Len(q) >= 3 /\ q[3] = x /\ q # <<>>
  BY DEF Entry, Of, Servers
<1>2. q[1] = "model_providers"
  BY <1>1 DEF Of, Servers
<1>3. ASSUME NEW keys, "model_providers" \notin keys
      PROVE  (\A v : Agree(Put(t, q, v), t, Headed(keys))) /\ Agree(Drop(t, q), t, Headed(keys))
  BY <1>1, <1>2, <1>3, StepKeeps
<1>4. ASSUME NEW other \in Roles!WireApi \ {api}
      PROVE  (\A v : Agree(Put(t, q, v), t, Of(other))) /\ Agree(Drop(t, q), t, Of(other))
  <2>1. Roles!Provider[api] # Roles!Provider[other]
    BY ProvidersDiffer
  <2> QED BY <1>1, <2>1, ServersKeep DEF Of
<1>5. ASSUME NEW y, y # x
      PROVE  (\A v : Agree(Put(t, q, v), t, Entry(api, y))) /\ Agree(Drop(t, q), t, Entry(api, y))
  <2>1. \A p \in Entry(api, y) : Apart(p, q) /\ p # q
    BY <1>1, <1>5, UndersApart DEF Entry
  <2> QED BY <2>1, PutIs, DropIs DEF Agree, Apart
<1>6. (\A v : DOMAIN Put(t, q, v) \subseteq Paths) /\ DOMAIN Drop(t, q) \subseteq Paths
  BY <1>1, TreesStayTrees
<1> QED BY <1>3, <1>4, <1>5, <1>6 DEF OnlyEntry, Beside

LEMMA BelowEntry ==
    ASSUME NEW api, NEW x, NEW p \in Entry(api, x), NEW q \in Paths, Above(p, q)
    PROVE  q \in Entry(api, x)
<1>1. p \in Of(api) /\ p \in Paths /\ Len(p) \in Nat /\ Len(q) \in Nat /\ Len(p) >= 3 /\ p[3] = x
  BY DEF Entry, Of, Servers, Paths
<1>2. Len(p) <= Len(q) /\ p[3] = q[3]
  BY <1>1, PrefixMeans
<1>3. q \in Of(api)
  BY <1>1, BelowServers DEF Of
<1> QED BY <1>1, <1>2, <1>3 DEF Entry

LEMMA EntrySees ==
    ASSUME NEW t, NEW u, NEW api, NEW x, DOMAIN t \subseteq Paths, DOMAIN u \subseteq Paths,
           Agree(t, u, Entry(api, x)), NEW p \in Entry(api, x)
    PROVE  (Has(t, p) <=> Has(u, p)) /\ Get(t, p) = Get(u, p)
<1>1. \A q \in Paths : Above(p, q) => q \in Entry(api, x)
  BY BelowEntry
<1>2. p \in Paths
  BY DEF Entry, Of, Servers
<1> QED BY <1>1, <1>2 DEF Agree, Has, Get

LEMMA PutShows ==
    ASSUME NEW t, NEW p, NEW v
    PROVE  Get(Put(t, p, v), p) = v
BY PutIs DEF Get

LEMMA DropHides ==
    ASSUME NEW t, NEW p PROVE ~ Has(Drop(t, p), p)
BY DropIs DEF Has

LEMMA BesideTrans ==
    ASSUME NEW t, NEW u, NEW w, NEW api, Beside(u, t, api), Beside(w, u, api) PROVE Beside(w, t, api)
BY AgreeTrans DEF Beside

\* What the provider of a protocol must be.
RoleLane(tree, api) ==
    /\ Get(tree, InUnder(api, "base_url")) = Roles!Base(api)
    /\ Get(tree, InUnder(api, "wire_api")) = api
    /\ ~ Has(tree, InUnder(api, "requires_openai_auth"))
    /\ Has(tree, InUnder(api, "env_key")) <=> ~ Has(tree, InUnder(api, "auth"))

RoleAuth == {"EnvKey", "EnvBearer", "Command"}

LEMMA EntryIs ==
    ASSUME NEW api \in Roles!WireApi, NEW x \in Key
    PROVE  InUnder(api, x) \in Entry(api, x)
BY InUnderIs DEF Entry

\* Where the credentials go.
LEMMA RoleSource ==
    ASSUME NEW api \in Roles!WireApi, NEW auth \in RoleAuth
    PROVE  \/ Roles!Under(api) \o Roles!Sources[auth] = InUnder(api, "env_key")
           \/ /\ Roles!Under(api) \o Roles!Sources[auth] \in Entry(api, "auth")
              /\ Above(InUnder(api, "auth"), Roles!Under(api) \o Roles!Sources[auth])
<1>1. CASE auth \in {"EnvKey", "EnvBearer"}
  <2>1. Roles!Sources[auth] = <<"env_key">>
    BY <1>1 DEF Roles!Sources
  <2> QED BY <2>1 DEF InUnder
<1>2. CASE auth = "Command"
  <2> DEFINE s == <<"auth", "command">>
             p == InUnder(api, "auth")
             r == Roles!Under(api) \o s
  <2>1. Roles!Sources[auth] = s
    BY <1>2 DEF Roles!Sources
  <2>2. s \in Paths /\ Len(s) = 2 /\ s[1] = "auth"
    BY KeyAssumption DEF Paths
  <2>3. r \in Of(api) /\ Len(r) >= 3 /\ r[3] = "auth"
    <3> HIDE DEF s
    <3>1. s \in Paths /\ Len(s) > 0
      BY <2>2
    <3>2. r \in Of(api) /\ Len(r) >= 3 /\ r[3] = s[1]
      BY <3>1, RolePaths
    <3> QED BY <2>2, <3>2
  <2>4. r \in Entry(api, "auth")
    BY <2>3 DEF Entry
  <2>5. p \in Of(api) /\ Len(p) = 3 /\ p[3] = "auth"
    <3>1. "auth" \in Key
      BY KeyAssumption
    <3>2. Len(p) = 3
      BY DEF InUnder, Roles!Under
    <3> QED BY <3>1, <3>2, InUnderIs
  <2>6. Above(p, r)
    <3> HIDE DEF p, r
    <3>1. /\ p \in Paths /\ r \in Paths /\ Len(p) \in Nat /\ Len(r) \in Nat
          /\ p[1] = "model_providers" /\ r[1] = "model_providers" /\ p[2] = r[2]
      BY <2>3, <2>5 DEF Of, Servers, Paths
    <3>2. \A i \in 1 .. Len(p) : p[i] = r[i]
      BY <2>3, <2>5, <3>1
    <3> QED BY <2>3, <2>5, <3>1, <3>2, PrefixMeans
  <2> QED BY <2>1, <2>4, <2>6
<1> QED BY <1>1, <1>2 DEF RoleAuth

LEMMA RoleProviderIs ==
    ASSUME NEW api \in Roles!WireApi, NEW auth \in RoleAuth, NEW t, DOMAIN t \subseteq Paths
    PROVE  Beside(Roles!WithProvider(t, api, auth), t, api)
           /\ RoleLane(Roles!WithProvider(t, api, auth), api)
<1> DEFINE t1 == Put(t, InUnder(api, "base_url"), Roles!Base(api))
           t2 == Put(t1, InUnder(api, "wire_api"), api)
           t3 == Put(t2, InUnder(api, "supports_websockets"), "false")
           t4 == Drop(t3, InUnder(api, "env_key"))
           t5 == Drop(t4, InUnder(api, "requires_openai_auth"))
           t6 == Drop(t5, InUnder(api, "auth"))
           source == Roles!Under(api) \o Roles!Sources[auth]
           t7 == Put(t6, source, auth)
           x == IF source = InUnder(api, "env_key") THEN "env_key" ELSE "auth"
<1>1. Roles!WithProvider(t, api, auth) = t7
  BY RolesTrees DEF Roles!WithProvider, Roles!WithAuth, InUnder
<1>2. /\ InUnder(api, "base_url") \in Entry(api, "base_url")
      /\ InUnder(api, "wire_api") \in Entry(api, "wire_api")
      /\ InUnder(api, "supports_websockets") \in Entry(api, "supports_websockets")
      /\ InUnder(api, "env_key") \in Entry(api, "env_key")
      /\ InUnder(api, "requires_openai_auth") \in Entry(api, "requires_openai_auth")
      /\ InUnder(api, "auth") \in Entry(api, "auth")
  BY EntryIs, KeyAssumption
<1>3. \/ source = InUnder(api, "env_key") /\ x = "env_key"
      \/ source # InUnder(api, "env_key") /\ x = "auth" /\ Above(InUnder(api, "auth"), source)
  BY RoleSource
<1>4. source \in Entry(api, x)
  BY <1>2, RoleSource
<1> HIDE DEF source, x
<1>5. OnlyEntry(t1, t, api, "base_url")
  BY <1>2, EntryStep
<1> HIDE DEF t1
<1>6. OnlyEntry(t2, t1, api, "wire_api")
  BY <1>2, <1>5, EntryStep DEF OnlyEntry, Beside
<1> HIDE DEF t2
<1>7. OnlyEntry(t3, t2, api, "supports_websockets")
  BY <1>2, <1>6, EntryStep DEF OnlyEntry, Beside
<1> HIDE DEF t3
<1>8. OnlyEntry(t4, t3, api, "env_key")
  BY <1>2, <1>7, EntryStep DEF OnlyEntry, Beside
<1> HIDE DEF t4
<1>9. OnlyEntry(t5, t4, api, "requires_openai_auth")
  BY <1>2, <1>8, EntryStep DEF OnlyEntry, Beside
<1> HIDE DEF t5
<1>10. OnlyEntry(t6, t5, api, "auth")
  BY <1>2, <1>9, EntryStep DEF OnlyEntry, Beside
<1> HIDE DEF t6
<1>11. OnlyEntry(t7, t6, api, x)
  BY <1>4, <1>10, EntryStep DEF OnlyEntry, Beside
<1> HIDE DEF t7
<1>12. Beside(t7, t, api)
  BY <1>5, <1>6, <1>7, <1>8, <1>9, <1>10, <1>11, BesideTrans DEF OnlyEntry
<1>13. /\ DOMAIN t1 \subseteq Paths /\ DOMAIN t2 \subseteq Paths /\ DOMAIN t3 \subseteq Paths
       /\ DOMAIN t4 \subseteq Paths /\ DOMAIN t5 \subseteq Paths /\ DOMAIN t6 \subseteq Paths
       /\ DOMAIN t7 \subseteq Paths
  BY <1>5, <1>6, <1>7, <1>8, <1>9, <1>10, <1>11 DEF OnlyEntry, Beside
<1>14. x \in {"env_key", "auth"}
  BY <1>3
<1>15. Get(t7, InUnder(api, "base_url")) = Roles!Base(api)
  <2>1. Get(t1, InUnder(api, "base_url")) = Roles!Base(api)
    BY PutShows DEF t1
  <2>2. /\ Agree(t2, t1, Entry(api, "base_url")) /\ Agree(t3, t2, Entry(api, "base_url"))
        /\ Agree(t4, t3, Entry(api, "base_url")) /\ Agree(t5, t4, Entry(api, "base_url"))
        /\ Agree(t6, t5, Entry(api, "base_url")) /\ Agree(t7, t6, Entry(api, "base_url"))
    BY <1>6, <1>7, <1>8, <1>9, <1>10, <1>11, <1>14 DEF OnlyEntry
  <2> HIDE DEF Roles!Base
  <2> QED BY <1>2, <1>13, <2>1, <2>2, EntrySees
<1>16. Get(t7, InUnder(api, "wire_api")) = api
  <2>1. Get(t2, InUnder(api, "wire_api")) = api
    BY PutShows DEF t2
  <2>2. /\ Agree(t3, t2, Entry(api, "wire_api"))
        /\ Agree(t4, t3, Entry(api, "wire_api")) /\ Agree(t5, t4, Entry(api, "wire_api"))
        /\ Agree(t6, t5, Entry(api, "wire_api")) /\ Agree(t7, t6, Entry(api, "wire_api"))
    BY <1>7, <1>8, <1>9, <1>10, <1>11, <1>14 DEF OnlyEntry
  <2> QED BY <1>2, <1>13, <2>1, <2>2, EntrySees
<1>17. ~ Has(t7, InUnder(api, "requires_openai_auth"))
  <2>1. ~ Has(t5, InUnder(api, "requires_openai_auth"))
    BY DropHides DEF t5
  <2>2. /\ Agree(t6, t5, Entry(api, "requires_openai_auth"))
        /\ Agree(t7, t6, Entry(api, "requires_openai_auth"))
    BY <1>10, <1>11, <1>14 DEF OnlyEntry
  <2> QED BY <1>2, <1>13, <2>1, <2>2, EntrySees
<1>18. ~ Has(t6, InUnder(api, "env_key")) /\ ~ Has(t6, InUnder(api, "auth"))
  <2>1. ~ Has(t4, InUnder(api, "env_key"))
    BY DropHides DEF t4
  <2>2. Agree(t5, t4, Entry(api, "env_key")) /\ Agree(t6, t5, Entry(api, "env_key"))
    BY <1>9, <1>10 DEF OnlyEntry
  <2>3. ~ Has(t6, InUnder(api, "auth"))
    BY DropHides DEF t6
  <2> QED BY <1>2, <1>13, <2>1, <2>2, <2>3, EntrySees
<1>19. Has(t7, InUnder(api, "env_key")) <=> ~ Has(t7, InUnder(api, "auth"))
  <2>1. source \in DOMAIN t7
    BY PutIs DEF t7
  <2>2. CASE source = InUnder(api, "env_key")
    <3>1. Has(t7, InUnder(api, "env_key"))
      <4>1. source \in Paths
        BY <1>4 DEF Entry, Of, Servers
      <4>2. Above(source, source)
        BY <4>1, PrefixMeans
      <4> QED BY <2>1, <2>2, <4>2 DEF Has
    <3>2. Agree(t7, t6, Entry(api, "auth"))
      BY <1>3, <1>11, <2>2 DEF OnlyEntry
    <3> QED BY <1>2, <1>13, <1>18, <3>1, <3>2, EntrySees
  <2>3. CASE source # InUnder(api, "env_key")
    <3>1. Has(t7, InUnder(api, "auth"))
      BY <1>3, <2>1, <2>3 DEF Has
    <3>2. Agree(t7, t6, Entry(api, "env_key"))
      BY <1>3, <1>11, <2>3 DEF OnlyEntry
    <3> QED BY <1>2, <1>13, <1>18, <3>1, <3>2, EntrySees
  <2> QED BY <2>2, <2>3
<1> HIDE DEF Roles!Base
<1> QED BY <1>1, <1>12, <1>15, <1>16, <1>17, <1>19 DEF RoleLane

RolePath(i) == <<"agents", RoleNames[i], "config_file">>

LEMMA RolePlace ==
    ASSUME NEW i \in DOMAIN RoleNames
    PROVE  /\ RolePath(i) \in Paths /\ RolePath(i) \in Headed({"agents"}) /\ RolePath(i) # <<>>
           /\ RolePath(i)[1] = "agents" /\ RolePath(i)[2] = RoleNames[i] /\ RoleNames[i] \in Key
<1>1. RoleNames[i] \in Key
  BY InterpreterAssumption, ElementOfSeq
<1> DEFINE n == RoleNames[i]
<1>2. n \in Key
  BY <1>1
<1> HIDE DEF n
<1> DEFINE p == <<"agents", n, "config_file">>
<1>3. p \in Paths /\ Len(p) = 3 /\ p[1] = "agents" /\ p[2] = n
  BY <1>2, KeyAssumption DEF Paths
<1>4. p \in Headed({"agents"}) /\ p # <<>>
  <2> HIDE DEF p
  <2>1. Len(p) > 0 /\ p[1] \in {"agents"}
    BY <1>3
  <2>2. p \in Headed({"agents"})
    BY <1>3, <2>1 DEF Headed
  <2>3. p # <<>>
    BY <2>1
  <2> QED BY <2>2, <2>3
<1>5. RolePath(i) = p /\ n = RoleNames[i]
  BY DEF RolePath, n
<1> HIDE DEF p, n
<1> QED BY <1>2, <1>3, <1>4, <1>5

LEMMA RolesNameNothing ==
    ASSUME NEW t \in Template \cup Profile
    PROVE  DOMAIN t \subseteq Paths /\ \A i \in DOMAIN RoleNames : RolePath(i) \in DOMAIN t => t[RolePath(i)] # RoleNames[i]
BY InterpreterAssumption DEF RolePath, Paths, Get

\* What the user wrote names no role of the launcher.
LEMMA RolesWritten ==
    ASSUME NEW t \in Template, NEW o \in Profile
    PROVE  /\ DOMAIN Roles!Written(t, o) \subseteq Paths
           /\ \A i \in DOMAIN RoleNames :
                 RolePath(i) \in DOMAIN Roles!Written(t, o) => Roles!Written(t, o)[RolePath(i)] # RoleNames[i]
<1> DEFINE new == OverlayProfile(t, o, "mcp_servers")
<1>1. Roles!Written(t, o) = new
  BY RolesTrees DEF Roles!Written
<1>2. DOMAIN t \subseteq Paths /\ DOMAIN o \subseteq Paths
  BY RolesNameNothing
<1>3. /\ \A p \in DOMAIN new : p \in DOMAIN o \/ p \in DOMAIN t
      /\ \A p \in DOMAIN new : new[p] = IF p \in DOMAIN o THEN o[p] ELSE t[p]
  BY <1>2, OverlayProfileIs
<1> HIDE DEF new
<1>4. \A i \in DOMAIN RoleNames : RolePath(i) \in DOMAIN new => new[RolePath(i)] # RoleNames[i]
  BY <1>3, RolesNameNothing
<1>5. DOMAIN new \subseteq Paths
  BY <1>2, <1>3
<1> QED BY <1>1, <1>4, <1>5

LEMMA RoleLaneStays ==
    ASSUME NEW api \in Roles!WireApi, NEW t, NEW u, DOMAIN t \subseteq Paths, DOMAIN u \subseteq Paths,
           Agree(t, u, Of(api)), RoleLane(u, api)
    PROVE  RoleLane(t, api)
<1>1. /\ InUnder(api, "base_url") \in Of(api) /\ InUnder(api, "wire_api") \in Of(api)
      /\ InUnder(api, "env_key") \in Of(api) /\ InUnder(api, "auth") \in Of(api)
      /\ InUnder(api, "requires_openai_auth") \in Of(api)
  BY InUnderIs, KeyAssumption
<1>2. \A p \in Of(api) : (Has(t, p) <=> Has(u, p)) /\ Get(t, p) = Get(u, p)
  BY AgreeSeesServers DEF Of
<1> QED BY <1>1, <1>2 DEF RoleLane

LEMMA HeadedOf ==
    ASSUME NEW api, NEW t, NEW u, Agree(t, u, Headed({"model_providers"}))
    PROVE  Agree(t, u, Of(api))
<1>1. \A p \in Of(api) : p \in Headed({"model_providers"})
  BY DEF Of, Servers, Headed
<1> QED BY <1>1 DEF Agree

\* The three providers, and nothing else.
LEMMA RoleProvidersAre ==
    ASSUME NEW t, DOMAIN t \subseteq Paths, NEW auth \in RoleAuth
    PROVE  LET new == Roles!WithProviders(t, auth)
           IN  /\ DOMAIN new \subseteq Paths
               /\ \A api \in Roles!WireApi : RoleLane(new, api)
               /\ \A keys : "model_providers" \notin keys => Agree(new, t, Headed(keys))
<1> DEFINE t1 == Roles!WithProvider(t, "responses", auth)
           t2 == Roles!WithProvider(t1, "chat", auth)
           t3 == Roles!WithProvider(t2, "messages", auth)
<1>1. Roles!WithProviders(t, auth) = t3
  BY DEF Roles!WithProviders
<1>2. "responses" \in Roles!WireApi /\ "chat" \in Roles!WireApi /\ "messages" \in Roles!WireApi
  BY DEF Roles!WireApi
<1>3. Beside(t1, t, "responses") /\ RoleLane(t1, "responses")
  BY <1>2, RoleProviderIs
<1> HIDE DEF t1
<1>4. Beside(t2, t1, "chat") /\ RoleLane(t2, "chat")
  BY <1>2, <1>3, RoleProviderIs DEF Beside
<1> HIDE DEF t2
<1>5. Beside(t3, t2, "messages") /\ RoleLane(t3, "messages")
  BY <1>2, <1>4, RoleProviderIs DEF Beside
<1> HIDE DEF t3
<1>6. DOMAIN t1 \subseteq Paths /\ DOMAIN t2 \subseteq Paths /\ DOMAIN t3 \subseteq Paths
  BY <1>3, <1>4, <1>5 DEF Beside
<1>7. RoleLane(t3, "responses")
  <2>1. Agree(t2, t1, Of("responses")) /\ Agree(t3, t2, Of("responses"))
    BY <1>2, <1>4, <1>5 DEF Beside
  <2>2. Agree(t3, t1, Of("responses"))
    BY <2>1, AgreeTrans
  <2> QED BY <1>2, <1>3, <1>6, <2>2, RoleLaneStays
<1>8. RoleLane(t3, "chat")
  <2>1. Agree(t3, t2, Of("chat"))
    BY <1>2, <1>5 DEF Beside
  <2> QED BY <1>2, <1>4, <1>6, <2>1, RoleLaneStays
<1>9. \A api \in Roles!WireApi : api \in {"responses", "chat", "messages"}
  BY DEF Roles!WireApi
<1>10. \A api \in Roles!WireApi : RoleLane(t3, api)
  BY <1>5, <1>7, <1>8, <1>9
<1>11. \A keys : "model_providers" \notin keys => Agree(t3, t, Headed(keys))
  <2> SUFFICES ASSUME NEW keys, "model_providers" \notin keys PROVE Agree(t3, t, Headed(keys))
    OBVIOUS
  <2>1. Agree(t1, t, Headed(keys)) /\ Agree(t2, t1, Headed(keys)) /\ Agree(t3, t2, Headed(keys))
    BY <1>3, <1>4, <1>5 DEF Beside
  <2> QED BY <2>1, AgreeTrans
<1> QED BY <1>1, <1>6, <1>10, <1>11

LEMMA OneKey == ASSUME NEW k \in Key PROVE <<k>> \in Paths /\ <<k>> # <<>> /\ <<k>>[1] = k
BY DEF Paths

LEMMA RoleHarnessKeeps ==
    ASSUME NEW t, DOMAIN t \subseteq Paths, NEW harness
    PROVE  LET new == Roles!WithHarness(t, harness)
           IN  /\ DOMAIN new \subseteq Paths
               /\ \A keys : keys \cap {"harness", "harness_guidance"} = {} => Agree(new, t, Headed(keys))
<1> DEFINE h == <<"harness">>
           g == <<"harness_guidance">>
           t1 == Drop(t, h)
           t2 == Drop(t1, g)
           t3 == Put(t2, h, harness)
           new == Roles!WithHarness(t, harness)
<1>1. new = t2 \/ new = t3
  BY RolesTrees DEF Roles!WithHarness
<1>2. h \in Paths /\ h # <<>> /\ h[1] = "harness" /\ g \in Paths /\ g # <<>> /\ g[1] = "harness_guidance"
  BY KeyAssumption, OneKey
<1> HIDE DEF h, g
<1>3. DOMAIN t1 \subseteq Paths /\ \A keys : "harness" \notin keys => Agree(t1, t, Headed(keys))
  BY <1>2, StepKeeps
<1> HIDE DEF t1
<1>4. DOMAIN t2 \subseteq Paths /\ \A keys : "harness_guidance" \notin keys => Agree(t2, t1, Headed(keys))
  BY <1>2, <1>3, StepKeeps
<1> HIDE DEF t2
<1>5. DOMAIN t3 \subseteq Paths /\ \A keys : "harness" \notin keys => Agree(t3, t2, Headed(keys))
  BY <1>2, <1>4, StepKeeps
<1> HIDE DEF t3, new
<1>6. \A keys : keys \cap {"harness", "harness_guidance"} = {} => Agree(new, t, Headed(keys))
  <2> SUFFICES ASSUME NEW keys, keys \cap {"harness", "harness_guidance"} = {} PROVE Agree(new, t, Headed(keys))
    OBVIOUS
  <2>1. Agree(t1, t, Headed(keys)) /\ Agree(t2, t1, Headed(keys)) /\ Agree(t3, t2, Headed(keys))
    BY <1>3, <1>4, <1>5
  <2> QED BY <1>1, <2>1, AgreeTrans
<1> QED BY <1>1, <1>4, <1>5, <1>6 DEF new

\* The paths of the roles a launch writes are below "agents".
LEMMA WithRolesIs ==
    ASSUME NEW t, DOMAIN t \subseteq Paths, NEW a, DOMAIN a.selected \subseteq DOMAIN RoleNames
    PROVE  LET new == Roles!WithRoles(t, a)
           IN  /\ DOMAIN new \subseteq Paths
               /\ \A keys : "agents" \notin keys => Agree(new, t, Headed(keys))
               /\ \A i \in DOMAIN RoleNames : RolePath(i) \in DOMAIN new =>
                     i \in DOMAIN a.selected \/ (RolePath(i) \in DOMAIN t /\ new[RolePath(i)] = t[RolePath(i)])
<1> DEFINE o == [p \in {RolePath(i) : i \in DOMAIN a.selected} |-> p[2]]
           new == Roles!WithRoles(t, a)
<1>1. new = Overlay(t, o)
  BY RolesTrees DEF Roles!WithRoles, RolePath
<1>2. \A p \in DOMAIN o : \E i \in DOMAIN a.selected : p = RolePath(i)
  OBVIOUS
<1> HIDE DEF o, new
<1>3. \A q \in DOMAIN o : q \in Paths /\ q # <<>> /\ q[1] = "agents"
  BY <1>2, RolePlace
<1>4. \A keys : "agents" \notin keys => Agree(new, t, Headed(keys))
  <2> SUFFICES ASSUME NEW keys, "agents" \notin keys PROVE Agree(new, t, Headed(keys))
    OBVIOUS
  <2>1. \A q \in DOMAIN o : q \in Paths /\ q # <<>> /\ q \notin Headed(keys)
    BY <1>3 DEF Headed
  <2> QED BY <1>1, <2>1, OverlayElsewhere
<1>5. DOMAIN new \subseteq Paths
  BY <1>1, <1>3, TreesStayTrees
<1>6. ASSUME NEW i \in DOMAIN RoleNames, RolePath(i) \in DOMAIN new
      PROVE  i \in DOMAIN a.selected \/ (RolePath(i) \in DOMAIN t /\ new[RolePath(i)] = t[RolePath(i)])
  <2>1. CASE RolePath(i) \in DOMAIN o
    <3>1. PICK j \in DOMAIN a.selected : RolePath(i) = RolePath(j)
      BY <1>2, <2>1
    <3>2. RoleNames[i] = RoleNames[j]
      <4>1. RolePath(i)[2] = RoleNames[i] /\ RolePath(j)[2] = RoleNames[j]
        BY RolePlace
      <4> QED BY <3>1, <4>1
    <3> QED BY <3>1, <3>2, InterpreterAssumption
  <2>2. CASE RolePath(i) \notin DOMAIN o
    BY <1>1, <1>6, <2>2, OverlayIs
  <2> QED BY <2>1, <2>2
<1> QED BY <1>4, <1>5, <1>6 DEF new

AskedRole(a) ==
    /\ a.wire \in Roles!WireApi /\ a.auth \in RoleAuth
    /\ DOMAIN a.selected \subseteq DOMAIN RoleNames

\* What a configuration must be.
RolesConfig(c) ==
    /\ DOMAIN c \subseteq Paths
    /\ \E api \in Roles!WireApi : Get(c, <<"model_provider">>) = Roles!Provider[api]
    /\ \A api \in Roles!WireApi : RoleLane(c, api)

\* One whose catalogue and roles are those of a launch.
PointsTo(c, a) ==
    /\ Get(c, <<"model_catalog_json">>) = "generated" => Roles!Listed(a) # <<>>
    /\ \A i \in DOMAIN RoleNames : Get(c, RolePath(i)) = RoleNames[i] => i \in DOMAIN a.selected

LEMMA RolesConfigIs ==
    ASSUME NEW t, DOMAIN t \subseteq Paths, NEW a, AskedRole(a),
           \A i \in DOMAIN RoleNames : RolePath(i) \in DOMAIN t => t[RolePath(i)] # RoleNames[i]
    PROVE  RolesConfig(Roles!Config(t, a)) /\ PointsTo(Roles!Config(t, a), a)
<1> DEFINE m == IF a.model = None THEN t ELSE Put(t, <<"model">>, a.model)
           p == Put(m, <<"model_provider">>, Roles!Provider[a.wire])
           h == Roles!WithHarness(p, a.harness)
           s == Roles!WithProviders(h, a.auth)
           g == Roles!WithCatalog(s, a)
           c == Roles!WithRoles(g, a)
<1>1. Roles!Config(t, a) = c
  BY RolesTrees DEF Roles!Config
<1>2. DOMAIN m \subseteq Paths /\ \A keys : "model" \notin keys => Agree(m, t, Headed(keys))
  <2> DEFINE k == <<"model">>
  <2>1. k \in Paths /\ k # <<>> /\ k[1] = "model"
    BY KeyAssumption, OneKey
  <2> HIDE DEF k
  <2>2. \A v : DOMAIN Put(t, k, v) \subseteq Paths
             /\ \A keys : "model" \notin keys => Agree(Put(t, k, v), t, Headed(keys))
    BY <2>1, StepKeeps
  <2>3. CASE a.model = None
    BY <2>3 DEF Agree
  <2>4. CASE a.model # None
    BY <2>2, <2>4 DEF k
  <2> QED BY <2>3, <2>4
<1> HIDE DEF m
<1>3. DOMAIN p \subseteq Paths /\ \A keys : "model_provider" \notin keys => Agree(p, m, Headed(keys))
  <2> DEFINE k == <<"model_provider">>
             v == Roles!Provider[a.wire]
  <2>1. k \in Paths /\ k # <<>> /\ k[1] = "model_provider"
    BY KeyAssumption, OneKey
  <2> HIDE DEF k, v
  <2>2. DOMAIN Put(m, k, v) \subseteq Paths
        /\ \A keys : "model_provider" \notin keys => Agree(Put(m, k, v), m, Headed(keys))
    BY <1>2, <2>1, StepKeeps
  <2>3. p = Put(m, k, v)
    BY DEF k, v
  <2> HIDE DEF p
  <2> QED BY <2>2, <2>3
<1>4. Get(p, <<"model_provider">>) = Roles!Provider[a.wire]
  BY PutShows
<1> HIDE DEF p
<1>5. DOMAIN h \subseteq Paths
      /\ \A keys : keys \cap {"harness", "harness_guidance"} = {} => Agree(h, p, Headed(keys))
  BY <1>3, RoleHarnessKeeps
<1> HIDE DEF h
<1>6. /\ DOMAIN s \subseteq Paths /\ \A api \in Roles!WireApi : RoleLane(s, api)
      /\ \A keys : "model_providers" \notin keys => Agree(s, h, Headed(keys))
  BY <1>5, RoleProvidersAre DEF AskedRole
<1> HIDE DEF s
<1>7. g = IF Roles!Listed(a) = <<>> THEN Drop(s, <<"model_catalog_json">>)
          ELSE Put(s, <<"model_catalog_json">>, "generated")
  BY RolesTrees DEF Roles!WithCatalog
<1>8. DOMAIN g \subseteq Paths /\ \A keys : "model_catalog_json" \notin keys => Agree(g, s, Headed(keys))
  <2> HIDE DEF g
  <2> DEFINE k == <<"model_catalog_json">>
  <2>1. k \in Paths /\ k # <<>> /\ k[1] = "model_catalog_json"
    BY KeyAssumption, OneKey
  <2>2. g = Drop(s, k) \/ g = Put(s, k, "generated")
    BY <1>7
  <2> HIDE DEF k
  <2>3. /\ DOMAIN Put(s, k, "generated") \subseteq Paths /\ DOMAIN Drop(s, k) \subseteq Paths
        /\ \A keys : "model_catalog_json" \notin keys =>
              Agree(Put(s, k, "generated"), s, Headed(keys)) /\ Agree(Drop(s, k), s, Headed(keys))
    BY <1>6, <2>1, StepKeeps
  <2> QED BY <2>2, <2>3
<1>9. Get(g, <<"model_catalog_json">>) = "generated" => Roles!Listed(a) # <<>>
  <2>1. Roles!Listed(a) = <<>> => ~ Has(g, <<"model_catalog_json">>)
    BY <1>7, DropHides
  <2>2. <<"model_catalog_json">> \in DOMAIN g => Has(g, <<"model_catalog_json">>)
    <3>1. <<"model_catalog_json">> \in Paths
      BY KeyAssumption, OneKey
    <3> DEFINE k == <<"model_catalog_json">>
    <3>2. k \in Paths
      BY <3>1
    <3> HIDE DEF k
    <3>3. k \in DOMAIN g => Has(g, k)
      BY <3>2, PrefixMeans DEF Has
    <3> QED BY <3>3 DEF k
  <2>3. None # "generated"
    BY KeyAssumption
  <2> QED BY <2>1, <2>2, <2>3 DEF Get
<1> HIDE DEF g
<1>10. /\ DOMAIN c \subseteq Paths /\ \A keys : "agents" \notin keys => Agree(c, g, Headed(keys))
       /\ \A i \in DOMAIN RoleNames : RolePath(i) \in DOMAIN c =>
             i \in DOMAIN a.selected \/ (RolePath(i) \in DOMAIN g /\ c[RolePath(i)] = g[RolePath(i)])
  BY <1>8, WithRolesIs DEF AskedRole
<1> HIDE DEF c
<1>11. Get(c, <<"model_provider">>) = Roles!Provider[a.wire]
  <2>1. /\ Agree(h, p, Headed({"model_provider"})) /\ Agree(s, h, Headed({"model_provider"}))
        /\ Agree(g, s, Headed({"model_provider"})) /\ Agree(c, g, Headed({"model_provider"}))
    <3>1. {"model_provider"} \cap {"harness", "harness_guidance"} = {}
      OBVIOUS
    <3> QED BY <1>5, <1>6, <1>8, <1>10, <3>1
  <2>2. <<"model_provider">> \in Headed({"model_provider"})
    BY KeyAssumption DEF Headed, Paths
  <2> QED BY <1>3, <1>4, <1>5, <1>6, <1>8, <1>10, <2>1, <2>2, AgreeSees
<1>12. ASSUME NEW api \in Roles!WireApi PROVE RoleLane(c, api)
  <2>1. Agree(g, s, Headed({"model_providers"})) /\ Agree(c, g, Headed({"model_providers"}))
    BY <1>8, <1>10
  <2>2. Agree(g, s, Of(api)) /\ Agree(c, g, Of(api))
    BY <2>1, HeadedOf
  <2> QED BY <1>6, <1>8, <1>10, <2>2, RoleLaneStays
<1>13. Get(c, <<"model_catalog_json">>) = "generated" => Roles!Listed(a) # <<>>
  <2>1. <<"model_catalog_json">> \in Headed({"model_catalog_json"})
    BY KeyAssumption DEF Headed, Paths
  <2>2. Agree(c, g, Headed({"model_catalog_json"}))
    BY <1>10
  <2>3. Get(c, <<"model_catalog_json">>) = Get(g, <<"model_catalog_json">>)
    BY <1>8, <1>10, <2>1, <2>2, AgreeSees
  <2> QED BY <1>9, <2>3
<1>14. ASSUME NEW i \in DOMAIN RoleNames, Get(c, RolePath(i)) = RoleNames[i] PROVE i \in DOMAIN a.selected
  <2>1. RolePath(i) \in Headed({"agents"}) /\ RoleNames[i] # None
    BY RolePlace, KeyAssumption
  <2>2. RolePath(i) \in DOMAIN c /\ c[RolePath(i)] = RoleNames[i]
    BY <1>14, <2>1 DEF Get
  <2>3. /\ Agree(m, t, Headed({"agents"})) /\ Agree(p, m, Headed({"agents"})) /\ Agree(h, p, Headed({"agents"}))
        /\ Agree(s, h, Headed({"agents"})) /\ Agree(g, s, Headed({"agents"}))
    <3>1. {"agents"} \cap {"harness", "harness_guidance"} = {}
      OBVIOUS
    <3> QED BY <1>2, <1>3, <1>5, <1>6, <1>8, <3>1
  <2>4. Agree(g, t, Headed({"agents"}))
    BY <2>3, AgreeTrans
  <2>5. RolePath(i) \in DOMAIN g => RolePath(i) \in DOMAIN t /\ g[RolePath(i)] = t[RolePath(i)]
    BY <2>1, <2>4 DEF Agree
  <2> QED BY <1>10, <2>2, <2>5
<1>15. a.wire \in Roles!WireApi
  BY DEF AskedRole
<1> QED BY <1>1, <1>10, <1>11, <1>12, <1>13, <1>14, <1>15 DEF RolesConfig, PointsTo

Role == [model : Key, wire : Roles!WireApi, harness : Key \cup {None}]

LEMMA RoleAsked ==
    ASSUME NEW a \in InterpreterAsk
    PROVE  /\ a.wire \in Roles!WireApi /\ a.auth \in RoleAuth \cup {"OpenAiAuth"}
           /\ a.model \in Key \cup {None} /\ a.subagent \in Key \cup {None}
           /\ a.selected \in Seq(Role) /\ Len(a.selected) <= Len(RoleNames)
           /\ DOMAIN a.selected \subseteq DOMAIN RoleNames /\ RoleNames \in Seq(Key)
           /\ DOMAIN a.selected = 1 .. Len(a.selected) /\ DOMAIN RoleNames = 1 .. Len(RoleNames)
<1>1. /\ a.wire \in Roles!WireApi /\ a.auth \in RoleAuth \cup {"OpenAiAuth"}
      /\ a.model \in Key \cup {None} /\ a.subagent \in Key \cup {None}
      /\ a.selected \in Seq(Role) /\ Len(a.selected) <= Len(RoleNames) /\ RoleNames \in Seq(Key)
  BY InterpreterAssumption DEF Role, Roles!WireApi, RoleAuth
<1>2. DOMAIN a.selected = 1 .. Len(a.selected) /\ DOMAIN RoleNames = 1 .. Len(RoleNames)
      /\ Len(a.selected) \in Nat /\ Len(RoleNames) \in Nat
  BY <1>1
<1> QED BY <1>1, <1>2

LEMMA RemoveAtIs ==
    ASSUME NEW S, NEW s \in Seq(S), NEW i \in 1 .. Len(s)
    PROVE  /\ Roles!Without(s, i) \in Seq(S) /\ Len(Roles!Without(s, i)) = Len(s) - 1
           /\ \A j \in 1 .. Len(s) - 1 : Roles!Without(s, i)[j] = IF j < i THEN s[j] ELSE s[j + 1]
<1> DEFINE x == SubSeq(s, 1, i - 1)
           y == SubSeq(s, i + 1, Len(s))
<1>1. Len(s) \in Nat /\ i \in Nat /\ i >= 1 /\ i <= Len(s)
  OBVIOUS
<1>2. x \in Seq(S) /\ Len(x) = i - 1 /\ \A j \in 1 .. i - 1 : x[j] = s[j]
  BY <1>1
<1>3. y \in Seq(S) /\ Len(y) = Len(s) - i /\ \A j \in 1 .. Len(s) - i : y[j] = s[i + j]
  BY <1>1
<1> HIDE DEF x, y
<1>4. /\ x \o y \in Seq(S) /\ Len(x \o y) = Len(x) + Len(y)
      /\ \A j \in 1 .. Len(x) + Len(y) : (x \o y)[j] = IF j <= Len(x) THEN x[j] ELSE y[j - Len(x)]
  BY <1>2, <1>3, ConcatProperties
<1>5. ASSUME NEW j \in 1 .. Len(s) - 1 PROVE (x \o y)[j] = IF j < i THEN s[j] ELSE s[j + 1]
  <2>1. j \in 1 .. Len(x) + Len(y)
    BY <1>1, <1>2, <1>3
  <2>2. CASE j < i
    BY <1>1, <1>2, <1>4, <2>1, <2>2
  <2>3. CASE ~ (j < i)
    <3>1. j - Len(x) \in 1 .. Len(s) - i /\ i + (j - Len(x)) = j + 1 /\ ~ (j <= Len(x))
      BY <1>1, <1>2, <2>3
    <3> QED BY <1>3, <1>4, <2>1, <2>3, <3>1
  <2> QED BY <2>2, <2>3
<1>6. Roles!Without(s, i) = x \o y
  BY DEF Roles!Without, x, y
<1> DEFINE r == x \o y
<1>7. r \in Seq(S) /\ Len(r) = Len(s) - 1
  BY <1>1, <1>2, <1>3, <1>4
<1>8. \A j \in 1 .. Len(s) - 1 : r[j] = IF j < i THEN s[j] ELSE s[j + 1]
  BY <1>5
<1> HIDE DEF r
<1>9. Roles!Without(s, i) = r
  BY <1>6 DEF r
<1> QED BY <1>7, <1>8, <1>9

\* Roles in their order are those that were selected.
IsOrdered(o, a) ==
    /\ o \in Seq(Role) /\ Len(o) = Len(a.selected)
    /\ \A i \in 1 .. Len(a.selected) : \E j \in 1 .. Len(o) : o[j] = a.selected[i]
    /\ a.subagent \in Roles!Range(Roles!Models(a)) => Len(o) > 0 /\ o[1].model = a.subagent

LEMMA OrderedIs ==
    ASSUME NEW a \in InterpreterAsk PROVE IsOrdered(Roles!Ordered(a), a)
<1> DEFINE s == a.selected
           I == {i \in 1 .. Len(s) : s[i].model = a.subagent}
           first == Least(I)
           rest == Roles!Without(s, first)
           o == Roles!Ordered(a)
<1>1. s \in Seq(Role) /\ DOMAIN s = 1 .. Len(s) /\ Len(s) \in Nat
  BY RoleAsked
<1>2. a.subagent \in Roles!Range(Roles!Models(a)) <=> I # {}
  BY <1>1 DEF Roles!Range, Roles!Models
<1>3. a.subagent = None => I = {}
  <2>1. \A i \in 1 .. Len(s) : s[i].model \in Key
    <3> HIDE DEF s
    <3>1. \A i \in 1 .. Len(s) : s[i] \in Role
      BY <1>1, ElementOfSeq
    <3> QED BY <3>1 DEF Role
  <2> QED BY <2>1, KeyAssumption
<1>4. I # {} => first \in 1 .. Len(s) /\ s[first].model = a.subagent
  <2>1. I \in SUBSET Nat
    OBVIOUS
  <2> HIDE DEF I
  <2>2. I # {} => first \in I
    BY <2>1, MinIsFirst
  <2> QED BY <2>2 DEF I
<1>5. o = IF I = {} THEN s ELSE <<s[first]>> \o rest
  <2>1. Roles!FirstWhere(s, LAMBDA x : x.model = a.subagent) = IF I = {} THEN 0 ELSE first
    BY DEF Roles!FirstWhere, Roles!Least, Least
  <2> HIDE DEF I, first, rest
  <2>2. I # {} => first # 0
    BY <1>4
  <2> QED BY <1>3, <2>1, <2>2 DEF Roles!Ordered, rest
<1> HIDE DEF I, first, o, s
<1>6. CASE I = {}
  <2>1. o = s /\ o \in Seq(Role) /\ Len(o) = Len(s)
    BY <1>1, <1>5, <1>6
  <2>2. \A i \in 1 .. Len(s) : \E j \in 1 .. Len(o) : o[j] = s[i]
    BY <2>1
  <2> QED BY <1>2, <1>6, <2>1, <2>2 DEF IsOrdered, s, o
<1>7. CASE I # {}
  <2>1. /\ rest \in Seq(Role) /\ Len(rest) = Len(s) - 1
        /\ \A j \in 1 .. Len(s) - 1 : rest[j] = IF j < first THEN s[j] ELSE s[j + 1]
    BY <1>1, <1>4, <1>7, RemoveAtIs
  <2> HIDE DEF rest
  <2>2. s[first] \in Role
    BY <1>1, <1>4, <1>7, ElementOfSeq
  <2> DEFINE h == <<s[first]>>
  <2>3. h \in Seq(Role) /\ Len(h) = 1 /\ h[1] = s[first]
    BY <2>2
  <2> HIDE DEF h
  <2>4. /\ h \o rest \in Seq(Role) /\ Len(h \o rest) = Len(s)
        /\ (h \o rest)[1] = s[first]
        /\ \A j \in 2 .. Len(s) : (h \o rest)[j] = rest[j - 1]
    <3>1. /\ h \o rest \in Seq(Role) /\ Len(h \o rest) = Len(h) + Len(rest)
          /\ \A j \in 1 .. Len(h) + Len(rest) : (h \o rest)[j] = IF j <= Len(h) THEN h[j] ELSE rest[j - Len(h)]
      BY <2>1, <2>3, ConcatProperties
    <3>2. Len(h \o rest) = Len(s) /\ 1 \in 1 .. Len(h) + Len(rest)
      BY <1>1, <1>4, <1>7, <2>1, <2>3, <3>1
    <3>3. ASSUME NEW j \in 2 .. Len(s) PROVE (h \o rest)[j] = rest[j - 1]
      <4>1. j \in 1 .. Len(h) + Len(rest) /\ ~ (j <= Len(h)) /\ j - Len(h) = j - 1
        BY <1>1, <2>1, <2>3
      <4> QED BY <3>1, <4>1
    <3>4. (h \o rest)[1] = s[first]
      BY <2>3, <3>1, <3>2
    <3> QED BY <3>1, <3>2, <3>3, <3>4
  <2>5. o = h \o rest
    BY <1>5, <1>7 DEF h
  <2>6. ASSUME NEW i \in 1 .. Len(s) PROVE \E j \in 1 .. Len(s) : (h \o rest)[j] = s[i]
    <3>1. CASE i = first
      BY <1>1, <1>4, <1>7, <2>4, <3>1
    <3>2. CASE i < first
      <4>1. i \in 1 .. Len(s) - 1 /\ i + 1 \in 2 .. Len(s) /\ (i + 1) - 1 = i /\ i + 1 \in 1 .. Len(s)
        BY <1>1, <1>4, <1>7, <3>2
      <4>2. rest[i] = s[i]
        BY <2>1, <3>2, <4>1
      <4>3. (h \o rest)[i + 1] = rest[i]
        BY <2>4, <4>1
      <4> QED BY <4>1, <4>2, <4>3
    <3>3. CASE i > first
      <4>1. i - 1 \in 1 .. Len(s) - 1 /\ ~ (i - 1 < first) /\ (i - 1) + 1 = i /\ i \in 2 .. Len(s)
        BY <1>1, <1>4, <1>7, <3>3
      <4>2. rest[i - 1] = s[i]
        BY <2>1, <4>1
      <4>3. (h \o rest)[i] = rest[i - 1]
        BY <2>4, <4>1
      <4> QED BY <4>2, <4>3
    <3>4. i = first \/ i < first \/ i > first
      BY <1>1, <1>4, <1>7
    <3> QED BY <3>1, <3>2, <3>3, <3>4
  <2>7. Len(s) > 0 /\ s[first].model = a.subagent
    BY <1>1, <1>4, <1>7
  <2> QED BY <2>4, <2>5, <2>6, <2>7 DEF IsOrdered, s, o
<1> QED BY <1>6, <1>7

LEMMA FitIs ==
    ASSUME NEW a \in InterpreterAsk
    PROVE  /\ Roles!Fit(a) \in 0 .. Len(a.selected)
           /\ \A i \in 1 .. Roles!Fit(a) :
                 Roles!Compatible(Roles!Ordered(a)[i].harness, Roles!Ordered(a)[i].wire)
<1> DEFINE o == Roles!Ordered(a)
           I == {i \in 1 .. Len(o) : ~ Roles!Compatible(o[i].harness, o[i].wire)}
           bad == Least(I)
<1>1. o \in Seq(Role) /\ Len(o) = Len(a.selected) /\ Len(o) \in Nat
  BY OrderedIs, RoleAsked DEF IsOrdered
<1>2. Roles!Fit(a) = IF I = {} THEN Len(o)
                     ELSE IF bad = 0 THEN Len(o) ELSE bad - 1
  <2>1. Roles!FirstWhere(o, LAMBDA s : ~ Roles!Compatible(s.harness, s.wire)) = IF I = {} THEN 0 ELSE bad
    BY DEF Roles!FirstWhere, Roles!Least, Least
  <2> HIDE DEF I, bad
  <2> QED BY <1>1, <2>1 DEF Roles!Fit
<1> HIDE DEF o
<1>3. I # {} => bad \in I /\ \A m \in I : bad <= m
  <2>1. I \in SUBSET Nat
    OBVIOUS
  <2> HIDE DEF I
  <2> QED BY <2>1, MinIsFirst
<1>4. CASE I = {}
  BY <1>1, <1>2, <1>4 DEF o
<1>5. CASE I # {}
  <2>1. bad \in 1 .. Len(o) /\ \A m \in I : bad <= m
    BY <1>3, <1>5
  <2> HIDE DEF bad
  <2>2. Roles!Fit(a) = bad - 1 /\ bad - 1 \in 0 .. Len(o)
    BY <1>1, <1>2, <1>5, <2>1
  <2>3. ASSUME NEW i \in 1 .. bad - 1 PROVE Roles!Compatible(o[i].harness, o[i].wire)
    <3>1. i \in 1 .. Len(o) /\ ~ (bad <= i)
      BY <1>1, <2>1
    <3> QED BY <2>1, <3>1
  <2> QED BY <1>1, <2>2, <2>3 DEF o
<1> QED BY <1>4, <1>5

LEMMA ListedIs ==
    ASSUME NEW a \in InterpreterAsk, a.model # None
    PROVE  Roles!Listed(a) # <<>> /\ a.model \in Roles!Range(Roles!Listed(a))
<1> DEFINE s == a.selected
           m == Roles!Models(a)
<1>1. s \in Seq(Role) /\ DOMAIN s = 1 .. Len(s) /\ Len(s) \in Nat /\ a.model \in Key
  BY RoleAsked
<1>2. m \in Seq(Key) /\ Len(m) = Len(s)
  <2>1. m = [i \in 1 .. Len(s) |-> s[i].model]
    BY <1>1 DEF Roles!Models
  <2>2. \A i \in 1 .. Len(s) : s[i].model \in Key
    <3> HIDE DEF s
    <3>1. \A i \in 1 .. Len(s) : s[i] \in Role
      BY <1>1, ElementOfSeq
    <3> QED BY <3>1 DEF Role
  <2> QED BY <1>1, <2>1, <2>2
<1> HIDE DEF m
<1>3. Roles!Listed(a) = IF a.model \in Roles!Range(m) THEN m ELSE <<a.model>> \o m
  BY DEF Roles!Listed, m
<1>4. CASE a.model \in Roles!Range(m)
  <2>1. Roles!Listed(a) = m
    BY <1>3, <1>4
  <2>2. m # <<>>
    BY <1>2, <1>4 DEF Roles!Range
  <2> QED BY <1>4, <2>1, <2>2
<1>5. CASE ~ a.model \in Roles!Range(m)
  <2> DEFINE h == <<a.model>>
             l == h \o m
  <2>1. h \in Seq(Key) /\ Len(h) = 1 /\ h[1] = a.model
    BY <1>1
  <2>2. Roles!Listed(a) = l
    BY <1>3, <1>5
  <2> HIDE DEF h
  <2>3. /\ l \in Seq(Key) /\ Len(l) = Len(h) + Len(m)
        /\ \A j \in 1 .. Len(h) + Len(m) : l[j] = IF j <= Len(h) THEN h[j] ELSE m[j - Len(h)]
    BY <1>2, <2>1, ConcatProperties
  <2> HIDE DEF l
  <2>4. Len(l) > 0 /\ 1 \in 1 .. Len(l) /\ l[1] = a.model
    BY <1>1, <1>2, <2>1, <2>3
  <2>5. l # <<>> /\ a.model \in Roles!Range(l)
    BY <2>3, <2>4 DEF Roles!Range
  <2> QED BY <2>2, <2>5
<1> QED BY <1>4, <1>5

\* Roles can be run, and a configuration that the launcher has written points to
\* its providers, to roles that are there and to a catalogue that is.
RolesInv ==
    /\ config = Roles!Empty \/ RolesConfig(config)
    /\ \A r \in DOMAIN roles :
          roles[r].wire \in Roles!WireApi /\ Roles!Compatible(roles[r].harness, roles[r].wire)
    /\ \A i \in DOMAIN RoleNames : Get(config, RolePath(i)) = RoleNames[i] => RoleNames[i] \in DOMAIN roles
    /\ Get(config, <<"model_catalog_json">>) = "generated" => catalog # <<>>

LEMMA RolesBegin == Roles!Init => RolesInv /\ Roles!AskedIsThere
<1> SUFFICES ASSUME Roles!Init PROVE RolesInv /\ Roles!AskedIsThere
  OBVIOUS
<1>1. config = Roles!Empty /\ DOMAIN config = {} /\ DOMAIN roles = {} /\ ok = FALSE
  BY DEF Roles!Init, Roles!Empty
<1>2. \A p : Get(config, p) = None
  BY <1>1 DEF Get
<1>3. \A i \in DOMAIN RoleNames : RoleNames[i] # None
  BY RolePlace, KeyAssumption
<1>4. "generated" # None
  BY KeyAssumption
<1> QED BY <1>1, <1>2, <1>3, <1>4 DEF RolesInv, Roles!AskedIsThere

LEMMA RolesFenced == RolesInv => Roles!EverythingIsFenced
<1> SUFFICES ASSUME RolesInv, config # Roles!Empty PROVE Roles!EverythingIsFenced
  BY DEF Roles!EverythingIsFenced
<1>1. RolesConfig(config)
  BY DEF RolesInv
<1>2. \E api \in Roles!WireApi : Roles!Get(config, <<"model_provider">>) = Roles!Provider[api]
  BY <1>1, RolesTrees DEF RolesConfig
<1>3. ASSUME NEW api \in Roles!WireApi
      PROVE  /\ Roles!Get(config, Roles!Under(api) \o <<"base_url">>) = Roles!Base(api)
             /\ Roles!Get(config, Roles!Under(api) \o <<"wire_api">>) = api
             /\ ~ Roles!Has(config, Roles!Under(api) \o <<"requires_openai_auth">>)
             /\ Roles!Has(config, Roles!Under(api) \o <<"env_key">>)
                   <=> ~ Roles!Has(config, Roles!Under(api) \o <<"auth">>)
  <2>1. RoleLane(config, api)
    BY <1>1 DEF RolesConfig
  <2> HIDE DEF Roles!Base, Roles!Under
  <2>2. /\ \A x : Roles!Get(config, Roles!Under(api) \o <<x>>) = Get(config, InUnder(api, x))
        /\ \A x : Roles!Has(config, Roles!Under(api) \o <<x>>) <=> Has(config, InUnder(api, x))
    BY RolesTrees DEF InUnder
  <2> QED BY <2>1, <2>2 DEF RoleLane
<1> QED BY <1>2, <1>3 DEF Roles!EverythingIsFenced

LEMMA RolesRun == RolesInv => Roles!RolesCanRun
<1> SUFFICES ASSUME RolesInv PROVE Roles!RolesCanRun
  OBVIOUS
<1>1. \A p : Roles!Get(config, p) = Get(config, p)
  BY RolesTrees
<1>2. \A i \in DOMAIN RoleNames : Roles!Get(config, <<"agents", RoleNames[i], "config_file">>) = Get(config, RolePath(i))
  BY <1>1 DEF RolePath
<1> QED BY <1>1, <1>2 DEF RolesInv, Roles!RolesCanRun

LEMMA RolesGoOn ==
    ASSUME RolesInv, NEW a \in InterpreterAsk, NEW t \in Template, NEW o \in Profile, Roles!Launch(a, t, o)
    PROVE  RolesInv' /\ Roles!AskedIsThere'
<1> DEFINE n == Roles!Fit(a)
           len == Len(a.selected)
           made == Roles!Ordered(a)
           own == [r \in {RoleNames[i] : i \in 1 .. n} |->
                      made[CHOOSE i \in DOMAIN RoleNames : RoleNames[i] = r]]
           conf == Roles!Config(Roles!Written(t, o), a)
           listed == Roles!Listed(a)
<1>1. /\ a.auth # "OpenAiAuth"
      /\ catalog' = IF listed = <<>> THEN catalog ELSE listed
      /\ roles' = Roles!Joined(own, roles)
      /\ config' = IF n = len THEN conf ELSE config
      /\ ok' = (n = len) /\ ask' = a
  BY DEF Roles!Launch
<1>2. /\ a.wire \in Roles!WireApi /\ a.auth \in RoleAuth /\ DOMAIN a.selected \subseteq DOMAIN RoleNames
      /\ DOMAIN a.selected = 1 .. len /\ len \in Nat /\ a.selected \in Seq(Role)
      /\ DOMAIN RoleNames = 1 .. Len(RoleNames) /\ Len(RoleNames) \in Nat
  BY <1>1, RoleAsked
<1>3. /\ n \in 0 .. len /\ \A i \in 1 .. n : Roles!Compatible(made[i].harness, made[i].wire)
  BY FitIs
<1>4. IsOrdered(made, a)
  BY OrderedIs
<1>5. \A i \in 1 .. len : i \in DOMAIN RoleNames
  BY <1>2
<1>6. \A i \in 1 .. n : RoleNames[i] \in DOMAIN own /\ own[RoleNames[i]] = made[i]
  <2> SUFFICES ASSUME NEW i \in 1 .. n PROVE RoleNames[i] \in DOMAIN own /\ own[RoleNames[i]] = made[i]
    OBVIOUS
  <2>1. i \in DOMAIN RoleNames
    BY <1>2, <1>3, <1>5
  <2>2. (CHOOSE j \in DOMAIN RoleNames : RoleNames[j] = RoleNames[i]) = i
    BY <2>1, InterpreterAssumption
  <2> QED BY <2>2
<1>7. \A r \in DOMAIN own : \E i \in 1 .. n : r = RoleNames[i]
  OBVIOUS
<1> HIDE DEF own, made, n, conf, listed
<1>8. /\ DOMAIN roles' = DOMAIN own \cup DOMAIN roles
      /\ \A r \in DOMAIN roles' : roles'[r] = IF r \in DOMAIN own THEN own[r] ELSE roles[r]
  BY <1>1 DEF Roles!Joined
<1>9. \A i \in 1 .. n : made[i] \in Role
  <2>1. \A i \in 1 .. n : i \in 1 .. Len(made) /\ made \in Seq(Role)
    BY <1>2, <1>3, <1>4 DEF IsOrdered
  <2> QED BY <2>1, ElementOfSeq
<1>10. ASSUME NEW r \in DOMAIN roles'
       PROVE  roles'[r].wire \in Roles!WireApi /\ Roles!Compatible(roles'[r].harness, roles'[r].wire)
  <2>1. CASE r \in DOMAIN own
    <3>1. PICK i \in 1 .. n : r = RoleNames[i]
      BY <1>7, <2>1
    <3>2. roles'[r] = made[i]
      BY <1>6, <1>8, <2>1, <3>1
    <3> QED BY <1>3, <1>9, <3>2 DEF Role
  <2>2. CASE r \notin DOMAIN own
    BY <1>8, <2>2 DEF RolesInv
  <2> QED BY <2>1, <2>2
<1>11. n = len => RolesConfig(conf) /\ PointsTo(conf, a)
  BY <1>2, RolesWritten, RolesConfigIs DEF AskedRole, conf
<1>12. config' = Roles!Empty \/ RolesConfig(config')
  BY <1>1, <1>11 DEF RolesInv, Roles!Empty
<1>13. \A i \in DOMAIN RoleNames : Get(config', RolePath(i)) = RoleNames[i] => RoleNames[i] \in DOMAIN roles'
  <2>1. CASE n = len
    <3>1. ASSUME NEW i \in DOMAIN RoleNames, Get(config', RolePath(i)) = RoleNames[i]
          PROVE  RoleNames[i] \in DOMAIN roles'
      <4>1. i \in 1 .. n
        BY <1>1, <1>2, <1>11, <2>1, <3>1 DEF PointsTo
      <4> QED BY <1>6, <1>8, <4>1
    <3> QED BY <3>1
  <2>2. CASE n # len
    BY <1>1, <1>8, <2>2 DEF RolesInv
  <2> QED BY <2>1, <2>2
<1>14. Get(config', <<"model_catalog_json">>) = "generated" => catalog' # <<>>
  BY <1>1, <1>11 DEF RolesInv, PointsTo, listed
<1>15. RolesInv'
  <2>1. \A i : RolePath(i)' = RolePath(i)
    BY DEF RolePath
  <2>2. /\ \A p : Get(config, p)' = Get(config', p)
        /\ RolesConfig(config)' = RolesConfig(config') /\ Roles!Empty' = Roles!Empty
    BY DEF Get, RolesConfig, RoleLane, Has, InUnder, Roles!Empty
  <2> QED BY <1>10, <1>12, <1>13, <1>14 DEF RolesInv
<1>16. ASSUME ok' PROVE /\ a.model # None => a.model \in Roles!Range(catalog')
                        /\ Roles!Range(a.selected) \subseteq {roles'[r] : r \in DOMAIN roles'}
                        /\ a.subagent \in Roles!Range(Roles!Models(a)) => roles'[RoleNames[1]].model = a.subagent
  <2>1. n = len
    BY <1>1, <1>16
  <2>2. a.model # None => a.model \in Roles!Range(catalog')
    BY <1>1, ListedIs DEF listed
  <2>3. \A i \in 1 .. len : RoleNames[i] \in DOMAIN roles' /\ roles'[RoleNames[i]] = made[i]
    BY <1>6, <1>8, <2>1
  <2>4. ASSUME NEW s \in Roles!Range(a.selected) PROVE \E r \in DOMAIN roles' : roles'[r] = s
    <3>1. PICK i \in 1 .. len : s = a.selected[i]
      BY <1>2 DEF Roles!Range
    <3>2. PICK j \in 1 .. len : made[j] = s
      BY <1>4, <3>1 DEF IsOrdered
    <3> QED BY <2>3, <3>2
  <2>5. ASSUME a.subagent \in Roles!Range(Roles!Models(a)) PROVE roles'[RoleNames[1]].model = a.subagent
    <3>1. len > 0 /\ made[1].model = a.subagent
      BY <1>4, <2>5 DEF IsOrdered
    <3>2. 1 \in 1 .. len
      BY <1>2, <3>1
    <3> QED BY <2>3, <3>1, <3>2
  <2> QED BY <2>2, <2>4, <2>5
<1>17. Roles!AskedIsThere'
  <2>1. /\ Roles!Range(ask.selected)' = Roles!Range(ask'.selected)
        /\ (ask.model \in Roles!Range(catalog))' <=> ask'.model \in Roles!Range(catalog')
        /\ Roles!Range(Roles!Models(ask))' = Roles!Range(Roles!Models(ask'))
    BY DEF Roles!Range, Roles!Models
  <2> QED BY <1>1, <1>16, <2>1 DEF Roles!AskedIsThere
<1> QED BY <1>15, <1>17

LEMMA RolesHold ==
    RolesInv /\ Roles!AskedIsThere /\ [Roles!Next]_Roles!vars => RolesInv' /\ Roles!AskedIsThere'
<1> SUFFICES ASSUME RolesInv, Roles!AskedIsThere, [Roles!Next]_Roles!vars PROVE RolesInv' /\ Roles!AskedIsThere'
  OBVIOUS
<1>1. CASE UNCHANGED Roles!vars
  BY <1>1 DEF RolesInv, Roles!AskedIsThere, Roles!vars
<1>2. CASE Roles!Next
  BY <1>2, RolesGoOn DEF Roles!Next
<1> QED BY <1>1, <1>2

-------------------------------------------------------------------------------
(* AgentHomes *)

HomesType ==
    /\ DOMAIN homes = Hms!RealPaths
    /\ before \subseteq dirs

LEMMA HomesSparedHold ==
    /\ Hms!Init => HomesType /\ Hms!PersonalHomesAreSpared
    /\ HomesType /\ Hms!PersonalHomesAreSpared /\ [Hms!Next]_Hms!vars =>
          HomesType' /\ Hms!PersonalHomesAreSpared'
<1>1. Hms!Init => HomesType /\ Hms!PersonalHomesAreSpared
  BY DEF Hms!Init, HomesType, Hms!PersonalHomesAreSpared
<1> SUFFICES ASSUME HomesType, Hms!PersonalHomesAreSpared, [Hms!Next]_Hms!vars
             PROVE  HomesType' /\ Hms!PersonalHomesAreSpared'
  BY <1>1
<1>2. CASE UNCHANGED Hms!vars
  BY <1>2 DEF Hms!vars, HomesType, Hms!PersonalHomesAreSpared, Hms!PersonalPlaces
<1>3. ASSUME NEW call \in Call, NEW path \in Path, NEW request \in HomeAsk[agent],
             Hms!Launch(call, path, request)
      PROVE  HomesType' /\ Hms!PersonalHomesAreSpared'
  <2> DEFINE place == Hms!Real(path)
  <2>1. /\ ~ Hms!Refused(agent, path, dirs)
        /\ dirs' = dirs \cup {place}
        /\ homes' = [homes EXCEPT ![place] = Hms!Written(homes[place], request).tree]
        /\ UNCHANGED <<agent, before>>
    BY <1>3 DEF Hms!Launch
  <2>2. HomesType'
    BY <2>1 DEF HomesType
  <2>3. Hms!PersonalPlaces(agent)' = Hms!PersonalPlaces(agent)
    BY <2>1 DEF Hms!PersonalPlaces
  <2>4. ASSUME NEW p \in Hms!PersonalPlaces(agent)
        PROVE  IF agent = "openclaw" THEN ~ Hms!Above(p, place) ELSE p \in before => p # place
    <3>1. CASE agent = "openclaw"
      BY <2>1, <2>4, <3>1 DEF Hms!Refused
    <3>2. CASE agent # "openclaw"
      <4>1. p = Hms!Real(Personal[agent])
        BY <3>2 DEF Hms!PersonalPlaces
      <4>2. p \in before /\ p = place =>
                Hms!Lexical(path, dirs) = p /\ Hms!Lexical(Personal[agent], dirs) = p
        BY <4>1 DEF HomesType, Hms!Lexical
      <4> QED BY <2>1, <3>2, <4>2 DEF Hms!Refused
    <3> QED BY <3>1, <3>2
  <2>5. \A q \in Hms!RealPaths : q # place => homes'[q] = homes[q]
    BY <2>1 DEF HomesType
  <2>6. Hms!PersonalHomesAreSpared'
    BY <2>1, <2>3, <2>4, <2>5 DEF Hms!PersonalHomesAreSpared
  <2> QED BY <2>2, <2>6
<1> QED BY <1>2, <1>3 DEF Hms!Next

\* A binary is one agent's.
LEMMA BinariesApart ==
    /\ \A k \in DOMAIN Hms!Binaries : k \in Hms!Binaries[k] /\ "copilot-cli" \notin Hms!Binaries[k]
    /\ \A n : \A k, l \in DOMAIN Hms!Binaries : n \in Hms!Binaries[k] /\ n \in Hms!Binaries[l] => k = l
    /\ DOMAIN HomeAsk \subseteq DOMAIN Hms!Binaries /\ "generic" \notin DOMAIN Hms!Binaries
<1>1. DOMAIN Hms!Binaries = {"codex", "claude", "interpreter", "openclaw", "junie", "pi", "dsh", "kimi", "copilot"}
  BY DEF Hms!Binaries
<1>2. /\ Hms!Binaries["codex"] = {"codex"} /\ Hms!Binaries["claude"] = {"claude", "claude-code"}
      /\ Hms!Binaries["interpreter"] = {"interpreter", "i"} /\ Hms!Binaries["openclaw"] = {"openclaw"}
      /\ Hms!Binaries["junie"] = {"junie"} /\ Hms!Binaries["pi"] = {"pi"} /\ Hms!Binaries["dsh"] = {"dsh"}
      /\ Hms!Binaries["kimi"] = {"kimi"} /\ Hms!Binaries["copilot"] = {"copilot"}
  BY DEF Hms!Binaries
<1>3. \A k \in DOMAIN Hms!Binaries : k \in Hms!Binaries[k] /\ "copilot-cli" \notin Hms!Binaries[k]
  BY <1>1, <1>2
<1>4. \A n : \A k \in DOMAIN Hms!Binaries : n \in Hms!Binaries[k] =>
         k = IF n = "claude-code" THEN "claude" ELSE IF n = "i" THEN "interpreter" ELSE n
  BY <1>1, <1>2
<1> QED BY <1>1, <1>3, <1>4, HomesAssumption

LEMMA Detects ==
    ASSUME NEW k \in DOMAIN Hms!Binaries, NEW n \in Hms!Binaries[k] PROVE Hms!Detect(n) = k
<1>1. n # "copilot-cli"
  BY BinariesApart
<1>2. (CHOOSE l \in DOMAIN Hms!Binaries : n \in Hms!Binaries[l]) = k
  BY BinariesApart
<1> QED BY <1>1, <1>2 DEF Hms!Detect

\* The command that runs is the agent's.
LEMMA CommandIs ==
    ASSUME NEW call \in Call, Hms!Resolved(call) \in DOMAIN HomeAsk
    PROVE  LET c == Hms!Command(call)
           IN  c[1].absolute \/ Hms!Resolved([kind |-> "auto", command |-> c]) = Hms!Resolved(call)
<1> DEFINE k == Hms!Resolved(call)
           c == Hms!Command(call)
           Word == [name : Key, absolute : BOOLEAN]
           w == [name |-> k, absolute |-> FALSE]
           own == <<w>>
<1>1. k \in DOMAIN Hms!Binaries /\ k # "generic"
  BY BinariesApart
<1>2. call.command \in Seq(Word)
  BY HomesAssumption
<1>3. \A d : d # <<>> =>
         Hms!Resolved([kind |-> "auto", command |-> d]) =
            IF Hms!Detect(d[1].name) = "generic" /\ d = <<>> THEN None ELSE Hms!Detect(d[1].name)
  BY DEF Hms!Resolved
<1>4. \A d : d # <<>> /\ d[1].name \in Hms!Binaries[k] => Hms!Resolved([kind |-> "auto", command |-> d]) = k
  BY <1>1, <1>3, Detects
<1>5. /\ call.command = <<>> => c = own
      /\ call.command # <<>> => \/ c = call.command /\ (call.command[1].absolute \/ call.command[1].name \in Hms!Binaries[k])
                                \/ c = own \o call.command
  BY <1>1 DEF Hms!Command
<1>6. k \in Hms!Binaries[k]
  BY <1>1, BinariesApart
<1> HIDE DEF k
<1>7. w.name = k
  OBVIOUS
<1> HIDE DEF w
<1>8. own \in Seq({w} \cup Word) /\ Len(own) = 1 /\ own[1] = w /\ own # <<>>
  OBVIOUS
<1> HIDE DEF own
<1>9. own \o call.command # <<>> /\ (own \o call.command)[1] = w
  <2> DEFINE r == call.command
  <2>1. r \in Seq({w} \cup Word) /\ Len(r) \in Nat
    <3> HIDE DEF Word
    <3>1. r \in Seq(Word)
      BY <1>2
    <3> HIDE DEF r
    <3>2. Len(r) \in Nat /\ DOMAIN r = 1 .. Len(r) /\ r = [i \in 1 .. Len(r) |-> r[i]]
      BY <3>1
    <3>3. \A i \in 1 .. Len(r) : r[i] \in {w} \cup Word
      BY <3>1, <3>2, ElementOfSeq
    <3> QED BY <3>2, <3>3
  <2> HIDE DEF r
  <2>2. /\ own \o r \in Seq({w} \cup Word) /\ Len(own \o r) = Len(own) + Len(r)
        /\ \A i \in 1 .. Len(own) + Len(r) : (own \o r)[i] = IF i <= Len(own) THEN own[i] ELSE r[i - Len(own)]
    BY <1>8, <2>1, ConcatProperties
  <2>3. 1 \in 1 .. Len(own) + Len(r) /\ 1 <= Len(own)
    BY <1>8, <2>1
  <2>4. (own \o r)[1] = w /\ Len(own \o r) > 0
    BY <1>8, <2>1, <2>2, <2>3
  <2> QED BY <2>2, <2>4 DEF r
<1> HIDE DEF c
<1>10. CASE c = own
  BY <1>4, <1>6, <1>7, <1>8, <1>10 DEF k, c
<1>11. CASE c = own \o call.command
  BY <1>4, <1>6, <1>7, <1>9, <1>11 DEF k, c
<1>12. CASE call.command # <<>> /\ c = call.command /\ (call.command[1].absolute \/ call.command[1].name \in Hms!Binaries[k])
  BY <1>4, <1>12 DEF k, c
<1> QED BY <1>5, <1>10, <1>11, <1>12

LEMMA CommandHolds ==
    /\ Hms!Init => Hms!CommandIsItsAgent
    /\ agent \in DOMAIN HomeAsk /\ Hms!CommandIsItsAgent /\ [Hms!Next]_Hms!vars => Hms!CommandIsItsAgent'
<1>1. Hms!Init => Hms!CommandIsItsAgent
  BY DEF Hms!Init, Hms!CommandIsItsAgent
<1> SUFFICES ASSUME agent \in DOMAIN HomeAsk, Hms!CommandIsItsAgent, [Hms!Next]_Hms!vars
             PROVE  Hms!CommandIsItsAgent'
  BY <1>1
<1>2. CASE UNCHANGED Hms!vars
  BY <1>2 DEF Hms!vars, Hms!CommandIsItsAgent, Hms!Resolved, Hms!Detect
<1>3. ASSUME NEW call \in Call, NEW path \in Path, NEW request \in HomeAsk[agent],
             Hms!Launch(call, path, request)
      PROVE  Hms!CommandIsItsAgent'
  <2>1. Hms!Resolved(call) = agent /\ agent' = agent /\ last'.command = Hms!Command(call)
    BY <1>3 DEF Hms!Launch
  <2>2. last'.command[1].absolute \/ Hms!Resolved([kind |-> "auto", command |-> last'.command]) = agent'
    BY <2>1, CommandIs
  <2>3. Hms!Resolved([kind |-> "auto", command |-> last.command])'
          = Hms!Resolved([kind |-> "auto", command |-> last'.command])
    BY DEF Hms!Resolved, Hms!Detect
  <2> QED BY <2>2, <2>3 DEF Hms!CommandIsItsAgent
<1> QED BY <1>2, <1>3 DEF Hms!Next

LEMMA HomesTrees ==
    /\ \A t, o : Hms!Overlay(t, o) = Overlay(t, o) /\ Hms!Joined(t, o) = Joined(t, o)
    /\ \A t, p, v : Hms!Put(t, p, v) = Put(t, p, v) /\ Hms!PutIfMissing(t, p, v) = PutIfMissing(t, p, v)
    /\ \A t, p : Hms!Get(t, p) = Get(t, p) /\ (Hms!Has(t, p) <=> Has(t, p))
    /\ \A t, o, s : Hms!OverlayProfile(t, o, s) = OverlayProfile(t, o, s)
    /\ \A t, k : Hms!Kept(t, k) = Kept(t, k)
    /\ \A p, v : Hms!Leaf(p, v) = Leaf(p, v)
    /\ \A t, a, l : Hms!PutAt(t, a, l) = PutAt(t, a, l)
    /\ \A p, q : Hms!Above(p, q) <=> Above(p, q)
<1>1. \A p, q : Hms!Above(p, q) <=> Above(p, q)
  BY DEF Hms!Above, Above
<1>2. \A t, k : Hms!Kept(t, k) = Kept(t, k)
  BY DEF Hms!Kept, Kept
<1>3. \A t, o : Hms!Joined(t, o) = Joined(t, o)
  BY DEF Hms!Joined, Joined
<1>4. \A t, o : Hms!Overlay(t, o) = Overlay(t, o)
  BY DEF Hms!Overlay, Overlay, Hms!Joined, Joined, Hms!Kept, Kept, Hms!Above, Above
<1>5. \A t, p : Hms!Get(t, p) = Get(t, p)
  BY DEF Hms!Get, Get
<1>6. \A t, p : Hms!Has(t, p) <=> Has(t, p)
  BY <1>1 DEF Hms!Has, Has
<1>7. \A p, v : Hms!Leaf(p, v) = Leaf(p, v)
  BY DEF Hms!Leaf, Leaf
<1>8. \A t, p, v : Hms!Put(t, p, v) = Put(t, p, v)
  BY <1>4, <1>7 DEF Hms!Put, Put
<1>9. \A t, p, v : Hms!PutIfMissing(t, p, v) = PutIfMissing(t, p, v)
  BY <1>6, <1>8 DEF Hms!PutIfMissing, PutIfMissing
<1>10. \A t, o, s : Hms!OverlayProfile(t, o, s) = OverlayProfile(t, o, s)
  BY <1>4 DEF Hms!OverlayProfile, OverlayProfile, Hms!Kept, Kept, Hms!Above, Above
<1>11. \A t, p : Hms!Drop(t, p) = Drop(t, p)
  BY DEF Hms!Drop, Drop, Hms!Kept, Kept, Hms!Above, Above
<1>12. \A t, a, l : Hms!PutAt(t, a, l) = PutAt(t, a, l)
  BY <1>4, <1>11 DEF Hms!PutAt, PutAt
<1> QED BY <1>1, <1>2, <1>3, <1>4, <1>5, <1>6, <1>7, <1>8, <1>9, <1>10, <1>12

LEMMA ConcatIs ==
    ASSUME NEW a \in Paths, NEW q \in Paths
    PROVE  /\ a \o q \in Paths /\ Len(a \o q) = Len(a) + Len(q) /\ Len(a) \in Nat /\ Len(q) \in Nat
           /\ \A i \in 1 .. Len(a) : (a \o q)[i] = a[i]
           /\ \A i \in 1 .. Len(q) : (a \o q)[Len(a) + i] = q[i]
<1>1. a \in Seq(Key) /\ q \in Seq(Key) /\ Len(a) \in Nat /\ Len(q) \in Nat
  BY DEF Paths
<1>2. /\ a \o q \in Seq(Key) /\ Len(a \o q) = Len(a) + Len(q)
      /\ \A i \in 1 .. Len(a) + Len(q) : (a \o q)[i] = IF i <= Len(a) THEN a[i] ELSE q[i - Len(a)]
  BY <1>1, ConcatProperties
<1>3. \A i \in 1 .. Len(a) : (a \o q)[i] = a[i]
  BY <1>1, <1>2
<1>4. ASSUME NEW i \in 1 .. Len(q) PROVE (a \o q)[Len(a) + i] = q[i]
  <2>1. Len(a) + i \in 1 .. Len(a) + Len(q) /\ ~ (Len(a) + i <= Len(a)) /\ (Len(a) + i) - Len(a) = i
    BY <1>1
  <2> QED BY <1>2, <2>1
<1> QED BY <1>1, <1>2, <1>3, <1>4 DEF Paths

LEMMA ConcatPrefix ==
    ASSUME NEW a \in Paths, NEW p \in Paths, NEW q \in Paths
    PROVE  /\ Above(a \o p, a \o q) <=> Above(p, q)
           /\ Above(a, a \o q)
           /\ a \o p = a \o q => p = q
           /\ Apart(a \o p, a \o q) <=> Apart(p, q)
<1> DEFINE x == a \o p
           y == a \o q
<1>1. /\ x \in Paths /\ Len(x) = Len(a) + Len(p) /\ Len(a) \in Nat /\ Len(p) \in Nat
      /\ \A i \in 1 .. Len(a) : x[i] = a[i]
      /\ \A i \in 1 .. Len(p) : x[Len(a) + i] = p[i]
  BY ConcatIs
<1>2. /\ y \in Paths /\ Len(y) = Len(a) + Len(q) /\ Len(q) \in Nat
      /\ \A i \in 1 .. Len(a) : y[i] = a[i]
      /\ \A i \in 1 .. Len(q) : y[Len(a) + i] = q[i]
  BY ConcatIs
<1> HIDE DEF x, y
<1>3. ASSUME NEW b \in Paths, NEW c \in Paths, NEW u \in Paths, NEW w \in Paths,
             Len(u) = Len(a) + Len(b), Len(w) = Len(a) + Len(c), Len(b) \in Nat, Len(c) \in Nat,
             \A i \in 1 .. Len(a) : u[i] = a[i], \A i \in 1 .. Len(b) : u[Len(a) + i] = b[i],
             \A i \in 1 .. Len(a) : w[i] = a[i], \A i \in 1 .. Len(c) : w[Len(a) + i] = c[i]
      PROVE  Above(u, w) <=> Above(b, c)
  <2>1. ASSUME Above(u, w) PROVE Above(b, c)
    <3>1. Len(u) <= Len(w) /\ \A i \in 1 .. Len(u) : u[i] = w[i]
      BY <1>3, <2>1, PrefixMeans
    <3>2. ASSUME NEW i \in 1 .. Len(b) PROVE b[i] = c[i]
      <4>1. Len(a) + i \in 1 .. Len(u) /\ i \in 1 .. Len(c)
        BY <1>1, <1>3, <3>1
      <4> QED BY <1>3, <3>1, <4>1
    <3>3. Len(b) <= Len(c)
      BY <1>1, <1>3, <3>1
    <3> QED BY <3>2, <3>3, PrefixMeans
  <2>2. ASSUME Above(b, c) PROVE Above(u, w)
    <3>1. Len(b) <= Len(c) /\ \A i \in 1 .. Len(b) : b[i] = c[i]
      BY <1>3, <2>2, PrefixMeans
    <3>2. ASSUME NEW i \in 1 .. Len(u) PROVE u[i] = w[i]
      <4>1. CASE i <= Len(a)
        BY <1>1, <1>3, <4>1
      <4>2. CASE ~ (i <= Len(a))
        <5> DEFINE j == i - Len(a)
        <5>1. j \in 1 .. Len(b) /\ j \in 1 .. Len(c) /\ Len(a) + j = i
          BY <1>1, <1>3, <3>1, <4>2
        <5> HIDE DEF j
        <5> QED BY <1>3, <3>1, <5>1
      <4> QED BY <4>1, <4>2
    <3>3. Len(u) <= Len(w)
      BY <1>1, <1>3, <3>1
    <3> QED BY <3>2, <3>3, PrefixMeans
  <2> QED BY <2>1, <2>2
<1>4. Above(x, y) <=> Above(p, q)
  BY <1>1, <1>2, <1>3
<1>5. Above(y, x) <=> Above(q, p)
  BY <1>1, <1>2, <1>3
<1>6. Above(a, y)
  <2>1. Len(a) <= Len(y) /\ \A i \in 1 .. Len(a) : a[i] = y[i]
    BY <1>1, <1>2
  <2> QED BY <1>2, <2>1, PrefixMeans
<1>7. x = y => p = q
  <2> SUFFICES ASSUME x = y PROVE p = q
    OBVIOUS
  <2>1. Len(p) = Len(q) /\ \A i \in 1 .. Len(p) : p[i] = q[i]
    BY <1>1, <1>2
  <2> QED BY <2>1, SeqEqual DEF Paths
<1> QED BY <1>4, <1>5, <1>6, <1>7 DEF x, y, Apart

\* One path and then another.
Joins(p, q, r) ==
    /\ p \in Paths /\ q \in Paths /\ r \in Paths /\ Len(r) = Len(p) + Len(q)
    /\ \A i \in 1 .. Len(p) : r[i] = p[i]
    /\ \A i \in 1 .. Len(q) : r[Len(p) + i] = q[i]

LEMMA IsConcat == ASSUME NEW p, NEW q, NEW r, Joins(p, q, r) PROVE p \o q = r
<1> DEFINE s == p \o q
<1>1. /\ s \in Paths /\ Len(s) = Len(p) + Len(q) /\ Len(p) \in Nat /\ Len(q) \in Nat
      /\ \A i \in 1 .. Len(p) : s[i] = p[i]
      /\ \A i \in 1 .. Len(q) : s[Len(p) + i] = q[i]
  BY ConcatIs DEF Joins
<1> HIDE DEF s
<1> USE DEF Joins
<1>2. ASSUME NEW i \in 1 .. Len(s) PROVE s[i] = r[i]
  <2>1. CASE i <= Len(p)
    BY <1>1, <2>1
  <2>2. CASE ~ (i <= Len(p))
    <3> DEFINE j == i - Len(p)
    <3>1. j \in 1 .. Len(q) /\ Len(p) + j = i
      BY <1>1, <2>2
    <3> HIDE DEF j
    <3> QED BY <1>1, <3>1
  <2> QED BY <2>1, <2>2
<1>3. s = r
  BY <1>1, <1>2, SeqEqual DEF Paths
<1> QED BY <1>3 DEF s

LEMMA ShortPaths ==
    ASSUME NEW x \in Key, NEW y \in Key, NEW z \in Key, NEW w \in Key
    PROVE  /\ <<x>> \o <<y>> = <<x, y>>
           /\ <<x>> \o <<y, z>> = <<x, y, z>> /\ <<x, y>> \o <<z>> = <<x, y, z>>
           /\ <<x, y>> \o <<z, w>> = <<x, y, z, w>>
<1>1. <<x>> \o <<y>> = <<x, y>>
  <2> DEFINE p == <<x>>
             q == <<y>>
             r == <<x, y>>
  <2>1. /\ p \in Paths /\ Len(p) = 1 /\ p[1] = x
        /\ q \in Paths /\ Len(q) = 1 /\ q[1] = y
        /\ r \in Paths /\ Len(r) = 2 /\ r[1] = x /\ r[2] = y
    BY DEF Paths
  <2> HIDE DEF p, q, r
  <2>2. \A i \in 1 .. Len(p) : r[i] = p[i]
    BY <2>1
  <2>3. \A i \in 1 .. Len(q) : r[Len(p) + i] = q[i]
    BY <2>1
  <2>4. Joins(p, q, r)
    BY <2>1, <2>2, <2>3 DEF Joins
  <2>5. p \o q = r
    BY <2>4, IsConcat
  <2> QED BY <2>5 DEF p, q, r
<1>2. <<x>> \o <<y, z>> = <<x, y, z>>
  <2> DEFINE p == <<x>>
             q == <<y, z>>
             r == <<x, y, z>>
  <2>1. /\ p \in Paths /\ Len(p) = 1 /\ p[1] = x
        /\ q \in Paths /\ Len(q) = 2 /\ q[1] = y /\ q[2] = z
        /\ r \in Paths /\ Len(r) = 3 /\ r[1] = x /\ r[2] = y /\ r[3] = z
    BY DEF Paths
  <2> HIDE DEF p, q, r
  <2>2. \A i \in 1 .. Len(p) : r[i] = p[i]
    BY <2>1
  <2>3. \A i \in 1 .. Len(q) : r[Len(p) + i] = q[i]
    BY <2>1
  <2>4. Joins(p, q, r)
    BY <2>1, <2>2, <2>3 DEF Joins
  <2>5. p \o q = r
    BY <2>4, IsConcat
  <2> QED BY <2>5 DEF p, q, r
<1>3. <<x, y>> \o <<z>> = <<x, y, z>>
  <2> DEFINE p == <<x, y>>
             q == <<z>>
             r == <<x, y, z>>
  <2>1. /\ p \in Paths /\ Len(p) = 2 /\ p[1] = x /\ p[2] = y
        /\ q \in Paths /\ Len(q) = 1 /\ q[1] = z
        /\ r \in Paths /\ Len(r) = 3 /\ r[1] = x /\ r[2] = y /\ r[3] = z
    BY DEF Paths
  <2> HIDE DEF p, q, r
  <2>2. \A i \in 1 .. Len(p) : r[i] = p[i]
    BY <2>1
  <2>3. \A i \in 1 .. Len(q) : r[Len(p) + i] = q[i]
    BY <2>1
  <2>4. Joins(p, q, r)
    BY <2>1, <2>2, <2>3 DEF Joins
  <2>5. p \o q = r
    BY <2>4, IsConcat
  <2> QED BY <2>5 DEF p, q, r
<1>4. <<x, y>> \o <<z, w>> = <<x, y, z, w>>
  <2> DEFINE p == <<x, y>>
             q == <<z, w>>
             r == <<x, y, z, w>>
  <2>1. /\ p \in Paths /\ Len(p) = 2 /\ p[1] = x /\ p[2] = y
        /\ q \in Paths /\ Len(q) = 2 /\ q[1] = z /\ q[2] = w
        /\ r \in Paths /\ Len(r) = 4 /\ r[1] = x /\ r[2] = y /\ r[3] = z /\ r[4] = w
    BY DEF Paths
  <2> HIDE DEF p, q, r
  <2>2. \A i \in 1 .. Len(p) : r[i] = p[i]
    BY <2>1
  <2>3. \A i \in 1 .. Len(q) : r[Len(p) + i] = q[i]
    BY <2>1
  <2>4. Joins(p, q, r)
    BY <2>1, <2>2, <2>3 DEF Joins
  <2>5. p \o q = r
    BY <2>4, IsConcat
  <2> QED BY <2>5 DEF p, q, r
<1> QED BY <1>1, <1>2, <1>3, <1>4

\* What is put below a path stays below its first key.
LEMMA PutAtKeeps ==
    ASSUME NEW t, DOMAIN t \subseteq Paths, NEW a \in Paths, a # <<>>, NEW leaves, DOMAIN leaves \subseteq Paths
    PROVE  /\ DOMAIN PutAt(t, a, leaves) \subseteq Paths
           /\ \A keys : a[1] \notin keys => Agree(PutAt(t, a, leaves), t, Headed(keys))
<1> DEFINE new == PutAt(t, a, leaves)
<1>0. IsPutAt(new, t, a, leaves)
  BY PutAtIs
<1> HIDE DEF new
<1>1. /\ \A p : p \in DOMAIN new <=>
            \/ \E q \in DOMAIN leaves : p = a \o q
            \/ p \in DOMAIN t /\ ~ Above(a, p) /\ \A q \in DOMAIN leaves : Apart(p, a \o q)
      /\ \A p \in DOMAIN new : (\A q \in DOMAIN leaves : p # a \o q) => new[p] = t[p]
  BY <1>0 DEF IsPutAt
<1>2. \A q \in DOMAIN leaves : a \o q \in Paths /\ a \o q # <<>> /\ (a \o q)[1] = a[1]
  <2> SUFFICES ASSUME NEW q \in Paths PROVE a \o q \in Paths /\ a \o q # <<>> /\ (a \o q)[1] = a[1]
    OBVIOUS
  <2> DEFINE r == a \o q
  <2>1. /\ r \in Paths /\ Len(r) = Len(a) + Len(q) /\ Len(a) \in Nat /\ Len(q) \in Nat
        /\ \A i \in 1 .. Len(a) : r[i] = a[i]
    BY ConcatIs
  <2> HIDE DEF r
  <2>2. Len(a) > 0
    BY <2>1 DEF Paths
  <2>3. r # <<>> /\ r[1] = a[1]
    BY <2>1, <2>2
  <2> QED BY <2>1, <2>3 DEF r
<1>3. DOMAIN new \subseteq Paths
  BY <1>1, <1>2
<1>4. ASSUME NEW keys, a[1] \notin keys PROVE Agree(new, t, Headed(keys))
  <2>1. a \notin Headed(keys) /\ \A q \in DOMAIN leaves : a \o q \notin Headed(keys)
    BY <1>2, <1>4 DEF Headed
  <2>2. \A p \in Headed(keys) : /\ ~ Above(a, p)
                                /\ \A q \in DOMAIN leaves : p # a \o q /\ Apart(p, a \o q)
    BY <1>2, <2>1, HeadsApart DEF Apart
  <2> QED BY <1>1, <2>2 DEF Agree
<1> QED BY <1>3, <1>4 DEF new

Provider == [name : Key, models : SUBSET Key]

LEMMA HomesAsked ==
    ASSUME NEW k \in DOMAIN HomeAsk, NEW a \in HomeAsk[k]
    PROVE  /\ a.default \in Key \cup {None} /\ a.models \in Seq(Key) /\ a.providers \in Seq(Provider)
           /\ DOMAIN a.template \subseteq Paths \ {<<>>} /\ DOMAIN a.user \subseteq Paths \ {<<>>}
           /\ DOMAIN a.overlay \subseteq Paths \ {<<>>}
           /\ DOMAIN a.servers = 1 .. Len(a.servers) /\ Len(a.servers) \in Nat
           /\ \A i \in DOMAIN a.servers : a.servers[i].name \in Key /\ DOMAIN a.servers[i].leaves \subseteq Paths
BY HomesAssumption DEF Provider, Paths

\* What a launch pins, and that a provider offers it.
Pinned(a, h) ==
    /\ h \in Provider /\ Hms!Hosting(a) = <<h>> /\ a.default \in Key
    /\ DOMAIN Hms!Pin(a) = {<<"provider">>, <<"model">>}
    /\ Hms!Pin(a)[<<"provider">>] = h.name /\ Hms!Pin(a)[<<"model">>] = a.default
    /\ <<h.name, a.default>> \in Hms!Offered(a.providers)
Unpinned(a) == Hms!Hosting(a) = <<>> /\ DOMAIN Hms!Pin(a) = {}

LEMMA PinIs ==
    ASSUME NEW k \in DOMAIN HomeAsk, NEW a \in HomeAsk[k]
    PROVE  Unpinned(a) \/ \E h : Pinned(a, h)
<1> DEFINE s == a.providers
           I == {i \in 1 .. Len(s) : a.default \in s[i].models}
           first == Least(I)
           h == s[first]
<1>1. s \in Seq(Provider) /\ a.default \in Key \cup {None} /\ Len(s) \in Nat /\ DOMAIN s = 1 .. Len(s)
  BY HomesAsked
<1>2. I # {} => first \in 1 .. Len(s) /\ a.default \in s[first].models
  <2>1. I \in SUBSET Nat
    OBVIOUS
  <2> HIDE DEF I
  <2>2. I # {} => first \in I
    BY <2>1, MinIsFirst
  <2> QED BY <2>2 DEF I
<1>3. Hms!FirstWhere(s, LAMBDA p : a.default \in p.models) = IF I = {} THEN 0 ELSE first
  BY DEF Hms!FirstWhere, Hms!Least, Least
<1> HIDE DEF I, first
<1>4. CASE a.default = None \/ I = {}
  <2>1. Hms!Hosting(a) = <<>>
    BY <1>3, <1>4 DEF Hms!Hosting
  <2>2. DOMAIN Hms!Pin(a) = {}
    BY <2>1 DEF Hms!Pin, Hms!Empty
  <2> QED BY <2>1, <2>2 DEF Unpinned
<1>5. CASE a.default # None /\ I # {}
  <2>1. first # 0 /\ first \in 1 .. Len(s)
    BY <1>1, <1>2, <1>5
  <2>2. Hms!Hosting(a) = <<h>>
    BY <1>3, <1>5, <2>1 DEF Hms!Hosting
  <2>3. h \in Provider
    BY <1>1, <2>1, ElementOfSeq
  <2>4. a.default \in Key /\ a.default \in h.models
    BY <1>1, <1>2, <1>5
  <2>5. h \in Hms!Range(s)
    BY <1>1, <2>1 DEF Hms!Range
  <2> HIDE DEF h, s
  <2>6. <<h.name, a.default>> \in Hms!Offered(s)
    BY <2>4, <2>5 DEF Hms!Offered
  <2>7. Hms!Pin(a) = Joined(Leaf(<<"provider">>, h.name), Leaf(<<"model">>, a.default))
    <3>1. Hms!Hosting(a) # <<>> /\ Hms!Hosting(a)[1] = h
      BY <2>2
    <3> QED BY <3>1, HomesTrees DEF Hms!Pin
  <2>8. <<"provider">> # <<"model">>
    OBVIOUS
  <2>9. /\ DOMAIN Hms!Pin(a) = {<<"provider">>, <<"model">>}
        /\ Hms!Pin(a)[<<"provider">>] = h.name /\ Hms!Pin(a)[<<"model">>] = a.default
    BY <2>7, <2>8 DEF Joined, Leaf
  <2> QED BY <2>2, <2>3, <2>4, <2>6, <2>9 DEF Pinned, s
<1> QED BY <1>4, <1>5

LEMMA OfferedArePaths ==
    ASSUME NEW k \in DOMAIN HomeAsk, NEW a \in HomeAsk[k] PROVE Hms!Offered(a.providers) \subseteq Paths
<1> SUFFICES ASSUME NEW q \in Hms!Offered(a.providers) PROVE q \in Paths
  OBVIOUS
<1>1. PICK p \in Hms!Range(a.providers) : q \in {<<p.name, m>> : m \in p.models}
  BY DEF Hms!Offered
<1>2. p \in Provider
  <2>1. a.providers \in Seq(Provider)
    BY HomesAsked
  <2>2. PICK i \in DOMAIN a.providers : p = a.providers[i]
    BY DEF Hms!Range
  <2> QED BY <2>1, <2>2, ElementOfSeq
<1>3. PICK m \in p.models : q = <<p.name, m>>
  BY <1>1
<1>4. p.name \in Key /\ m \in Key
  BY <1>2 DEF Provider
<1> QED BY <1>3, <1>4 DEF Paths

LEMMA EnvKeeps ==
    ASSUME NEW t, DOMAIN t \subseteq Paths, NEW a
    PROVE  /\ DOMAIN Hms!WithEnv(t, a) \subseteq Paths
           /\ \A keys : "env" \notin keys => Agree(Hms!WithEnv(t, a), t, Headed(keys))
<1> DEFINE rest == IF a.key THEN Leaf(<<"OPENAI_API_KEY">>, "key") ELSE Hms!Empty
           l == Joined(Leaf(<<"OPENAI_BASE_URL">>, "proxy/v1"), Joined(Leaf(<<"ANTHROPIC_BASE_URL">>, "proxy"), rest))
           e == <<"env">>
<1>1. Hms!WithEnv(t, a) = PutAt(t, e, l)
  BY HomesTrees DEF Hms!WithEnv
<1>2. DOMAIN rest \subseteq {<<"OPENAI_API_KEY">>}
  BY DEF Leaf, Hms!Empty
<1> HIDE DEF rest
<1>3. DOMAIN l \subseteq {<<"OPENAI_BASE_URL">>, <<"ANTHROPIC_BASE_URL">>, <<"OPENAI_API_KEY">>}
  BY <1>2 DEF Joined, Leaf
<1> HIDE DEF l
<1>4. DOMAIN l \subseteq Paths
  BY <1>3, KeyAssumption, OneKey
<1>5. e \in Paths /\ e # <<>> /\ e[1] = "env"
  BY KeyAssumption, OneKey
<1> HIDE DEF e
<1> QED BY <1>1, <1>4, <1>5, PutAtKeeps

\* The first key of a path, and what is behind it.
LEMMA FirstKey ==
    ASSUME NEW x \in Key, NEW q \in Paths
    PROVE  /\ <<x>> \o q \in Paths /\ (<<x>> \o q)[1] = x /\ Tail(<<x>> \o q) = q
           /\ Len(<<x>> \o q) = Len(q) + 1 /\ <<x>> \o q # <<>>
<1> DEFINE h == <<x>>
           r == h \o q
<1>1. h \in Paths /\ Len(h) = 1 /\ h[1] = x
  BY DEF Paths
<1> HIDE DEF h
<1>2. /\ r \in Paths /\ Len(r) = Len(h) + Len(q) /\ Len(q) \in Nat
      /\ \A i \in 1 .. Len(h) : r[i] = h[i]
      /\ \A i \in 1 .. Len(q) : r[Len(h) + i] = q[i]
  BY <1>1, ConcatIs
<1> HIDE DEF r
<1>3. Len(r) = Len(q) + 1 /\ r[1] = x /\ r # <<>>
  BY <1>1, <1>2
<1>4. /\ Tail(r) \in Paths /\ Len(Tail(r)) = Len(q)
      /\ \A i \in 1 .. Len(q) : Tail(r)[i] = r[i + 1]
  BY <1>2, <1>3 DEF Paths
<1>5. \A i \in 1 .. Len(q) : Tail(r)[i] = q[i]
  BY <1>1, <1>2, <1>4
<1>6. Tail(r) = q
  BY <1>4, <1>5, SeqEqual DEF Paths
<1> QED BY <1>2, <1>3, <1>6 DEF r, h

LEMMA TwoKeys ==
    ASSUME NEW x \in Key, NEW y \in Key, NEW q \in Paths
    PROVE  /\ <<x, y>> \o q = <<x>> \o (<<y>> \o q) /\ <<y>> \o q \in Paths /\ <<x, y>> \in Paths
           /\ <<x, y>> = <<x>> \o <<y>>
<1> DEFINE p == <<x, y>>
           h == <<x>>
           b == <<y>> \o q
           r == h \o b
<1>1. p \in Paths /\ Len(p) = 2 /\ p[1] = x /\ p[2] = y /\ h \in Paths /\ Len(h) = 1 /\ h[1] = x
  BY DEF Paths
<1>2. b \in Paths /\ b[1] = y /\ Len(b) = Len(q) + 1 /\ Len(q) \in Nat /\ \A i \in 1 .. Len(q) : b[1 + i] = q[i]
  <2> DEFINE l == <<y>>
  <2>1. l \in Paths /\ Len(l) = 1 /\ l[1] = y
    BY DEF Paths
  <2> HIDE DEF l
  <2>2. /\ l \o q \in Paths /\ Len(l \o q) = Len(l) + Len(q) /\ Len(q) \in Nat
        /\ \A i \in 1 .. Len(l) : (l \o q)[i] = l[i]
        /\ \A i \in 1 .. Len(q) : (l \o q)[Len(l) + i] = q[i]
    BY <2>1, ConcatIs
  <2>3. b = l \o q
    BY DEF l
  <2> HIDE DEF b
  <2> QED BY <2>1, <2>2, <2>3
<1> HIDE DEF p, h, b
<1>3. /\ r \in Paths /\ Len(r) = Len(h) + Len(b)
      /\ \A i \in 1 .. Len(h) : r[i] = h[i]
      /\ \A i \in 1 .. Len(b) : r[Len(h) + i] = b[i]
  BY <1>1, <1>2, ConcatIs
<1> HIDE DEF r
<1>4. Joins(p, q, r)
  <2>1. ASSUME NEW i \in 1 .. Len(p) PROVE r[i] = p[i]
    <3>1. r[1] = h[1] /\ r[1 + 1] = b[1]
      BY <1>1, <1>2, <1>3
    <3> QED BY <1>1, <1>2, <3>1
  <2>2. ASSUME NEW i \in 1 .. Len(q) PROVE r[Len(p) + i] = q[i]
    <3>1. 1 + i \in 1 .. Len(b) /\ Len(h) + (1 + i) = Len(p) + i
      BY <1>1, <1>2
    <3> QED BY <1>2, <1>3, <3>1
  <2>3. Len(r) = Len(p) + Len(q)
    BY <1>1, <1>2, <1>3
  <2> QED BY <1>1, <1>3, <2>1, <2>2, <2>3 DEF Joins
<1>5. p \o q = r
  BY <1>4, IsConcat
<1>6. <<x, y>> = <<x>> \o <<y>>
  BY ShortPaths
<1> QED BY <1>1, <1>2, <1>5, <1>6 DEF p, h, b, r

\* PinIsServed for a file with the pin and the models.
OwnPin(tree) ==
    \/ ~ Has(tree, <<"settings", "pin">>)
    \/ \E x, y \in Key :
          /\ Get(tree, <<"settings", "pin">> \o <<"provider">>) = x
          /\ Get(tree, <<"settings", "pin">> \o <<"model">>) = y
          /\ Has(tree, <<"settings", "models">> \o <<x, y>>)

\* Such a file for what a launch asks.
PinLeaves(f, a) ==
    /\ DOMAIN f \subseteq Paths
    /\ Unpinned(a) => \A q \in DOMAIN f : q # <<>> /\ q[1] # "pin"
    /\ \A h : Pinned(a, h) =>
          /\ <<"pin">> \o <<"provider">> \in DOMAIN f /\ f[<<"pin">> \o <<"provider">>] = h.name
          /\ <<"pin">> \o <<"model">> \in DOMAIN f /\ f[<<"pin">> \o <<"model">>] = a.default
          /\ <<"models">> \o <<h.name, a.default>> \in DOMAIN f

LEMMA PinIsOwn ==
    ASSUME NEW t, DOMAIN t \subseteq Paths, NEW k \in DOMAIN HomeAsk, NEW a \in HomeAsk[k], NEW f, PinLeaves(f, a)
    PROVE  OwnPin(PutAt(t, <<"settings">>, f))
<1> DEFINE s == <<"settings">>
           new == PutAt(t, s, f)
           pin == <<"settings", "pin">>
<1>1. s \in Paths /\ s # <<>> /\ "pin" \in Key /\ "settings" \in Key /\ "models" \in Key
      /\ "provider" \in Key /\ "model" \in Key
  BY KeyAssumption, OneKey
<1>2. DOMAIN f \subseteq Paths
  BY DEF PinLeaves
<1>3. IsPutAt(new, t, s, f) /\ DOMAIN new \subseteq Paths
  BY <1>1, <1>2, PutAtIs, PutAtKeeps
<1>4. CASE Unpinned(a)
  <2>1. pin \in Paths /\ pin = s \o <<"pin">> /\ <<"pin">> \in Paths /\ <<"pin">>[1] = "pin" /\ Len(<<"pin">>) = 1
    BY <1>1, TwoKeys, OneKey
  <2> DEFINE l == <<"pin">>
  <2>2. pin \in Paths /\ pin = s \o l /\ l \in Paths /\ l[1] = "pin" /\ Len(l) = 1
    BY <2>1
  <2> HIDE DEF l, pin, s, new
  <2>3. ASSUME NEW p \in DOMAIN new PROVE ~ Above(pin, p)
    <3>1. CASE \E q \in DOMAIN f : p = s \o q
      <4>1. PICK q \in DOMAIN f : p = s \o q
        BY <3>1
      <4>2. q \in Paths /\ q # <<>> /\ q[1] # "pin" /\ Len(q) \in Nat
        BY <1>2, <1>4, <4>1 DEF PinLeaves, Paths
      <4>3. ~ Above(l, q)
        BY <2>2, <4>2, PrefixMeans
      <4> QED BY <1>1, <2>2, <4>1, <4>2, <4>3, ConcatPrefix
    <3>2. CASE ~ \E q \in DOMAIN f : p = s \o q
      <4>1. ~ Above(s, p) /\ p \in Paths
        BY <1>3, <3>2 DEF IsPutAt
      <4>2. Above(s, pin)
        BY <1>1, <2>2, ConcatPrefix
      <4>3. Above(pin, p) => Above(s, p)
        <5>1. Len(s) \in Nat /\ Len(pin) \in Nat /\ Len(p) \in Nat
          BY <1>1, <2>2, <4>1 DEF Paths
        <5> QED BY <1>1, <2>2, <4>1, <4>2, <5>1, PrefixMeans
      <4> QED BY <4>1, <4>3
    <3> QED BY <3>1, <3>2
  <2>4. ~ Has(new, pin)
    BY <2>3 DEF Has
  <2> QED BY <2>4 DEF OwnPin, pin, new, s
<1>5. ASSUME NEW h, Pinned(a, h) PROVE OwnPin(new)
  <2> DEFINE q1 == <<"pin">> \o <<"provider">>
             q2 == <<"pin">> \o <<"model">>
             q3 == <<"models">> \o <<h.name, a.default>>
             m == <<h.name, a.default>>
  <2>1. h.name \in Key /\ a.default \in Key
    BY <1>5 DEF Pinned, Provider
  <2>2. /\ pin \o <<"provider">> = s \o q1 /\ pin \o <<"model">> = s \o q2
        /\ <<"settings", "models">> \o m = s \o q3
    <3>1. <<"provider">> \in Paths /\ <<"model">> \in Paths /\ m \in Paths
      BY <1>1, <2>1 DEF Paths
    <3>2. \A x, y \in Key : \A q \in Paths : <<x, y>> \o q = <<x>> \o (<<y>> \o q)
      BY TwoKeys
    <3>3. pin \o <<"provider">> = s \o q1
      BY <1>1, <3>1, <3>2, Zenon
    <3>4. pin \o <<"model">> = s \o q2
      BY <1>1, <3>1, <3>2, Zenon
    <3>5. <<"settings", "models">> \o m = s \o q3
      BY <1>1, <3>1, <3>2, Zenon
    <3> QED BY <3>3, <3>4, <3>5
  <2>3. /\ q1 \in DOMAIN f /\ f[q1] = h.name /\ q2 \in DOMAIN f /\ f[q2] = a.default /\ q3 \in DOMAIN f
    BY <1>5 DEF PinLeaves
  <2> HIDE DEF q1, q2, q3, s, new, pin, m
  <2>4. /\ s \o q1 \in DOMAIN new /\ new[s \o q1] = h.name
        /\ s \o q2 \in DOMAIN new /\ new[s \o q2] = a.default /\ s \o q3 \in DOMAIN new
    BY <1>3, <2>3 DEF IsPutAt
  <2>5. Get(new, pin \o <<"provider">>) = h.name /\ Get(new, pin \o <<"model">>) = a.default
    BY <2>2, <2>4 DEF Get
  <2>6. Has(new, <<"settings", "models">> \o m)
    <3>1. s \o q3 \in Paths
      BY <1>3, <2>4
    <3>2. Above(s \o q3, s \o q3)
      BY <3>1, PrefixMeans
    <3> QED BY <2>2, <2>4, <3>2 DEF Has
  <2>7. Has(new, <<"settings", "models">> \o <<h.name, a.default>>)
    BY <2>6 DEF m
  <2> QED BY <2>1, <2>5, <2>7 DEF OwnPin, pin
<1>6. Unpinned(a) \/ \E h : Pinned(a, h)
  BY PinIs
<1> QED BY <1>4, <1>5, <1>6

\* What dsh and Kimi write, and what OpenClaw writes.
OneFile(a) ==
    [p \in {<<"pin">> \o q : q \in DOMAIN Hms!Pin(a)} \cup {<<"models">> \o q : q \in Hms!Offered(a.providers)}
        |-> IF p[1] = "pin" THEN Hms!Pin(a)[Tail(p)] ELSE "proxy"]

OneModel(a) ==
    Joined([p \in {<<"pin">> \o q : q \in DOMAIN Hms!Pin(a)} |-> Hms!Pin(a)[Tail(p)]],
           Leaf(<<"models", Hms!Hosting(a)[1].name, a.default>>, "proxy"))

LEMMA PinPaths ==
    ASSUME NEW k \in DOMAIN HomeAsk, NEW a \in HomeAsk[k]
    PROVE  /\ DOMAIN Hms!Pin(a) \subseteq Paths
           /\ <<"provider">> \in Paths /\ <<"model">> \in Paths
           /\ \A q \in Paths : /\ <<"pin">> \o q \in Paths /\ (<<"pin">> \o q)[1] = "pin"
                               /\ Tail(<<"pin">> \o q) = q /\ <<"pin">> \o q # <<>>
                               /\ <<"models">> \o q \in Paths /\ (<<"models">> \o q)[1] = "models"
                               /\ <<"models">> \o q # <<>>
<1>1. "provider" \in Key /\ "model" \in Key /\ "pin" \in Key /\ "models" \in Key
  BY KeyAssumption
<1>2. <<"provider">> \in Paths /\ <<"model">> \in Paths
  BY <1>1, OneKey
<1>3. DOMAIN Hms!Pin(a) \subseteq {<<"provider">>, <<"model">>}
  BY PinIs DEF Pinned, Unpinned
<1>4. ASSUME NEW q \in Paths
      PROVE  /\ <<"pin">> \o q \in Paths /\ (<<"pin">> \o q)[1] = "pin"
             /\ Tail(<<"pin">> \o q) = q /\ <<"pin">> \o q # <<>>
             /\ <<"models">> \o q \in Paths /\ (<<"models">> \o q)[1] = "models"
             /\ <<"models">> \o q # <<>>
  BY <1>1, FirstKey
<1> QED BY <1>2, <1>3, <1>4

LEMMA OneFilePins ==
    ASSUME NEW k \in DOMAIN HomeAsk, NEW a \in HomeAsk[k] PROVE PinLeaves(OneFile(a), a)
<1> DEFINE f == OneFile(a)
           O == Hms!Offered(a.providers)
           P == Hms!Pin(a)
<1>1. /\ DOMAIN P \subseteq Paths /\ O \subseteq Paths
      /\ \A q \in Paths : /\ <<"pin">> \o q \in Paths /\ (<<"pin">> \o q)[1] = "pin"
                          /\ Tail(<<"pin">> \o q) = q /\ <<"pin">> \o q # <<>>
                          /\ <<"models">> \o q \in Paths /\ (<<"models">> \o q)[1] = "models"
                          /\ <<"models">> \o q # <<>>
  BY PinPaths, OfferedArePaths
<1>2. /\ DOMAIN f = {<<"pin">> \o q : q \in DOMAIN P} \cup {<<"models">> \o q : q \in O}
      /\ \A p \in DOMAIN f : f[p] = IF p[1] = "pin" THEN P[Tail(p)] ELSE "proxy"
  BY DEF OneFile
<1> HIDE DEF f, O
<1>3. DOMAIN f \subseteq Paths
  BY <1>1, <1>2
<1>4. Unpinned(a) => \A q \in DOMAIN f : q # <<>> /\ q[1] # "pin"
  BY <1>1, <1>2 DEF Unpinned
<1>5. ASSUME NEW h, Pinned(a, h)
      PROVE  /\ <<"pin">> \o <<"provider">> \in DOMAIN f /\ f[<<"pin">> \o <<"provider">>] = h.name
             /\ <<"pin">> \o <<"model">> \in DOMAIN f /\ f[<<"pin">> \o <<"model">>] = a.default
             /\ <<"models">> \o <<h.name, a.default>> \in DOMAIN f
  <2>1. /\ <<"provider">> \in DOMAIN P /\ <<"model">> \in DOMAIN P
        /\ P[<<"provider">>] = h.name /\ P[<<"model">>] = a.default /\ <<h.name, a.default>> \in O
    BY <1>5 DEF Pinned, O
  <2> HIDE DEF P
  <2>2. ASSUME NEW q \in DOMAIN P PROVE <<"pin">> \o q \in DOMAIN f /\ f[<<"pin">> \o q] = P[q]
    <3> DEFINE p == <<"pin">> \o q
    <3>1. p \in DOMAIN f /\ p[1] = "pin" /\ Tail(p) = q
      BY <1>1, <1>2
    <3> HIDE DEF p
    <3>2. p \in DOMAIN f /\ f[p] = P[q]
      BY <1>2, <3>1
    <3> QED BY <3>2 DEF p
  <2>3. <<"models">> \o <<h.name, a.default>> \in DOMAIN f
    BY <1>2, <2>1
  <2> QED BY <2>1, <2>2, <2>3
<1> QED BY <1>3, <1>4, <1>5 DEF PinLeaves, f

LEMMA OneModelPins ==
    ASSUME NEW k \in DOMAIN HomeAsk, NEW a \in HomeAsk[k], Hms!Hosting(a) # <<>>
    PROVE  PinLeaves(OneModel(a), a)
<1> DEFINE f == OneModel(a)
           P == Hms!Pin(a)
           r == Hms!Hosting(a)[1]
           m == <<"models", r.name, a.default>>
           g == [p \in {<<"pin">> \o q : q \in DOMAIN P} |-> P[Tail(p)]]
<1>1. /\ DOMAIN P \subseteq Paths
      /\ \A q \in Paths : /\ <<"pin">> \o q \in Paths /\ (<<"pin">> \o q)[1] = "pin"
                          /\ Tail(<<"pin">> \o q) = q /\ <<"pin">> \o q # <<>>
                          /\ <<"models">> \o q \in Paths /\ (<<"models">> \o q)[1] = "models"
                          /\ <<"models">> \o q # <<>>
  BY PinPaths
<1>2. PICK h : Pinned(a, h)
  BY PinIs DEF Unpinned
<1>3. r = h /\ h.name \in Key /\ a.default \in Key
  BY <1>2 DEF Pinned, Provider
<1>4. m = <<"models">> \o <<h.name, a.default>> /\ <<h.name, a.default>> \in Paths
  <2>1. "models" \in Key
    BY KeyAssumption
  <2>2. <<"models">> \o <<h.name, a.default>> = <<"models", h.name, a.default>>
    BY <1>3, <2>1, ShortPaths
  <2>3. <<h.name, a.default>> \in Paths
    BY <1>3 DEF Paths
  <2> QED BY <1>3, <2>2, <2>3
<1>5. f = Joined(g, Leaf(m, "proxy"))
  BY DEF OneModel
<1>6. DOMAIN g = {<<"pin">> \o q : q \in DOMAIN P} /\ \A q \in DOMAIN P : g[<<"pin">> \o q] = P[q]
  BY <1>1
<1> HIDE DEF f, g, m
<1>7. /\ DOMAIN f = DOMAIN g \cup {m}
      /\ \A p \in DOMAIN g : f[p] = g[p]
  BY <1>5 DEF Joined, Leaf
<1>8. DOMAIN f \subseteq Paths
  <2>1. m \in Paths
    BY <1>1, <1>4
  <2>2. DOMAIN g \subseteq Paths
    BY <1>1, <1>6
  <2> QED BY <1>7, <2>1, <2>2
<1>9. ~ Unpinned(a)
  BY DEF Unpinned
<1>10. ASSUME NEW i, Pinned(a, i) PROVE i = h
  BY <1>2, <1>10 DEF Pinned
<1>11. /\ <<"pin">> \o <<"provider">> \in DOMAIN f /\ f[<<"pin">> \o <<"provider">>] = h.name
       /\ <<"pin">> \o <<"model">> \in DOMAIN f /\ f[<<"pin">> \o <<"model">>] = a.default
       /\ <<"models">> \o <<h.name, a.default>> \in DOMAIN f
  <2>1. /\ <<"provider">> \in DOMAIN P /\ <<"model">> \in DOMAIN P
        /\ P[<<"provider">>] = h.name /\ P[<<"model">>] = a.default
    BY <1>2 DEF Pinned
  <2> HIDE DEF P
  <2>2. ASSUME NEW q \in DOMAIN P PROVE <<"pin">> \o q \in DOMAIN f /\ f[<<"pin">> \o q] = P[q]
    BY <1>6, <1>7
  <2> QED BY <1>4, <1>7, <2>1, <2>2
<1> QED BY <1>8, <1>9, <1>10, <1>11 DEF PinLeaves, f

LEMMA OwnPinKept ==
    ASSUME NEW t, NEW u, DOMAIN t \subseteq Paths, DOMAIN u \subseteq Paths,
           Agree(u, t, Headed({"settings"})), OwnPin(t)
    PROVE  OwnPin(u)
<1> DEFINE H == Headed({"settings"})
           pin == <<"settings", "pin">>
<1>1. "settings" \in Key /\ "pin" \in Key /\ "provider" \in Key /\ "model" \in Key /\ "models" \in Key
  BY KeyAssumption
<1>2. ASSUME NEW x \in Key, NEW q \in Paths PROVE <<"settings", x>> \o q \in H
  <2>1. <<"settings", x>> \o q = <<"settings">> \o (<<x>> \o q) /\ <<x>> \o q \in Paths
    <3>1. \A y, z \in Key : \A w \in Paths : <<y, z>> \o w = <<y>> \o (<<z>> \o w) /\ <<z>> \o w \in Paths
      BY TwoKeys
    <3> QED BY <1>1, <3>1, Zenon
  <2>2. <<"settings">> \o (<<x>> \o q) \in Paths /\ (<<"settings">> \o (<<x>> \o q))[1] = "settings"
        /\ <<"settings">> \o (<<x>> \o q) # <<>>
    <3> DEFINE b == <<x>> \o q
    <3>1. b \in Paths
      BY <2>1
    <3> HIDE DEF b
    <3>2. <<"settings">> \o b \in Paths /\ (<<"settings">> \o b)[1] = "settings" /\ <<"settings">> \o b # <<>>
      BY <1>1, <3>1, FirstKey
    <3> QED BY <3>2 DEF b
  <2> DEFINE r == <<"settings", x>> \o q
  <2>3. r \in Paths /\ r[1] = "settings" /\ r # <<>>
    BY <2>1, <2>2
  <2> HIDE DEF r
  <2>4. r \in H
    BY <2>3 DEF Headed, Paths
  <2> QED BY <2>4 DEF r
<1>3. pin \in H
  BY <1>1 DEF Headed, Paths
<1>4. pin \o <<"provider">> \in H /\ pin \o <<"model">> \in H
  BY <1>1, <1>2, OneKey
<1>5. ASSUME NEW x \in Key, NEW y \in Key PROVE <<"settings", "models">> \o <<x, y>> \in H
  <2>1. <<x, y>> \in Paths
    BY DEF Paths
  <2> QED BY <1>1, <1>2, <2>1
<1>6. \A p \in H : (Has(u, p) <=> Has(t, p)) /\ Get(u, p) = Get(t, p)
  BY AgreeSees
<1> HIDE DEF pin, H
<1>7. CASE ~ Has(t, pin)
  BY <1>3, <1>6, <1>7 DEF OwnPin, pin
<1>8. CASE Has(t, pin)
  <2>1. PICK x \in Key, y \in Key :
          /\ Get(t, pin \o <<"provider">>) = x
          /\ Get(t, pin \o <<"model">>) = y
          /\ Has(t, <<"settings", "models">> \o <<x, y>>)
    BY <1>8 DEF OwnPin, pin
  <2>2. /\ Get(u, pin \o <<"provider">>) = x
        /\ Get(u, pin \o <<"model">>) = y
    BY <1>4, <1>6, <2>1
  <2>3. Has(u, <<"settings", "models">> \o <<x, y>>)
    BY <1>5, <1>6, <2>1
  <2> QED BY <2>2, <2>3 DEF OwnPin, pin
<1> QED BY <1>7, <1>8

LEMMA OwnPinServes ==
    ASSUME NEW t, OwnPin(t)
    PROVE  \/ ~ Has(t, <<"settings", "pin">>)
           \/ Has(t, <<"settings", "models">> \o <<Get(t, <<"settings", "pin">> \o <<"provider">>),
                                                   Get(t, <<"settings", "pin">> \o <<"model">>)>>)
BY DEF OwnPin

\* dsh, Kimi and OpenClaw write a pin that is served, or none.
LEMMA OwnPinsWritten ==
    ASSUME NEW t, DOMAIN t \subseteq Paths, OwnPin(t), NEW k \in DOMAIN HomeAsk, NEW a \in HomeAsk[k],
           agent \in {"dsh", "kimi", "openclaw"}
    PROVE  DOMAIN Hms!Written(t, a).tree \subseteq Paths /\ OwnPin(Hms!Written(t, a).tree)
<1> DEFINE e == Hms!WithEnv(t, a)
           s == <<"settings">>
<1>1. "settings" \in Key /\ s \in Paths /\ s # <<>> /\ "env" # "settings"
  BY KeyAssumption, OneKey
<1>2. DOMAIN e \subseteq Paths /\ Agree(e, t, Headed({"settings"}))
  BY EnvKeeps
<1> HIDE DEF e, s
<1>3. OwnPin(e)
  BY <1>2, OwnPinKept
<1>4. ASSUME NEW u, DOMAIN u \subseteq Paths, NEW f, PinLeaves(f, a)
      PROVE  DOMAIN PutAt(u, s, f) \subseteq Paths /\ OwnPin(PutAt(u, s, f))
  <2>1. DOMAIN f \subseteq Paths
    BY <1>4 DEF PinLeaves
  <2> QED BY <1>1, <1>4, <2>1, PutAtKeeps, PinIsOwn DEF s
<1>5. Hms!InOneFile(t, a) = PutAt(e, s, OneFile(a))
  BY HomesTrees DEF Hms!InOneFile, OneFile, e, s
<1>6. PinLeaves(OneFile(a), a)
  BY OneFilePins
<1>7. CASE agent \in {"dsh", "kimi"}
  <2>1. Hms!Written(t, a) \in {Hms!Done(Hms!InOneFile(t, a)), Hms!Failed(e)}
    BY <1>7 DEF Hms!Written, Hms!Dsh, Hms!Kimi, e
  <2>2. Hms!Written(t, a).tree \in {Hms!InOneFile(t, a), e}
    BY <2>1 DEF Hms!Done, Hms!Failed
  <2> QED BY <1>2, <1>3, <1>4, <1>5, <1>6, <2>2
<1>8. CASE agent = "openclaw"
  <2>1. Hms!Written(t, a) = Hms!OpenClaw(t, a)
    BY <1>8 DEF Hms!Written
  <2>2. CASE Hms!Hosting(a) = <<>>
    <3>1. Hms!Written(t, a).tree = t
      BY <2>1, <2>2 DEF Hms!OpenClaw, Hms!Failed
    <3> QED BY <3>1
  <2>3. CASE Hms!Hosting(a) # <<>>
    <3>1. Hms!Written(t, a).tree = PutAt(t, s, OneModel(a))
      BY <2>1, <2>3, HomesTrees DEF Hms!OpenClaw, Hms!Done, OneModel, s
    <3>2. PinLeaves(OneModel(a), a)
      BY <2>3, OneModelPins
    <3> QED BY <1>4, <3>1, <3>2
  <2> QED BY <2>2, <2>3
<1> QED BY <1>7, <1>8

\* Pi writes the pin and the providers into two files.
LEMMA PiWrites ==
    ASSUME NEW t, DOMAIN t \subseteq Paths, NEW k \in DOMAIN HomeAsk, NEW a \in HomeAsk[k]
    PROVE  LET new == Hms!Pi(t, a).tree
               pin(x) == Get(new, <<"settings.json">> \o x)
           IN  /\ DOMAIN new \subseteq Paths
               /\ Hms!Pi(t, a).ok /\ DOMAIN t = {} =>
                     \/ ~ Has(new, <<"settings.json">>)
                     \/ Has(new, <<"models.json">> \o <<pin(<<"provider">>), pin(<<"model">>)>>)
<1> DEFINE s == <<"settings.json">>
           m == <<"models.json">>
           e == Hms!WithEnv(t, a)
           P == Hms!Pin(a)
           pinned == IF P = Hms!Empty THEN e ELSE PutAt(e, s, P)
           r == Hms!Routes(a.providers)
           full == PutAt(pinned, m, r)
           new == Hms!Pi(t, a).tree
<1>1. /\ s \in Paths /\ s # <<>> /\ s[1] = "settings.json" /\ s \in Headed({"settings.json"})
      /\ m \in Paths /\ m # <<>> /\ m[1] = "models.json"
      /\ "env" # "settings.json" /\ "settings.json" # "models.json"
  BY KeyAssumption, OneKey DEF Headed
<1>2. DOMAIN e \subseteq Paths /\ Agree(e, t, Headed({"settings.json"}))
  BY EnvKeeps
<1>3. DOMAIN P \subseteq Paths
  BY PinPaths
<1>4. DOMAIN r = Hms!Offered(a.providers) /\ DOMAIN r \subseteq Paths
  BY OfferedArePaths DEF Hms!Routes
<1>5. /\ Hms!Pi(t, a).ok => new = full
      /\ new \in {pinned, full}
  BY HomesTrees DEF Hms!Pi, Hms!Done, Hms!Failed
<1> HIDE DEF s, m, e, P, r, new
<1>6. DOMAIN pinned \subseteq Paths
  BY <1>1, <1>2, <1>3, PutAtKeeps
<1>7. /\ DOMAIN full \subseteq Paths /\ Agree(full, pinned, Headed({"settings.json"}))
      /\ IsPutAt(full, pinned, m, r)
  <2> HIDE DEF pinned
  <2> QED BY <1>1, <1>4, <1>6, PutAtKeeps, PutAtIs
<1> HIDE DEF full
<1>8. DOMAIN new \subseteq Paths
  BY <1>5, <1>6, <1>7
<1>9. ASSUME new = full, DOMAIN t = {}, Unpinned(a) PROVE ~ Has(new, s)
  <2>1. P = Hms!Empty
    BY <1>9 DEF Unpinned, Hms!Pin, P
  <2>2. pinned = e
    BY <2>1
  <2> HIDE DEF pinned
  <2>3. Has(full, s) <=> Has(t, s)
    BY <1>1, <1>2, <1>6, <1>7, <2>2, AgreeSees
  <2> QED BY <1>9, <2>3 DEF Has
<1>10. ASSUME new = full, NEW h, Pinned(a, h)
       PROVE  Has(new, m \o <<Get(new, s \o <<"provider">>), Get(new, s \o <<"model">>)>>)
  <2>1. /\ DOMAIN P = {<<"provider">>, <<"model">>} /\ P[<<"provider">>] = h.name /\ P[<<"model">>] = a.default
        /\ <<h.name, a.default>> \in DOMAIN r
    BY <1>4, <1>10 DEF Pinned, P
  <2>2. P # Hms!Empty
    BY <2>1 DEF Hms!Empty
  <2>3. IsPutAt(pinned, e, s, P)
    BY <1>1, <1>3, <2>2, PutAtIs
  <2> HIDE DEF pinned
  <2>4. ASSUME NEW q \in DOMAIN P PROVE Get(new, s \o q) = P[q]
    <3>1. q \in Paths /\ s \o q \in DOMAIN pinned /\ pinned[s \o q] = P[q]
      BY <1>3, <2>3, <2>4 DEF IsPutAt
    <3>2. s \o q \in Headed({"settings.json"})
      <4>1. s \o q \in Paths /\ (s \o q)[1] = "settings.json" /\ s \o q # <<>>
        BY <3>1, FirstKey, KeyAssumption DEF s
      <4> DEFINE z == s \o q
      <4>2. z \in Paths /\ z[1] = "settings.json" /\ z # <<>>
        BY <4>1
      <4> HIDE DEF z
      <4>3. z \in Headed({"settings.json"})
        BY <4>2 DEF Headed, Paths
      <4> QED BY <4>3 DEF z
    <3>3. s \o q \in DOMAIN full /\ full[s \o q] = pinned[s \o q]
      BY <1>7, <3>1, <3>2 DEF Agree
    <3> QED BY <1>10, <3>1, <3>3 DEF Get
  <2>5. Get(new, s \o <<"provider">>) = h.name /\ Get(new, s \o <<"model">>) = a.default
    BY <2>1, <2>4
  <2>6. Has(new, m \o <<h.name, a.default>>)
    <3> DEFINE w == <<h.name, a.default>>
    <3>1. w \in DOMAIN r
      BY <2>1
    <3> HIDE DEF w
    <3>2. m \o w \in DOMAIN new
      BY <1>7, <1>10, <3>1 DEF IsPutAt
    <3>3. m \o w \in Paths
      BY <1>8, <3>2
    <3>4. Above(m \o w, m \o w)
      BY <3>3, PrefixMeans
    <3>5. Has(new, m \o w)
      BY <3>2, <3>4 DEF Has
    <3> QED BY <3>5 DEF w
  <2> QED BY <2>5, <2>6
<1> QED BY <1>5, <1>8, <1>9, <1>10, PinIs DEF s, m, new

\* The models of a launch of Claude, its default first.
IsAliased(l, a) ==
    /\ l \in Seq(Hms!Range(a.models) \cup {a.default})
    /\ a.default # None => Len(l) > 0 /\ l[1] = a.default

LEMMA AliasedIs ==
    ASSUME NEW k \in DOMAIN HomeAsk, NEW a \in HomeAsk[k] PROVE IsAliased(Hms!Aliased(a), a)
<1> DEFINE s == a.models
           S == Hms!Range(s) \cup {a.default}
           I == {i \in 1 .. Len(s) : s[i] = a.default}
           first == Least(I)
           l == Hms!Aliased(a)
           rest == Hms!Without(s, first)
           h == <<a.default>>
<1>1. s \in Seq(Key) /\ Len(s) \in Nat /\ DOMAIN s = 1 .. Len(s)
  BY HomesAsked
<1>2. s \in Seq(S)
  <2> HIDE DEF S
  <2>1. s = [i \in 1 .. Len(s) |-> s[i]]
    BY <1>1
  <2>2. \A i \in 1 .. Len(s) : s[i] \in S
    BY <1>1 DEF Hms!Range, S
  <2> HIDE DEF s
  <2> QED BY <1>1, <2>1, <2>2
<1>3. I # {} => first \in 1 .. Len(s)
  <2>1. I \in SUBSET Nat
    OBVIOUS
  <2> HIDE DEF I
  <2>2. I # {} => first \in I
    BY <2>1, MinIsFirst
  <2> QED BY <2>2 DEF I
<1>4. \A i \in 1 .. Len(s) : Hms!Without(s, i) = Roles!Without(s, i)
  BY DEF Hms!Without, Roles!Without
<1>5. l = IF a.default = None THEN s ELSE IF I = {} THEN h \o s ELSE h \o rest
  <2>1. Hms!FirstWhere(s, LAMBDA m : m = a.default) = IF I = {} THEN 0 ELSE first
    BY DEF Hms!FirstWhere, Hms!Least, Least
  <2> HIDE DEF I, first, rest, h
  <2>2. I # {} => first # 0
    BY <1>3
  <2> QED BY <2>1, <2>2 DEF Hms!Aliased, rest, h
<1> HIDE DEF I, first, l
<1>6. I # {} => rest \in Seq(S)
  BY <1>2, <1>3, <1>4, RemoveAtIs
<1> HIDE DEF rest
<1>7. h \in Seq(S) /\ Len(h) = 1 /\ h[1] = a.default
  OBVIOUS
<1> HIDE DEF h, s, S
<1>8. ASSUME NEW r \in Seq(S) PROVE h \o r \in Seq(S) /\ Len(h \o r) > 0 /\ (h \o r)[1] = a.default
  <2>1. Len(r) \in Nat
    OBVIOUS
  <2>2. /\ h \o r \in Seq(S) /\ Len(h \o r) = Len(h) + Len(r)
        /\ \A j \in 1 .. Len(h) + Len(r) : (h \o r)[j] = IF j <= Len(h) THEN h[j] ELSE r[j - Len(h)]
    BY <1>7, ConcatProperties
  <2>3. 1 \in 1 .. Len(h) + Len(r) /\ 1 <= Len(h)
    BY <1>7, <2>1
  <2> QED BY <1>7, <2>1, <2>2, <2>3
<1>9. l \in Seq(S) /\ (a.default # None => Len(l) > 0 /\ l[1] = a.default)
  BY <1>2, <1>5, <1>6, <1>8
<1> QED BY <1>9 DEF IsAliased, l, S, s

\* The aliases of Claude's settings.
Aliases == {"SONNET", "OPUS", "HAIKU"}

IsSettings(s, a) ==
    /\ DOMAIN s \subseteq Paths
    /\ Hms!Aliased(a) # <<>> /\ <<"env">> \notin DOMAIN a.template =>
          /\ \A alias \in Aliases : /\ <<"env", alias>> \in DOMAIN s
                                    /\ s[<<"env", alias>>] \in Hms!Range(a.models) \cup {a.default}
          /\ a.default # None => s[<<"env", "SONNET">>] = a.default

LEMMA SettingsAre ==
    ASSUME NEW k \in DOMAIN HomeAsk, NEW a \in HomeAsk[k] PROVE IsSettings(Hms!Settings(a), a)
<1> DEFINE l == Hms!Aliased(a)
           S == Hms!Range(a.models) \cup {a.default}
           P(x) == <<"env", x>>
           based == Put(a.template, P("ANTHROPIC_BASE_URL"), "proxy")
           proxied == PutIfMissing(based, P("WINDOW"), "reactive")
           v(i) == l[IF i > Len(l) THEN 1 ELSE i]
           one == Put(proxied, P("HAIKU"), v(3))
           two == Put(one, P("SONNET"), v(1))
           three == Put(two, P("OPUS"), v(2))
           s == Hms!Settings(a)
<1>1. DOMAIN a.template \subseteq Paths
  BY HomesAsked
<1>2. IsAliased(l, a)
  BY AliasedIs
<1>3. s = IF <<"env">> \in DOMAIN a.template THEN a.template ELSE IF l = <<>> THEN proxied ELSE three
  BY HomesTrees DEF Hms!Settings
<1>4. \A x \in Aliases \cup {"ANTHROPIC_BASE_URL", "WINDOW"} :
        /\ P(x) \in Paths /\ Len(P(x)) = 2 /\ P(x)[2] = x
  <2> SUFFICES ASSUME NEW x \in Aliases \cup {"ANTHROPIC_BASE_URL", "WINDOW"}
               PROVE  P(x) \in Paths /\ Len(P(x)) = 2 /\ P(x)[2] = x
    OBVIOUS
  <2>1. x \in Key /\ "env" \in Key
    BY KeyAssumption DEF Aliases
  <2> QED BY <2>1 DEF Paths
<1>5. \A x, y \in Aliases : x # y => Apart(P(x), P(y)) /\ P(x) # P(y)
  <2> SUFFICES ASSUME NEW x \in Aliases, NEW y \in Aliases, x # y PROVE Apart(P(x), P(y)) /\ P(x) # P(y)
    OBVIOUS
  <2> HIDE DEF P
  <2>1. 2 \in 1 .. Len(P(x)) /\ 2 \in 1 .. Len(P(y)) /\ P(x)[2] # P(y)[2]
    BY <1>4
  <2> QED BY <1>4, <2>1, ApartAt
<1> HIDE DEF P, l, v, s
<1>6. DOMAIN based \subseteq Paths
  BY <1>1, <1>4, TreesStayTrees
<1> HIDE DEF based
<1>7. DOMAIN proxied \subseteq Paths
  BY <1>4, <1>6, TreesStayTrees
<1> HIDE DEF proxied
<1>8. DOMAIN one \subseteq Paths /\ P("HAIKU") \in DOMAIN one /\ one[P("HAIKU")] = v(3)
  BY <1>4, <1>7, TreesStayTrees, PutIs DEF Aliases
<1> HIDE DEF one
<1>9. /\ DOMAIN two \subseteq Paths /\ P("HAIKU") \in DOMAIN two /\ two[P("HAIKU")] = v(3)
      /\ P("SONNET") \in DOMAIN two /\ two[P("SONNET")] = v(1)
  BY <1>4, <1>5, <1>8, TreesStayTrees, PutIs DEF Aliases
<1> HIDE DEF two
<1>10. /\ DOMAIN three \subseteq Paths /\ P("HAIKU") \in DOMAIN three /\ three[P("HAIKU")] = v(3)
       /\ P("SONNET") \in DOMAIN three /\ three[P("SONNET")] = v(1)
       /\ P("OPUS") \in DOMAIN three /\ three[P("OPUS")] = v(2)
  BY <1>4, <1>5, <1>9, TreesStayTrees, PutIs DEF Aliases
<1> HIDE DEF three
<1>11. DOMAIN s \subseteq Paths
  BY <1>1, <1>3, <1>7, <1>10
<1>12. ASSUME l # <<>>, <<"env">> \notin DOMAIN a.template
       PROVE  /\ \A x \in Aliases : P(x) \in DOMAIN s /\ s[P(x)] \in S
              /\ a.default # None => s[P("SONNET")] = a.default
  <2>1. s = three
    BY <1>3, <1>12
  <2>2. l \in Seq(S) /\ Len(l) \in Nat /\ Len(l) > 0 /\ (a.default # None => l[1] = a.default)
    BY <1>2, <1>12 DEF IsAliased
  <2> HIDE DEF S
  <2>3. \A i \in 1 .. 3 : v(i) \in S
    BY <2>2, ElementOfSeq DEF v
  <2>4. v(1) = l[1]
    BY <2>2 DEF v
  <2>5. v(1) \in S /\ v(2) \in S /\ v(3) \in S
    BY <2>3
  <2> QED BY <1>10, <2>1, <2>2, <2>4, <2>5 DEF Aliases
<1> QED BY <1>11, <1>12 DEF IsSettings, P, s, l, S

\* The names of the servers of a launch.
Named(servers) == {s.name : s \in Hms!Range(servers)}

LEMMA ServerOfIs ==
    ASSUME NEW k \in DOMAIN HomeAsk, NEW a \in HomeAsk[k], NEW n \in Named(a.servers)
    PROVE  n \in Key /\ DOMAIN Hms!ServerOf(a.servers, n).leaves \subseteq Paths
<1> DEFINE s == a.servers
           I == {i \in DOMAIN s : s[i].name = n}
           N == {Len(s) - i : i \in I}
           Latest(i) == s[i].name = n /\ \A j \in DOMAIN s : s[j].name = n => j <= i
<1>1. DOMAIN s = 1 .. Len(s) /\ Len(s) \in Nat
      /\ \A i \in DOMAIN s : s[i].name \in Key /\ DOMAIN s[i].leaves \subseteq Paths
  BY HomesAsked
<1>2. PICK i0 \in DOMAIN s : s[i0].name = n
  BY DEF Named, Hms!Range
<1> HIDE DEF s
<1>3. N \in SUBSET Nat /\ N # {}
  BY <1>1, <1>2
<1>4. PICK m \in N : \A x \in N : m <= x
  <2> HIDE DEF N
  <2> QED BY <1>3, Smallest
<1>5. PICK i \in I : m = Len(s) - i
  BY DEF N
<1>6. \A j \in I : Len(s) - j \in N
  BY DEF N
<1>7. \A j \in I : j <= i
  <2> SUFFICES ASSUME NEW j \in I PROVE j <= i
    OBVIOUS
  <2>1. Len(s) - i <= Len(s) - j
    BY <1>4, <1>5, <1>6
  <2>2. i \in 1 .. Len(s) /\ j \in 1 .. Len(s)
    BY <1>1
  <2> QED BY <1>1, <2>1, <2>2
<1>8. \E c \in DOMAIN s : Latest(c)
  <2>1. i \in DOMAIN s /\ s[i].name = n
    BY <1>5
  <2>2. \A j \in DOMAIN s : s[j].name = n => j <= i
    BY <1>7
  <2> QED BY <2>1, <2>2
<1> DEFINE c == CHOOSE c \in DOMAIN s : Latest(c)
<1>9. c \in DOMAIN s /\ Latest(c)
  BY <1>8
<1>10. Hms!ServerOf(s, n) = s[c]
  BY DEF Hms!ServerOf
<1> HIDE DEF c
<1> QED BY <1>1, <1>9, <1>10 DEF s

\* What becomes of the servers of a tree.
IsMerged(w, o, servers) ==
    /\ DOMAIN w \subseteq Paths
    /\ \A n \in Named(servers) : \A p \in Servers("mcpServers", n) :
          p \in DOMAIN w <=> \E q \in DOMAIN Hms!ServerOf(servers, n).leaves : p = <<"mcpServers", n>> \o q
    /\ \A n \in Named(servers) : \A q \in DOMAIN Hms!ServerOf(servers, n).leaves :
          w[<<"mcpServers", n>> \o q] = Hms!ServerOf(servers, n).leaves[q]
    /\ \A n : n \notin Named(servers) => Agree(w, o, Servers("mcpServers", n))

LEMMA ServedPath ==
    ASSUME NEW n \in Key, NEW q \in Paths
    PROVE  /\ <<"mcpServers", n>> \in Paths /\ <<"mcpServers", n>> \o q \in Servers("mcpServers", n)
           /\ SubSeq(<<"mcpServers", n>> \o q, 3, Len(<<"mcpServers", n>> \o q)) = q
           /\ \A p \in Paths : Above(<<"mcpServers", n>>, p) <=> p \in Servers("mcpServers", n)
<1> DEFINE a == <<"mcpServers", n>>
<1>1. a \in Paths /\ Len(a) = 2 /\ a[1] = "mcpServers" /\ a[2] = n
  BY KeyAssumption DEF Paths
<1> HIDE DEF a
<1>2. /\ a \o q \in Paths /\ Len(a \o q) = Len(a) + Len(q) /\ Len(q) \in Nat
      /\ \A i \in 1 .. Len(a) : (a \o q)[i] = a[i]
  BY <1>1, ConcatIs
<1>3. a \o q \in Servers("mcpServers", n)
  <2>1. 1 \in 1 .. Len(a) /\ 2 \in 1 .. Len(a)
    BY <1>1
  <2> DEFINE p == a \o q
  <2>2. p \in Paths /\ Len(p) >= 2 /\ p[1] = "mcpServers" /\ p[2] = n
    BY <1>1, <1>2, <2>1
  <2> HIDE DEF p
  <2>3. p \in Servers("mcpServers", n)
    BY <2>2 DEF Servers
  <2> QED BY <2>3 DEF p
<1>4. SubSeq(a \o q, 3, Len(a \o q)) = q
  <2>1. SubSeq(a \o q, Len(a) + 1, Len(a \o q)) = q
    BY <1>1, Behind
  <2> QED BY <1>1, <2>1
<1>5. ASSUME NEW p \in Paths PROVE Above(a, p) <=> p \in Servers("mcpServers", n)
  <2>1. Len(p) \in Nat
    BY DEF Paths
  <2>2. Above(a, p) <=> Len(a) <= Len(p) /\ \A i \in 1 .. Len(a) : a[i] = p[i]
    BY <1>1, PrefixMeans
  <2>3. Above(a, p) <=> 2 <= Len(p) /\ a[1] = p[1] /\ a[2] = p[2]
    BY <1>1, <2>1, <2>2
  <2> QED BY <1>1, <2>1, <2>3 DEF Servers
<1> QED BY <1>1, <1>3, <1>4, <1>5 DEF a

LEMMA ServersApart ==
    ASSUME NEW m, NEW n, m # n, NEW p \in Servers("mcpServers", m), NEW q \in Servers("mcpServers", n)
    PROVE  Apart(p, q) /\ p # q
<1>1. p \in Paths /\ q \in Paths /\ 2 \in 1 .. Len(p) /\ 2 \in 1 .. Len(q) /\ p[2] # q[2]
  BY DEF Servers, Paths
<1> QED BY <1>1, ApartAt

LEMMA ServersMerged ==
    ASSUME NEW k \in DOMAIN HomeAsk, NEW a \in HomeAsk[k], NEW t, DOMAIN t \subseteq Paths
    PROVE  IsMerged(Hms!WithServers(t, a.servers), t, a.servers)
<1> DEFINE s == a.servers
           P(n) == <<"mcpServers", n>>
           of(n) == Hms!ServerOf(s, n).leaves
           names == Named(s)
           leaves == UNION {{P(n) \o q : q \in DOMAIN of(n)} : n \in names}
           bare == Kept(t, {p \in DOMAIN t : \A n \in names : ~ Hms!Above(P(n), p)})
           o == [p \in leaves |-> of(p[2])[SubSeq(p, 3, Len(p))]]
           w == Hms!WithServers(t, s)
           M(n) == Servers("mcpServers", n)
<1>1. w = Overlay(bare, o)
  BY HomesTrees DEF Hms!WithServers, Named
<1>2. \A n \in names : n \in Key /\ DOMAIN of(n) \subseteq Paths
  BY ServerOfIs
<1> HIDE DEF of, names
<1>3. ASSUME NEW n \in names, NEW q \in DOMAIN of(n)
      PROVE  P(n) \o q \in DOMAIN o /\ o[P(n) \o q] = of(n)[q] /\ P(n) \o q \in M(n)
  <2>1. n \in Key /\ q \in Paths
    BY <1>2
  <2> DEFINE p == P(n) \o q
  <2>2. p \in M(n) /\ SubSeq(p, 3, Len(p)) = q
    BY <2>1, ServedPath
  <2>3. p \in leaves
    OBVIOUS
  <2> HIDE DEF p, leaves
  <2>4. p[2] = n
    BY <2>2 DEF Servers
  <2>5. p \in DOMAIN o /\ o[p] = of(n)[q]
    BY <2>2, <2>3, <2>4
  <2> QED BY <2>2, <2>5 DEF p
<1>4. \A p \in DOMAIN o : \E n \in names : \E q \in DOMAIN of(n) : p = P(n) \o q
  OBVIOUS
<1>5. /\ \A p : p \in DOMAIN bare <=> p \in DOMAIN t /\ \A n \in names : p \notin M(n)
      /\ \A p \in DOMAIN bare : bare[p] = t[p]
  <2>1. \A p \in DOMAIN t, n \in names : Hms!Above(P(n), p) <=> p \in M(n)
    BY <1>2, HomesTrees, ServedPath
  <2> HIDE DEF P, M
  <2> QED BY <2>1 DEF Kept
<1> HIDE DEF o, bare, P, M, w
<1>6. /\ \A p : p \in DOMAIN w <=> p \in DOMAIN o \/ (p \in DOMAIN bare /\ \A q \in DOMAIN o : Apart(p, q))
      /\ \A p \in DOMAIN w : w[p] = IF p \in DOMAIN o THEN o[p] ELSE bare[p]
  BY <1>1, OverlayIs
<1>7. ASSUME NEW p \in DOMAIN o
      PROVE  p \in Paths /\ \E n \in names : p \in M(n) /\ \E q \in DOMAIN of(n) : p = P(n) \o q
  <2>1. PICK n \in names : \E q \in DOMAIN of(n) : p = P(n) \o q
    BY <1>4
  <2>2. PICK q \in DOMAIN of(n) : p = P(n) \o q
    BY <2>1
  <2>3. p \in M(n)
    BY <1>3, <2>2
  <2>4. p \in Paths
    BY <2>3 DEF M, Servers
  <2> QED BY <2>1, <2>3, <2>4
<1>8. DOMAIN w \subseteq Paths
  BY <1>5, <1>6, <1>7
<1>9. \A m, n, p : p \in M(m) /\ p \in M(n) => m = n
  BY DEF M, Servers
<1>10. ASSUME NEW n \in names, NEW p \in M(n) PROVE p \in DOMAIN w <=> \E q \in DOMAIN of(n) : p = P(n) \o q
  <2>1. p \in DOMAIN w <=> p \in DOMAIN o
    BY <1>5, <1>6, <1>10
  <2>2. ASSUME p \in DOMAIN o PROVE \E q \in DOMAIN of(n) : p = P(n) \o q
    <3>1. PICK m \in names : p \in M(m) /\ \E q \in DOMAIN of(m) : p = P(m) \o q
      BY <1>7, <2>2
    <3>2. m = n
      BY <1>9, <1>10, <3>1
    <3> QED BY <3>1, <3>2
  <2> QED BY <1>3, <2>1, <2>2
<1>11. ASSUME NEW n \in names, NEW q \in DOMAIN of(n) PROVE w[P(n) \o q] = of(n)[q]
  BY <1>3, <1>6
<1>12. ASSUME NEW n, n \notin names PROVE Agree(w, t, M(n))
  <2>1. \A p \in M(n), q \in DOMAIN o : Apart(p, q) /\ p # q
    BY <1>7, <1>12, ServersApart DEF M
  <2>2. \A p \in M(n) : p \in DOMAIN w <=> p \in DOMAIN t
    BY <1>5, <1>6, <1>9, <1>12, <2>1
  <2>3. \A p \in M(n) : p \in DOMAIN w => w[p] = t[p]
    BY <1>5, <1>6, <2>1
  <2> QED BY <2>2, <2>3 DEF Agree
<1> QED BY <1>8, <1>10, <1>11, <1>12 DEF IsMerged, s, P, of, names, M, w

LEMMA PrefixTrans ==
    ASSUME NEW p \in Paths, NEW q \in Paths, NEW r \in Paths, Above(p, q), Above(q, r) PROVE Above(p, r)
<1>1. Len(p) \in Nat /\ Len(q) \in Nat /\ Len(r) \in Nat
  BY DEF Paths
<1> QED BY <1>1, PrefixMeans

\* The configuration of the user, by what it does at a server.
Serving(t, n) == \E q \in DOMAIN t : q \in Servers("mcpServers", n)

IsUserConfig(u, a) ==
    /\ IsMerged(u, OverlayProfile(a.user, a.overlay, "mcpServers"), a.servers)
    /\ \A n : n \notin Named(a.servers) /\ Serving(a.overlay, n) => Agree(u, a.overlay, Servers("mcpServers", n))
    /\ \A n : n \notin Named(a.servers) /\ ~ Serving(a.overlay, n) /\ Hms!Mergeable(a)
          => Agree(u, a.user, Servers("mcpServers", n))

LEMMA UserConfigIs ==
    ASSUME NEW k \in DOMAIN HomeAsk, NEW a \in HomeAsk[k] PROVE IsUserConfig(Hms!UserConfig(a), a)
<1> DEFINE over == a.overlay
           user == a.user
           o == OverlayProfile(user, over, "mcpServers")
           u == Hms!UserConfig(a)
           M(n) == Servers("mcpServers", n)
<1>1. DOMAIN user \subseteq Paths \ {<<>>} /\ DOMAIN over \subseteq Paths \ {<<>>}
  BY HomesAsked
<1>2. u = Hms!WithServers(o, a.servers)
  BY HomesTrees DEF Hms!UserConfig
<1>3. Hms!Mergeable(a) => <<"mcpServers">> \notin DOMAIN over
  BY DEF Hms!Mergeable
<1> HIDE DEF user, over
<1>4. /\ \A p : p \in DOMAIN o <=>
            \/ p \in DOMAIN over
            \/ /\ p \in DOMAIN user
               /\ \A n : p \in Servers("mcpServers", n) => \A q \in DOMAIN over : q \notin Servers("mcpServers", n)
               /\ \A q \in DOMAIN over : Apart(p, q)
      /\ \A p \in DOMAIN o : o[p] = IF p \in DOMAIN over THEN over[p] ELSE user[p]
  BY <1>1, OverlayProfileIs
<1> HIDE DEF o, u
<1>5. DOMAIN o \subseteq Paths
  BY <1>1, <1>4
<1>6. IsMerged(u, o, a.servers)
  BY <1>2, <1>5, ServersMerged
<1>7. \A n : n \notin Named(a.servers) => Agree(u, o, M(n))
  BY <1>6 DEF IsMerged
<1>8. ASSUME NEW n, Serving(over, n) PROVE Agree(o, over, M(n))
  <2>1. \A p \in M(n) : p \in DOMAIN o <=> p \in DOMAIN over
    BY <1>4, <1>8 DEF Serving
  <2> QED BY <1>4, <2>1 DEF Agree
<1>9. ASSUME NEW n, ~ Serving(over, n), Hms!Mergeable(a) PROVE Agree(o, user, M(n))
  <2>1. ASSUME NEW p \in M(n), NEW q \in DOMAIN over PROVE Apart(p, q)
    <3>1. q \in Paths /\ q # <<>> /\ q # <<"mcpServers">> /\ q \notin M(n) /\ Len(q) \in Nat
          /\ p \in Paths /\ Len(p) \in Nat /\ Len(p) >= 2 /\ p[1] = "mcpServers" /\ p[2] = n
      BY <1>1, <1>3, <1>9 DEF Serving, Servers, Paths
    <3>2. Len(q) # 0
      BY <3>1 DEF Paths
    <3>3. ~ (q[1] = "mcpServers" /\ Len(q) = 1)
      <4> SUFFICES ASSUME q[1] = "mcpServers", Len(q) = 1 PROVE FALSE
        OBVIOUS
      <4> DEFINE l == <<"mcpServers">>
      <4>1. l \in Paths /\ Len(l) = 1 /\ l[1] = "mcpServers" /\ q # l
        BY <3>1, KeyAssumption DEF Paths
      <4> HIDE DEF l
      <4>2. \A i \in 1 .. Len(q) : q[i] = l[i]
        BY <4>1
      <4> QED BY <3>1, <4>1, <4>2, SeqEqual DEF Paths
    <3>4. CASE q[1] # "mcpServers"
      <4>1. 1 \in 1 .. Len(p) /\ 1 \in 1 .. Len(q) /\ p[1] # q[1]
        BY <3>1, <3>2, <3>4
      <4> QED BY <3>1, <4>1, ApartAt
    <3>5. CASE q[1] = "mcpServers"
      <4>1. Len(q) >= 2
        <5>1. Len(q) # 1
          BY <3>3, <3>5
        <5>2. Len(q) \in Nat
          BY <3>1
        <5> DEFINE l == Len(q)
        <5>3. l \in Nat /\ l # 0 /\ l # 1
          BY <3>2, <5>1, <5>2
        <5> HIDE DEF l
        <5>4. l >= 2
          BY <5>3
        <5> QED BY <5>4 DEF l
      <4>2. q[2] # n
        BY <3>1, <3>5, <4>1 DEF Servers
      <4>3. 2 \in 1 .. Len(p) /\ 2 \in 1 .. Len(q) /\ p[2] # q[2]
        BY <3>1, <4>1, <4>2
      <4> QED BY <3>1, <4>3, ApartAt
    <3> QED BY <3>4, <3>5
  <2>2. \A p \in M(n) : p \notin DOMAIN over
    BY <1>9 DEF Serving
  <2>3. ASSUME NEW p \in M(n) PROVE \A m : p \in M(m) => \A q \in DOMAIN over : q \notin M(m)
    <3>1. \A m : p \in M(m) => m = n
      BY DEF Servers
    <3> QED BY <1>9, <3>1 DEF Serving
  <2>4. \A p \in M(n) : p \in DOMAIN o <=> p \in DOMAIN user
    BY <1>4, <2>1, <2>2, <2>3
  <2> QED BY <1>4, <2>2, <2>4 DEF Agree
<1>10. ASSUME NEW n, n \notin Named(a.servers), Serving(over, n) PROVE Agree(u, over, M(n))
  BY <1>7, <1>8, <1>10, AgreeTrans
<1>11. ASSUME NEW n, n \notin Named(a.servers), ~ Serving(over, n), Hms!Mergeable(a) PROVE Agree(u, user, M(n))
  BY <1>7, <1>9, <1>11, AgreeTrans
<1> QED BY <1>6, <1>10, <1>11 DEF IsUserConfig, u, o, user, over

\* What is below a path.
Beneath(t, path) == [p \in {q \in DOMAIN t : Above(path, q)} |-> t[p]]

LEMMA BeneathMoves ==
    ASSUME NEW t, DOMAIN t \subseteq Paths, NEW c \in Paths, NEW u, DOMAIN u \subseteq Paths,
           NEW w, DOMAIN w \subseteq Paths, NEW path \in Paths,
           \A q \in Paths : Above(path, q) =>
              (q \in DOMAIN u <=> q \in DOMAIN w) /\ (q \in DOMAIN u => u[q] = w[q])
    PROVE  Beneath(PutAt(t, c, u), c \o path) = PutAt(Hms!Empty, c, Beneath(w, path))
<1> DEFINE new == PutAt(t, c, u)
           b == Beneath(w, path)
           x == Beneath(new, c \o path)
           y == PutAt(Hms!Empty, c, b)
<1>1. IsPutAt(new, t, c, u)
  BY PutAtIs
<1>2. DOMAIN b = {q \in DOMAIN w : Above(path, q)} /\ DOMAIN b \subseteq Paths /\ \A q \in DOMAIN b : b[q] = w[q]
  BY DEF Beneath
<1> HIDE DEF b
<1>3. IsPutAt(y, Hms!Empty, c, b)
  BY <1>2, PutAtIs
<1>4. DOMAIN Hms!Empty = {}
  BY DEF Hms!Empty
<1>5. x = [p \in DOMAIN x |-> x[p]] /\ y = [p \in DOMAIN y |-> y[p]]
  BY DEF Beneath, PutAt, Overlay, Joined
<1> HIDE DEF y
<1>6. /\ \A p : p \in DOMAIN y <=> \E q \in DOMAIN b : p = c \o q
      /\ \A q \in DOMAIN b : y[c \o q] = b[q]
  BY <1>3, <1>4 DEF IsPutAt
<1> HIDE DEF new
<1>7. DOMAIN x = {p \in DOMAIN new : Above(c \o path, p)} /\ \A p \in DOMAIN x : x[p] = new[p]
  BY DEF Beneath
<1> HIDE DEF x
<1>8. c \o path \in Paths /\ Above(c, c \o path)
  BY ConcatIs, ConcatPrefix
<1>9. ASSUME NEW q \in DOMAIN b PROVE c \o q \in DOMAIN x /\ x[c \o q] = b[q]
  <2>1. q \in Paths /\ q \in DOMAIN u /\ Above(path, q) /\ b[q] = u[q]
    BY <1>2
  <2>2. c \o q \in DOMAIN new /\ new[c \o q] = u[q]
    BY <1>1, <2>1 DEF IsPutAt
  <2>3. Above(c \o path, c \o q)
    BY <2>1, ConcatPrefix
  <2> QED BY <1>7, <2>1, <2>2, <2>3
<1>10. ASSUME NEW p \in DOMAIN x PROVE \E q \in DOMAIN b : p = c \o q
  <2>1. p \in DOMAIN new /\ Above(c \o path, p)
    BY <1>7
  <2>2. p \in Paths
    <3>1. p \in DOMAIN t \/ \E q \in DOMAIN u : p = c \o q
      BY <1>1, <2>1 DEF IsPutAt
    <3> QED BY <3>1, ConcatIs
  <2>3. Above(c, p)
    BY <1>8, <2>1, <2>2, PrefixTrans
  <2>4. PICK q \in DOMAIN u : p = c \o q
    BY <1>1, <2>1, <2>3 DEF IsPutAt
  <2>5. Above(path, q)
    BY <2>1, <2>4, ConcatPrefix
  <2>6. q \in DOMAIN b
    BY <1>2, <2>4, <2>5
  <2> QED BY <2>4, <2>6
<1>11. DOMAIN x = DOMAIN y
  <2>1. \A p : p \in DOMAIN x => p \in DOMAIN y
    BY <1>6, <1>10
  <2>2. \A p : p \in DOMAIN y => p \in DOMAIN x
    BY <1>6, <1>9
  <2> QED BY <2>1, <2>2
<1>12. ASSUME NEW p \in DOMAIN x PROVE x[p] = y[p]
  <2>1. PICK q \in DOMAIN b : p = c \o q
    BY <1>10
  <2>2. x[c \o q] = b[q] /\ y[c \o q] = b[q]
    BY <1>6, <1>9
  <2> QED BY <2>1, <2>2
<1>13. x = y
  BY <1>5, <1>11, <1>12
<1> QED BY <1>13 DEF x, y, new, b

LEMMA AgentsKeep ==
    ASSUME NEW k \in DOMAIN HomeAsk, NEW a \in HomeAsk[k], NEW t, DOMAIN t \subseteq Paths
    PROVE  /\ DOMAIN Hms!WithAgents(t, a.models) \subseteq Paths
           /\ \A keys : "agents" \notin keys => Agree(Hms!WithAgents(t, a.models), t, Headed(keys))
<1> DEFINE places == {<<"agents", m>> : m \in Hms!Range(a.models)}
           bare == Kept(t, {p \in DOMAIN t : \A e \in places : ~ Hms!Above(e, p)})
           o == [p \in {e \o <<"model">> : e \in places} |-> p[2]]
           new == Hms!WithAgents(t, a.models)
<1>1. new = Overlay(bare, o)
  BY HomesTrees DEF Hms!WithAgents
<1>2. \A e \in places : e \in Paths /\ e # <<>> /\ e[1] = "agents"
  <2> SUFFICES ASSUME NEW m \in Hms!Range(a.models)
               PROVE  <<"agents", m>> \in Paths /\ <<"agents", m>> # <<>> /\ <<"agents", m>>[1] = "agents"
    OBVIOUS
  <2>1. a.models \in Seq(Key)
    BY HomesAsked
  <2>2. PICK i \in DOMAIN a.models : m = a.models[i]
    BY DEF Hms!Range
  <2>3. m \in Key /\ "agents" \in Key
    BY <2>1, <2>2, ElementOfSeq, KeyAssumption
  <2> QED BY <2>3 DEF Paths
<1>3. /\ \A p : p \in DOMAIN bare <=> p \in DOMAIN t /\ \A e \in places : ~ Above(e, p)
      /\ \A p \in DOMAIN bare : bare[p] = t[p]
  BY HomesTrees DEF Kept
<1>4. DOMAIN o = {e \o <<"model">> : e \in places}
  OBVIOUS
<1> HIDE DEF places, bare, o, new
<1>5. \A p \in DOMAIN o : p \in Paths /\ p # <<>> /\ p[1] = "agents"
  <2> SUFFICES ASSUME NEW e \in places
               PROVE  e \o <<"model">> \in Paths /\ e \o <<"model">> # <<>> /\ (e \o <<"model">>)[1] = "agents"
    BY <1>4
  <2> DEFINE l == <<"model">>
             p == e \o l
  <2>1. l \in Paths
    BY KeyAssumption, OneKey
  <2> HIDE DEF l
  <2>2. /\ p \in Paths /\ Len(p) = Len(e) + Len(l) /\ Len(e) \in Nat /\ Len(l) \in Nat
        /\ \A i \in 1 .. Len(e) : p[i] = e[i]
    BY <1>2, <2>1, ConcatIs
  <2>3. Len(e) > 0
    BY <1>2, <2>2 DEF Paths
  <2> HIDE DEF p
  <2>4. p # <<>> /\ p[1] = e[1]
    BY <2>2, <2>3
  <2> QED BY <1>2, <2>2, <2>4 DEF p, l
<1>6. DOMAIN bare \subseteq Paths
  BY <1>3
<1>7. DOMAIN new \subseteq Paths
  BY <1>1, <1>5, <1>6, TreesStayTrees
<1>8. ASSUME NEW keys, "agents" \notin keys PROVE Agree(new, t, Headed(keys))
  <2>1. \A q \in DOMAIN o : q \in Paths /\ q # <<>> /\ q \notin Headed(keys)
    BY <1>5, <1>8 DEF Headed
  <2>2. Agree(new, bare, Headed(keys))
    BY <1>1, <2>1, OverlayElsewhere
  <2>3. \A e \in places : e \notin Headed(keys)
    BY <1>2, <1>8 DEF Headed
  <2>4. \A p \in Headed(keys) : \A e \in places : ~ Above(e, p)
    BY <1>2, <2>3, HeadsApart DEF Apart
  <2>5. Agree(bare, t, Headed(keys))
    BY <1>3, <2>4 DEF Agree
  <2> QED BY <2>2, <2>5, AgreeTrans
<1> QED BY <1>7, <1>8 DEF new

\* What a launch of Claude writes.
IsClaude(c, t, a) ==
    /\ DOMAIN c.tree \subseteq Paths
    /\ Agree(c.tree, PutAt(t, <<"settings.json">>, Hms!Settings(a)), Headed({"settings.json"}))
    /\ c.ok = TRUE => Hms!Mergeable(a)
    /\ c.ok = TRUE /\ Hms!UserConfig(a) # Hms!Empty =>
          \E u : DOMAIN u \subseteq Paths /\ c.tree = PutAt(u, <<".claude.json">>, Hms!UserConfig(a))

LEMMA ClaudeIs ==
    ASSUME NEW k \in DOMAIN HomeAsk, NEW a \in HomeAsk[k], NEW t, DOMAIN t \subseteq Paths
    PROVE  IsClaude(Hms!Claude(t, a), t, a)
<1> DEFINE s == <<"settings.json">>
           j == <<".claude.json">>
           one == PutAt(t, s, Hms!Settings(a))
           two == Hms!WithAgents(one, a.models)
           u == Hms!UserConfig(a)
           three == PutAt(two, j, u)
           c == Hms!Claude(t, a)
           H == {"settings.json"}
<1>1. /\ s \in Paths /\ s # <<>>
      /\ j \in Paths /\ j # <<>> /\ j[1] = ".claude.json"
      /\ ".claude.json" \notin H /\ "agents" \notin H
  BY KeyAssumption, OneKey
<1>2. c = IF ~ Hms!Mergeable(a) THEN [tree |-> two, ok |-> FALSE]
          ELSE IF u = Hms!Empty THEN [tree |-> two, ok |-> TRUE]
          ELSE [tree |-> three, ok |-> TRUE]
  BY HomesTrees DEF Hms!Claude, Hms!WithUserConfig, Hms!Done, Hms!Failed
<1>3. DOMAIN Hms!Settings(a) \subseteq Paths /\ DOMAIN u \subseteq Paths
  BY SettingsAre, UserConfigIs DEF IsSettings, IsUserConfig, IsMerged
<1> HIDE DEF s, j, u, c, H
<1>4. DOMAIN one \subseteq Paths
  BY <1>1, <1>3, PutAtKeeps
<1> HIDE DEF one
<1>5. DOMAIN two \subseteq Paths /\ Agree(two, one, Headed(H))
  BY <1>1, <1>4, AgentsKeep
<1> HIDE DEF two
<1>6. DOMAIN three \subseteq Paths /\ Agree(three, two, Headed(H))
  BY <1>1, <1>3, <1>5, PutAtKeeps
<1>7. Agree(three, one, Headed(H))
  BY <1>5, <1>6, AgreeTrans
<1>8. DOMAIN c.tree \subseteq Paths /\ Agree(c.tree, one, Headed(H))
  BY <1>2, <1>5, <1>6, <1>7
<1>9. /\ c.ok = TRUE => Hms!Mergeable(a)
      /\ c.ok = TRUE /\ u # Hms!Empty => c.tree = three
  BY <1>2
<1> QED BY <1>5, <1>8, <1>9 DEF IsClaude, c, u, H, s, j, one

LEMMA ClaudePins ==
    ASSUME NEW k \in DOMAIN HomeAsk, NEW a \in HomeAsk[k], NEW t, DOMAIN t \subseteq Paths,
           NEW c, IsClaude(c, t, a), Hms!Aliased(a) # <<>>, <<"env">> \notin DOMAIN a.template
    PROVE  /\ a.default # None => Get(c.tree, <<"settings.json", "env", "SONNET">>) = a.default
           /\ \A alias \in Aliases :
                 Get(c.tree, <<"settings.json", "env", alias>>) \in Hms!Range(a.models) \cup {a.default}
<1> DEFINE s == <<"settings.json">>
           f == Hms!Settings(a)
           one == PutAt(t, s, f)
           P(x) == <<"env", x>>
           H == Headed({"settings.json"})
<1>1. s \in Paths /\ s # <<>> /\ "settings.json" \in Key
  BY KeyAssumption, OneKey
<1>2. /\ DOMAIN f \subseteq Paths
      /\ \A x \in Aliases : P(x) \in DOMAIN f /\ f[P(x)] \in Hms!Range(a.models) \cup {a.default}
      /\ a.default # None => f[P("SONNET")] = a.default
  BY SettingsAre DEF IsSettings
<1>3. \A x \in Aliases : <<"settings.json", "env", x>> = s \o P(x)
  <2> SUFFICES ASSUME NEW x \in Aliases PROVE <<"settings.json", "env", x>> = s \o P(x)
    OBVIOUS
  <2>1. x \in Key /\ "env" \in Key
    BY KeyAssumption DEF Aliases
  <2>2. \A p, q, r \in Key : <<p>> \o <<q, r>> = <<p, q, r>>
    BY ShortPaths
  <2> QED BY <1>1, <2>1, <2>2, Zenon
<1>4. Agree(c.tree, one, H)
  BY DEF IsClaude
<1> HIDE DEF f, P
<1>5. IsPutAt(one, t, s, f)
  BY <1>1, <1>2, PutAtIs
<1> HIDE DEF one
<1>6. ASSUME NEW x \in Aliases PROVE Get(c.tree, s \o P(x)) = f[P(x)]
  <2>1. P(x) \in DOMAIN f /\ P(x) \in Paths
    BY <1>2
  <2>2. s \o P(x) \in DOMAIN one /\ one[s \o P(x)] = f[P(x)]
    BY <1>5, <2>1 DEF IsPutAt
  <2> DEFINE z == s \o P(x)
  <2>3. z \in Paths /\ z[1] = "settings.json" /\ z # <<>>
    BY <1>1, <2>1, FirstKey
  <2>4. z \in DOMAIN one /\ one[z] = f[P(x)]
    BY <2>2
  <2> HIDE DEF z, s
  <2>5. z \in H
    BY <2>3 DEF Headed, Paths
  <2>6. Get(c.tree, z) = f[P(x)]
    BY <1>4, <2>4, <2>5 DEF Agree, Get
  <2> QED BY <2>6 DEF z
<1>7. \A x \in Aliases : Get(c.tree, <<"settings.json", "env", x>>) = f[P(x)]
  BY <1>3, <1>6
<1>8. "SONNET" \in Aliases
  BY DEF Aliases
<1> QED BY <1>2, <1>7, <1>8

\* The names of the servers of a tree.
NamedIn(t) == {SubSeq(p, 1, 2) : p \in {q \in DOMAIN t : Len(q) > 1 /\ q[1] = "mcpServers"}}

LEMMA NamedInIs ==
    ASSUME NEW t, DOMAIN t \subseteq Paths
    PROVE  /\ \A path \in NamedIn(t) : \E n \in Key : path = <<"mcpServers", n>> /\ Serving(t, n)
           /\ \A n \in Key : Serving(t, n) => <<"mcpServers", n>> \in NamedIn(t)
<1>1. ASSUME NEW p \in DOMAIN t, Len(p) > 1, p[1] = "mcpServers"
      PROVE  /\ p[2] \in Key /\ p \in Servers("mcpServers", p[2])
             /\ SubSeq(p, 1, 2) = <<"mcpServers", p[2]>>
  <2>1. p \in Seq(Key) /\ Len(p) \in Nat /\ 2 \in 1 .. Len(p) /\ 1 \in 1 .. Len(p)
    BY <1>1 DEF Paths
  <2>2. p[2] \in Key
    BY <2>1, ElementOfSeq
  <2>3. p \in Servers("mcpServers", p[2])
    BY <1>1, <2>1 DEF Servers, Paths
  <2> DEFINE l == SubSeq(p, 1, 2)
             r == <<"mcpServers", p[2]>>
  <2>4. l \in Seq(Key) /\ Len(l) = 2 /\ l[1] = p[1] /\ l[2] = p[2]
    BY <1>1, <2>1
  <2>5. r \in Seq(Key) /\ Len(r) = 2 /\ r[1] = "mcpServers" /\ r[2] = p[2]
    BY <2>2, KeyAssumption
  <2> HIDE DEF l, r
  <2>6. \A i \in 1 .. Len(l) : l[i] = r[i]
    BY <1>1, <2>4, <2>5
  <2>7. l = r
    BY <2>4, <2>5, <2>6, SeqEqual
  <2> QED BY <2>2, <2>3, <2>7 DEF l, r
<1>2. ASSUME NEW path \in NamedIn(t) PROVE \E n \in Key : path = <<"mcpServers", n>> /\ Serving(t, n)
  <2>1. PICK p \in DOMAIN t : Len(p) > 1 /\ p[1] = "mcpServers" /\ path = SubSeq(p, 1, 2)
    BY <1>2 DEF NamedIn
  <2>2. p[2] \in Key /\ path = <<"mcpServers", p[2]>> /\ Serving(t, p[2])
    BY <1>1, <2>1 DEF Serving
  <2> QED BY <2>2
<1>3. ASSUME NEW n \in Key, Serving(t, n) PROVE <<"mcpServers", n>> \in NamedIn(t)
  <2>1. PICK p \in DOMAIN t : p \in Servers("mcpServers", n)
    BY <1>3 DEF Serving
  <2>2. p \in Paths /\ Len(p) \in Nat /\ Len(p) > 1 /\ p[1] = "mcpServers" /\ p[2] = n
    BY <2>1 DEF Servers, Paths
  <2>3. SubSeq(p, 1, 2) = <<"mcpServers", n>>
    BY <1>1, <2>2
  <2>4. SubSeq(p, 1, 2) \in NamedIn(t)
    BY <2>2 DEF NamedIn
  <2> QED BY <2>3, <2>4
<1> QED BY <1>2, <1>3

\* ServersAreWhole for what a launch writes.
OfServer(a, n) == Hms!PutAt(Hms!Empty, <<"mcpServers", n>>, Hms!ServerOf(a.servers, n).leaves)
Given(a) == {<<"mcpServers", n>> : n \in Named(a.servers)}
BelowIt(t, path) == [p \in {q \in DOMAIN t : Hms!Above(path, q)} |-> t[p]]
SameBelow(new, path, t) ==
    BelowIt(new, <<".claude.json">> \o path) = Hms!PutAt(Hms!Empty, <<".claude.json">>, BelowIt(t, path))

WholeServers(new, a) ==
    /\ \A n \in Named(a.servers) : SameBelow(new, <<"mcpServers", n>>, OfServer(a, n))
    /\ \A path \in NamedIn(a.overlay) \ Given(a) : SameBelow(new, path, a.overlay)
    /\ \A path \in NamedIn(a.user) \ (Given(a) \cup NamedIn(a.overlay)) : SameBelow(new, path, a.user)

LEMMA ServersAreWritten ==
    ASSUME NEW k \in DOMAIN HomeAsk, NEW a \in HomeAsk[k], Hms!Mergeable(a), NEW t, DOMAIN t \subseteq Paths
    PROVE  WholeServers(PutAt(t, <<".claude.json">>, Hms!UserConfig(a)), a)
<1> DEFINE j == <<".claude.json">>
           u == Hms!UserConfig(a)
           new == PutAt(t, j, u)
           P(n) == <<"mcpServers", n>>
           M(n) == Servers("mcpServers", n)
<1>1. j \in Paths
  BY KeyAssumption, OneKey
<1>2. IsUserConfig(u, a)
  BY UserConfigIs
<1>3. IsMerged(u, OverlayProfile(a.user, a.overlay, "mcpServers"), a.servers) /\ DOMAIN u \subseteq Paths
  BY <1>2 DEF IsUserConfig, IsMerged
<1>4. DOMAIN a.user \subseteq Paths /\ DOMAIN a.overlay \subseteq Paths
  BY HomesAsked
<1> HIDE DEF u
<1>5. ASSUME NEW n \in Key, NEW w, DOMAIN w \subseteq Paths, Agree(u, w, M(n)) PROVE SameBelow(new, P(n), w)
  <2>1. P(n) \in Paths /\ \A q \in Paths : Above(P(n), q) <=> q \in M(n)
    <3>1. <<>> \in Paths
      BY DEF Paths
    <3> QED BY <3>1, ServedPath
  <2> HIDE DEF P, M
  <2>2. \A q \in Paths : Above(P(n), q) =>
            (q \in DOMAIN u <=> q \in DOMAIN w) /\ (q \in DOMAIN u => u[q] = w[q])
    BY <1>5, <2>1 DEF Agree
  <2>3. Beneath(new, j \o P(n)) = PutAt(Hms!Empty, j, Beneath(w, P(n)))
    BY <1>1, <1>3, <1>5, <2>1, <2>2, BeneathMoves
  <2> HIDE DEF new
  <2>4. \A x, path : BelowIt(x, path) = Beneath(x, path)
    BY DEF BelowIt, Beneath, Hms!Above, Above
  <2> QED BY <2>3, <2>4, HomesTrees DEF SameBelow
<1> HIDE DEF new
<1>6. ASSUME NEW n \in Named(a.servers) PROVE SameBelow(new, P(n), OfServer(a, n))
  <2> DEFINE l == Hms!ServerOf(a.servers, n).leaves
             w == OfServer(a, n)
  <2>1. n \in Key /\ DOMAIN l \subseteq Paths
    BY ServerOfIs
  <2>2. /\ \A p \in M(n) : p \in DOMAIN u <=> \E q \in DOMAIN l : p = P(n) \o q
        /\ \A q \in DOMAIN l : u[P(n) \o q] = l[q]
    BY <1>3, <1>6 DEF IsMerged
  <2>3. P(n) \in Paths /\ \A q \in Paths : P(n) \o q \in M(n)
    <3>1. <<>> \in Paths
      BY DEF Paths
    <3>2. P(n) \in Paths
      BY <2>1, <3>1, ServedPath
    <3>3. ASSUME NEW q \in Paths PROVE P(n) \o q \in M(n)
      BY <2>1, ServedPath
    <3> QED BY <3>2, <3>3
  <2> HIDE DEF l
  <2>4. w = PutAt(Hms!Empty, P(n), l)
    BY HomesTrees DEF OfServer, l
  <2> HIDE DEF w, P, M
  <2>5. IsPutAt(w, Hms!Empty, P(n), l) /\ DOMAIN Hms!Empty = {}
    BY <2>1, <2>3, <2>4, PutAtIs DEF Hms!Empty
  <2>6. /\ \A p : p \in DOMAIN w <=> \E q \in DOMAIN l : p = P(n) \o q
        /\ \A q \in DOMAIN l : w[P(n) \o q] = l[q]
    BY <2>5 DEF IsPutAt
  <2>7. DOMAIN w \subseteq Paths
    <3>1. M(n) \subseteq Paths
      BY DEF M, Servers
    <3>2. ASSUME NEW p \in DOMAIN w PROVE p \in M(n)
      <4>1. PICK q \in DOMAIN l : p = P(n) \o q
        BY <2>6, <3>2
      <4>2. q \in Paths
        BY <2>1
      <4> QED BY <2>3, <4>1, <4>2
    <3> QED BY <3>1, <3>2
  <2>8. Agree(u, w, M(n))
    <3>1. \A p \in M(n) : p \in DOMAIN u <=> p \in DOMAIN w
      BY <2>2, <2>6
    <3>2. ASSUME NEW p \in M(n), p \in DOMAIN u PROVE u[p] = w[p]
      <4>1. PICK q \in DOMAIN l : p = P(n) \o q
        BY <2>2, <3>2
      <4>2. u[P(n) \o q] = l[q] /\ w[P(n) \o q] = l[q]
        BY <2>2, <2>6
      <4> QED BY <4>1, <4>2
    <3> QED BY <3>1, <3>2 DEF Agree
  <2> QED BY <1>5, <2>1, <2>7, <2>8 DEF w
<1>7. ASSUME NEW path \in NamedIn(a.overlay) \ Given(a) PROVE SameBelow(new, path, a.overlay)
  <2>1. PICK n \in Key : path = P(n) /\ Serving(a.overlay, n)
    BY <1>4, <1>7, NamedInIs
  <2>2. n \notin Named(a.servers)
    BY <1>7, <2>1 DEF Given
  <2>3. Agree(u, a.overlay, M(n))
    BY <1>2, <2>1, <2>2 DEF IsUserConfig
  <2> HIDE DEF P, M
  <2> QED BY <1>4, <1>5, <2>1, <2>3
<1>8. ASSUME NEW path \in NamedIn(a.user) \ (Given(a) \cup NamedIn(a.overlay)) PROVE SameBelow(new, path, a.user)
  <2>1. PICK n \in Key : path = P(n) /\ Serving(a.user, n)
    BY <1>4, <1>8, NamedInIs
  <2>2. n \notin Named(a.servers)
    BY <1>8, <2>1 DEF Given
  <2>3. ~ Serving(a.overlay, n)
    BY <1>4, <1>8, <2>1, NamedInIs
  <2>4. Agree(u, a.user, M(n))
    BY <1>2, <2>2, <2>3 DEF IsUserConfig
  <2> HIDE DEF P, M
  <2> QED BY <1>4, <1>5, <2>1, <2>4
<1> QED BY <1>6, <1>7, <1>8 DEF WholeServers, new, u, P

\* PinIsServed and ServersAreWhole, for a launch of an agent and the tree it left.
Serves(ag, l, tree) ==
    l # None =>
        /\ ag = "pi" /\ l.ok /\ l.fresh =>
              \/ ~ Has(tree, <<"settings.json">>)
              \/ Has(tree, <<"models.json">> \o <<Get(tree, <<"settings.json">> \o <<"provider">>),
                                                  Get(tree, <<"settings.json">> \o <<"model">>)>>)
        /\ ag \in {"dsh", "kimi", "openclaw"} =>
              \/ ~ Has(tree, <<"settings", "pin">>)
              \/ Has(tree, <<"settings", "models">> \o <<Get(tree, <<"settings", "pin">> \o <<"provider">>),
                                                         Get(tree, <<"settings", "pin">> \o <<"model">>)>>)
        /\ ag = "claude" /\ l.ok /\ Hms!Aliased(l.ask) # <<>> /\ <<"env">> \notin DOMAIN l.ask.template =>
              /\ l.ask.default # None => Get(tree, <<"settings.json", "env", "SONNET">>) = l.ask.default
              /\ \A alias \in {"SONNET", "OPUS", "HAIKU"} :
                    Get(tree, <<"settings.json", "env", alias>>) \in Hms!Range(l.ask.models) \cup {l.ask.default}

Wholes(ag, l, tree) ==
    l # None /\ ag = "claude" /\ l.ok /\ Hms!UserConfig(l.ask) # Hms!Empty => WholeServers(tree, l.ask)

LEMMA ServesIs ==
    /\ Hms!PinIsServed <=> Serves(agent, last, homes[last.place])
    /\ Hms!PinIsServed' <=> Serves(agent', last', homes'[last'.place])
    /\ Hms!ServersAreWhole <=> Wholes(agent, last, homes[last.place])
    /\ Hms!ServersAreWhole' <=> Wholes(agent', last', homes'[last'.place])
<1>1. Hms!PinIsServed <=> Serves(agent, last, homes[last.place])
  BY DEF Hms!PinIsServed, Serves, Hms!Has, Has, Hms!Get, Get, Hms!Above, Above
<1>2. Hms!PinIsServed' <=> Serves(agent', last', homes'[last'.place])
  BY DEF Hms!PinIsServed, Serves, Hms!Has, Has, Hms!Get, Get, Hms!Above, Above
<1>3. Hms!ServersAreWhole <=> Wholes(agent, last, homes[last.place])
  BY DEF Hms!ServersAreWhole, Wholes, WholeServers, SameBelow, BelowIt, OfServer, Given, NamedIn, Named
<1>4. Hms!ServersAreWhole' <=> Wholes(agent', last', homes'[last'.place])
  BY DEF Hms!ServersAreWhole, Wholes, WholeServers, SameBelow, BelowIt, OfServer, Given, NamedIn, Named
<1> QED BY <1>1, <1>2, <1>3, <1>4

\* The homes of the agents, as an invariant.
HomesInv ==
    /\ agent \in DOMAIN HomeAsk /\ DOMAIN homes = Hms!RealPaths
    /\ agent \in {"pi", "dsh", "kimi", "openclaw", "claude"} => \A p \in Hms!RealPaths : DOMAIN homes[p] \subseteq Paths
    /\ agent \in {"dsh", "kimi", "openclaw"} => \A p \in Hms!RealPaths : OwnPin(homes[p])
    /\ Hms!PinIsServed
    /\ Hms!ServersAreWhole

LEMMA HomesBegin == Hms!Init => HomesInv
<1> SUFFICES ASSUME Hms!Init PROVE HomesInv
  OBVIOUS
<1>1. agent \in DOMAIN HomeAsk /\ DOMAIN homes = Hms!RealPaths /\ last = None
      /\ \A p \in Hms!RealPaths : DOMAIN homes[p] = {}
  BY DEF Hms!Init, Hms!Empty
<1>2. \A p \in Hms!RealPaths : OwnPin(homes[p])
  BY <1>1 DEF OwnPin, Has
<1> QED BY <1>1, <1>2 DEF HomesInv, Hms!PinIsServed, Hms!ServersAreWhole

LEMMA HomesLaunched ==
    ASSUME HomesInv, NEW call \in Call, NEW path \in Path, NEW request \in HomeAsk[agent],
           Hms!Launch(call, path, request)
    PROVE  HomesInv'
<1> DEFINE place == Hms!Real(path)
           t == homes[place]
           written == Hms!Written(t, request)
           new == homes'[place]
<1>1. /\ homes' = [homes EXCEPT ![place] = written.tree]
      /\ last'.place = place /\ last'.ask = request /\ last'.ok = written.ok
      /\ last'.fresh = (homes[place] = Hms!Empty)
      /\ agent' = agent
  BY DEF Hms!Launch
<1>2. place \in Hms!RealPaths /\ Hms!RealPaths' = Hms!RealPaths
  BY DEF Hms!RealPaths
<1>3. /\ agent \in DOMAIN HomeAsk /\ DOMAIN homes = Hms!RealPaths
      /\ agent \in {"pi", "dsh", "kimi", "openclaw", "claude"} => \A p \in Hms!RealPaths : DOMAIN homes[p] \subseteq Paths
      /\ agent \in {"dsh", "kimi", "openclaw"} => \A p \in Hms!RealPaths : OwnPin(homes[p])
  BY DEF HomesInv
<1>4. DOMAIN homes' = Hms!RealPaths /\ new = written.tree
      /\ \A p \in Hms!RealPaths : p # place => homes'[p] = homes[p]
  BY <1>1, <1>2, <1>3
<1> DEFINE l == last'
<1>9. Serves(agent, l, new) => Hms!PinIsServed'
  BY <1>1, ServesIs
<1>10. l.ask = request /\ l.ok = written.ok /\ l.fresh = (homes[place] = Hms!Empty)
  BY <1>1
<1> HIDE DEF place, l
<1>5. CASE agent \in {"dsh", "kimi", "openclaw"}
  <2>1. DOMAIN t \subseteq Paths /\ OwnPin(t)
    BY <1>2, <1>3, <1>5
  <2>2. DOMAIN new \subseteq Paths /\ OwnPin(new)
    <3> HIDE DEF t
    <3> QED BY <1>3, <1>4, <1>5, <2>1, OwnPinsWritten
  <2> HIDE DEF new, t, written
  <2>3. \A p \in Hms!RealPaths : DOMAIN homes'[p] \subseteq Paths /\ OwnPin(homes'[p])
    BY <1>3, <1>4, <1>5, <2>2 DEF new
  <2>4. \/ ~ Has(new, <<"settings", "pin">>)
        \/ Has(new, <<"settings", "models">> \o <<Get(new, <<"settings", "pin">> \o <<"provider">>),
                                                  Get(new, <<"settings", "pin">> \o <<"model">>)>>)
    BY <2>2, OwnPinServes
  <2>5. Hms!PinIsServed'
    <3>1. agent # "pi" /\ agent # "claude"
      BY <1>5
    <3>2. Serves(agent, l, new)
      BY <2>4, <3>1 DEF Serves
    <3> QED BY <1>9, <3>2 DEF new
  <2>6. Hms!ServersAreWhole'
    BY <1>1, <1>5, ServesIs DEF Wholes
  <2> QED BY <1>1, <1>2, <1>3, <1>4, <2>3, <2>5, <2>6 DEF HomesInv
<1>6. CASE agent = "pi"
  <2>1. DOMAIN t \subseteq Paths /\ written = Hms!Pi(t, request)
    BY <1>2, <1>3, <1>6 DEF Hms!Written
  <2> HIDE DEF t
  <2>2. /\ DOMAIN new \subseteq Paths
        /\ written.ok /\ DOMAIN t = {} =>
              \/ ~ Has(new, <<"settings.json">>)
              \/ Has(new, <<"models.json">> \o <<Get(new, <<"settings.json">> \o <<"provider">>),
                                                 Get(new, <<"settings.json">> \o <<"model">>)>>)
    BY <1>3, <1>4, <1>6, <2>1, PiWrites
  <2> HIDE DEF new, written
  <2>3. \A p \in Hms!RealPaths : DOMAIN homes'[p] \subseteq Paths
    BY <1>3, <1>4, <1>6, <2>2 DEF new
  <2>4. l.fresh => DOMAIN t = {}
    BY <1>10 DEF t, Hms!Empty
  <2>5. Hms!PinIsServed'
    <3>1. agent \notin {"dsh", "kimi", "openclaw"} /\ agent # "claude"
      BY <1>6
    <3>2. ASSUME l.ok, l.fresh
          PROVE  \/ ~ Has(new, <<"settings.json">>)
                 \/ Has(new, <<"models.json">> \o <<Get(new, <<"settings.json">> \o <<"provider">>),
                                                    Get(new, <<"settings.json">> \o <<"model">>)>>)
      BY <1>10, <2>2, <2>4, <3>2
    <3>3. Serves(agent, l, new)
      BY <3>1, <3>2 DEF Serves
    <3> QED BY <1>9, <3>3 DEF new
  <2>6. Hms!ServersAreWhole'
    BY <1>1, <1>6, ServesIs DEF Wholes
  <2> QED BY <1>1, <1>2, <1>3, <1>4, <1>6, <2>3, <2>5, <2>6 DEF HomesInv
<1>7. CASE agent = "claude"
  <2>1. DOMAIN t \subseteq Paths /\ written = Hms!Claude(t, request)
    BY <1>2, <1>3, <1>7 DEF Hms!Written
  <2> HIDE DEF t
  <2>2. IsClaude(written, t, request)
    BY <1>3, <1>7, <2>1, ClaudeIs
  <2> HIDE DEF written
  <2>3. DOMAIN new \subseteq Paths
    BY <1>4, <2>2 DEF IsClaude
  <2>4. ASSUME Hms!Aliased(request) # <<>>, <<"env">> \notin DOMAIN request.template
        PROVE  /\ request.default # None => Get(new, <<"settings.json", "env", "SONNET">>) = request.default
               /\ \A alias \in Aliases :
                     Get(new, <<"settings.json", "env", alias>>) \in Hms!Range(request.models) \cup {request.default}
    BY <1>3, <1>4, <1>7, <2>1, <2>2, <2>4, ClaudePins
  <2>5. ASSUME written.ok = TRUE, Hms!UserConfig(request) # Hms!Empty PROVE WholeServers(new, request)
    <3>1. Hms!Mergeable(request)
      BY <2>2, <2>5 DEF IsClaude
    <3>2. PICK u : DOMAIN u \subseteq Paths /\ written.tree = PutAt(u, <<".claude.json">>, Hms!UserConfig(request))
      BY <2>2, <2>5 DEF IsClaude
    <3> QED BY <1>3, <1>4, <1>7, <3>1, <3>2, ServersAreWritten
  <2> HIDE DEF new
  <2>6. \A p \in Hms!RealPaths : DOMAIN homes'[p] \subseteq Paths
    BY <1>3, <1>4, <1>7, <2>3 DEF new
  <2>7. Hms!PinIsServed'
    <3>1. agent \notin {"dsh", "kimi", "openclaw"} /\ agent # "pi"
      BY <1>7
    <3>2. ASSUME Hms!Aliased(l.ask) # <<>>, <<"env">> \notin DOMAIN l.ask.template
          PROVE  /\ l.ask.default # None => Get(new, <<"settings.json", "env", "SONNET">>) = l.ask.default
                 /\ \A alias \in {"SONNET", "OPUS", "HAIKU"} :
                       Get(new, <<"settings.json", "env", alias>>) \in Hms!Range(l.ask.models) \cup {l.ask.default}
      BY <1>10, <2>4, <3>2 DEF Aliases
    <3>3. Serves(agent, l, new)
      BY <3>1, <3>2 DEF Serves
    <3> QED BY <1>9, <3>3 DEF new
  <2>8. Hms!ServersAreWhole'
    BY <1>1, <1>7, <2>5, ServesIs DEF Wholes, new
  <2> QED BY <1>1, <1>2, <1>3, <1>4, <1>7, <2>6, <2>7, <2>8 DEF HomesInv
<1>8. CASE agent \notin {"pi", "dsh", "kimi", "openclaw", "claude"}
  <2>1. Hms!PinIsServed'
    <3>1. agent \notin {"dsh", "kimi", "openclaw"} /\ agent # "pi" /\ agent # "claude"
      BY <1>8
    <3>2. Serves(agent, l, new)
      BY <3>1 DEF Serves
    <3> QED BY <1>9, <3>2 DEF new
  <2>2. Hms!ServersAreWhole'
    BY <1>1, <1>8, ServesIs DEF Wholes
  <2> QED BY <1>1, <1>2, <1>3, <1>4, <1>8, <2>1, <2>2 DEF HomesInv
<1> QED BY <1>5, <1>6, <1>7, <1>8

LEMMA HomesHold == HomesInv /\ [Hms!Next]_Hms!vars => HomesInv'
<1> SUFFICES ASSUME HomesInv, [Hms!Next]_Hms!vars PROVE HomesInv'
  OBVIOUS
<1>1. CASE UNCHANGED Hms!vars
  <2>1. agent' = agent /\ last' = last /\ homes' = homes /\ Hms!RealPaths' = Hms!RealPaths
    BY <1>1 DEF Hms!vars, Hms!RealPaths
  <2>2. Hms!PinIsServed' /\ Hms!ServersAreWhole'
    BY <2>1, ServesIs DEF HomesInv
  <2> QED BY <2>1, <2>2 DEF HomesInv
<1>2. CASE Hms!Next
  <2>1. PICK call \in Call, path \in Path : \E request \in HomeAsk[agent] : Hms!Launch(call, path, request)
    BY <1>2 DEF Hms!Next
  <2>2. PICK request \in HomeAsk[agent] : Hms!Launch(call, path, request)
    BY <2>1
  <2> QED BY <2>2, HomesLaunched
<1> QED BY <1>1, <1>2

-------------------------------------------------------------------------------
(* ModelMetadata *)

LEMMA MetaTrees ==
    /\ \A t, p : Meta!Get(t, p) = Get(t, p) /\ (Meta!Has(t, p) <=> Has(t, p))
    /\ \A t, o : Meta!Joined(t, o) = Joined(t, o)
    /\ \A t, k : Meta!Kept(t, k) = Kept(t, k)
    /\ \A p, v : Meta!Leaf(p, v) = Leaf(p, v)
    /\ \A t, p : Meta!Drop(t, p) = Drop(t, p)
<1>1. \A t, p : Meta!Get(t, p) = Get(t, p)
  BY DEF Meta!Get, Get
<1>2. \A t, p : Meta!Has(t, p) <=> Has(t, p)
  BY DEF Meta!Has, Has, Meta!Above, Above
<1>3. \A t, o : Meta!Joined(t, o) = Joined(t, o)
  BY DEF Meta!Joined, Joined
<1>4. \A t, k : Meta!Kept(t, k) = Kept(t, k)
  BY DEF Meta!Kept, Kept
<1>5. \A p, v : Meta!Leaf(p, v) = Leaf(p, v)
  BY DEF Meta!Leaf, Leaf
<1>6. \A t, p : Meta!Drop(t, p) = Drop(t, p)
  BY DEF Meta!Drop, Drop, Meta!Kept, Kept, Meta!Above, Above
<1> QED BY <1>1, <1>2, <1>3, <1>4, <1>5, <1>6

Harness == <<"interpreter", "harness">>

\* What an advice says.
LEMMA AdviceIs ==
    ASSUME NEW who, NEW harness
    PROVE  Get(Meta!Advice(who, harness), Harness) = harness /\ Get(Meta!Advice(who, harness), <<"agent">>) = who
<1> DEFINE g == <<"agent">>
           i == <<"interpreter", "guidance">>
           h == Harness
           t == Meta!Advice(who, harness)
<1>1. t = Joined(Leaf(g, who), Joined(Leaf(h, harness), Leaf(i, "true")))
  BY MetaTrees DEF Meta!Advice, Harness
<1>2. g # h /\ g # i /\ h # i
  BY DEF Harness
<1> HIDE DEF g, h, i, t
<1>3. g \in DOMAIN t /\ t[g] = who /\ h \in DOMAIN t /\ t[h] = harness
  BY <1>1, <1>2 DEF Joined, Leaf
<1>4. Get(t, h) = harness /\ Get(t, g) = who
  BY <1>3 DEF Get
<1> QED BY <1>4 DEF t, g, h

\* What the heuristic may say of a route.
Advised(api) ==
    {Meta!Empty, Meta!Claude, Meta!Advice("interpreter", "claude-code-bare"),
     Meta!Advice("interpreter", "qwen-code"), Meta!Advice("codex", "native")}
        \cup (IF api = "chat" THEN {Meta!Advice("interpreter", "kimi-code")} ELSE {})
        \cup (IF api = "messages" THEN {Meta!Advice("interpreter", "zcode")} ELSE {})

LEMMA RecommendIs ==
    ASSUME NEW id, NEW provider, NEW api PROVE Meta!Recommend(id, provider, api) \in Advised(api)
<1> DEFINE inId == UNION {Words[p] : p \in Meta!Range(id)}
           named == inId \cup ((IF provider = None THEN {} ELSE Words[provider]) \ {"glm", "claude", "qwq", "gpt"})
           Is(words) == words \cap named # {}
           rest == IF Is({"anthropic", "claude"}) THEN Meta!Claude
                   ELSE IF Is({"qwen", "qwq"}) THEN Meta!Advice("interpreter", "qwen-code")
                   ELSE IF Is({"deepseek"}) THEN Meta!Advice("interpreter", "claude-code-bare")
                   ELSE IF Is({"openai", "gpt"}) THEN Meta!Advice("codex", "native")
                   ELSE IF api = "messages" THEN Meta!Claude
                   ELSE Meta!Empty
           zcoded == api = "messages" /\ ~ Is({"kimi"}) /\ (Is({"zai", "glm"}) \/ Meta!CustomNamespace(id))
           said == CASE Is({"kimi"}) -> IF api = "chat" THEN Meta!Advice("interpreter", "kimi-code") ELSE Meta!Claude
                       [] zcoded -> Meta!Advice("interpreter", "zcode")
                       [] OTHER -> rest
<1>1. Meta!Recommend(id, provider, api) = said
  BY DEF Meta!Recommend
<1> HIDE DEF named, inId, Is
<1>2. rest \in Advised(api)
  BY DEF Advised
<1> HIDE DEF rest
<1>3. Is({"kimi"}) => said \in Advised(api)
  BY DEF Advised
<1>4. zcoded => said \in Advised(api)
  BY DEF Advised
<1>5. ~ Is({"kimi"}) /\ ~ zcoded => said \in Advised(api)
  <2> HIDE DEF zcoded
  <2> QED BY <1>2
<1> QED BY <1>1, <1>3, <1>4, <1>5

\* GuidanceFits for an answer.
Fits(t, api) ==
    Has(t, <<"interpreter">>) =>
        \/ Meta!Compatible(Get(t, Harness), api)
        \/ Get(t, Harness) = "qwen-code" /\ api # "chat"
        \/ Get(t, Harness) = "native" /\ api = "messages" /\ Get(t, <<"agent">>) = "codex"

LEMMA AdvisedFits ==
    ASSUME NEW api \in Meta!WireApi, NEW t \in Advised(api) PROVE Fits(t, api)
<1>1. CASE t = Meta!Empty
  <2>1. ~ Has(t, <<"interpreter">>)
    BY <1>1 DEF Meta!Empty, Has
  <2> QED BY <2>1 DEF Fits
<1>2. CASE t = Meta!Claude
  <2>1. Get(t, Harness) = "claude-code"
    BY <1>2, AdviceIs DEF Meta!Claude
  <2> QED BY <2>1 DEF Fits, Meta!Compatible, Meta!WireApi
<1>3. CASE t = Meta!Advice("interpreter", "claude-code-bare")
  <2>1. Get(t, Harness) = "claude-code-bare"
    BY <1>3, AdviceIs
  <2> QED BY <2>1 DEF Fits, Meta!Compatible, Meta!WireApi
<1>4. CASE t = Meta!Advice("interpreter", "qwen-code")
  <2>1. Get(t, Harness) = "qwen-code"
    BY <1>4, AdviceIs
  <2> QED BY <2>1 DEF Fits, Meta!Compatible, Meta!WireApi
<1>5. CASE t = Meta!Advice("codex", "native")
  <2>1. Get(t, Harness) = "native" /\ Get(t, <<"agent">>) = "codex"
    BY <1>5, AdviceIs
  <2> QED BY <2>1 DEF Fits, Meta!Compatible, Meta!WireApi
<1>6. CASE api = "chat" /\ t = Meta!Advice("interpreter", "kimi-code")
  <2>1. Get(t, Harness) = "kimi-code"
    BY <1>6, AdviceIs
  <2> QED BY <1>6, <2>1 DEF Fits, Meta!Compatible
<1>7. CASE api = "messages" /\ t = Meta!Advice("interpreter", "zcode")
  <2>1. Get(t, Harness) = "zcode"
    BY <1>7, AdviceIs
  <2> QED BY <1>7, <2>1 DEF Fits, Meta!Compatible
<1> QED BY <1>1, <1>2, <1>3, <1>4, <1>5, <1>6, <1>7 DEF Advised

LEMMA ResolvedFits ==
    ASSUME NEW id, NEW data, NEW api \in Meta!WireApi PROVE Fits(Meta!ResolveAgent(id, data, api), api)
<1> DEFINE explicit == Meta!Explicit(data)
           fallback == Meta!Recommend(id, Meta!Get(data, <<"provider">>), api)
           t == Meta!ResolveAgent(id, data, api)
<1>1. Fits(fallback, api)
  BY RecommendIs, AdvisedFits
<1>2. \/ t = fallback
      \/ t = explicit /\ ~ Meta!Unfit(explicit, api)
      \/ t = Drop(explicit, <<"interpreter">>)
  BY MetaTrees DEF Meta!ResolveAgent
<1> HIDE DEF explicit, fallback, t
<1>3. ASSUME t = explicit, ~ Meta!Unfit(explicit, api) PROVE Fits(t, api)
  <2>1. Has(t, <<"interpreter">>) => Meta!Compatible(Get(t, Harness), api)
    BY <1>3, MetaTrees DEF Meta!Unfit, Harness
  <2> QED BY <2>1 DEF Fits
<1>4. ASSUME t = Drop(explicit, <<"interpreter">>) PROVE Fits(t, api)
  <2>1. ~ Has(t, <<"interpreter">>)
    BY <1>4 DEF Drop, Kept, Has
  <2> QED BY <2>1 DEF Fits
<1> QED BY <1>1, <1>2, <1>3, <1>4 DEF t

MetaInv == wire \in Meta!WireApi

LEMMA MetaHolds ==
    /\ Meta!Init => MetaInv
    /\ MetaInv /\ [Meta!Next]_Meta!vars => MetaInv'
<1>1. Meta!Init => MetaInv
  BY DEF Meta!Init, MetaInv
<1>2. ASSUME MetaInv, [Meta!Next]_Meta!vars PROVE MetaInv'
  <2>1. wire' = wire \/ wire' \in Meta!WireApi
    BY <1>2 DEF Meta!vars, Meta!Next, Meta!Refresh, Meta!SetOverride, Meta!Migrate
  <2> QED BY <1>2, <2>1 DEF MetaInv, Meta!WireApi
<1> QED BY <1>1, <1>2

\* A harness of the answer can speak the protocol of the route.
LEMMA GuidanceHolds == MetaInv => Meta!GuidanceFits
<1> SUFFICES ASSUME MetaInv PROVE Meta!GuidanceFits
  OBVIOUS
<1>1. Fits(Meta!Answer, wire)
  BY ResolvedFits DEF MetaInv, Meta!Answer
<1> HIDE DEF Meta!Answer
<1> QED BY <1>1, MetaTrees DEF Fits, Meta!GuidanceFits, Harness

\* What the user overrides is in what is resolved, and decides the answer.
LEMMA UserHolds == Meta!UserDecides
<1> DEFINE base == Meta!OverlayWith(Meta!MergeMissing(Meta!Empty, Meta!Builtin(model)), Meta!Listed(model, catalog))
           data == Meta!Resolved
           explicit == Meta!Explicit(data)
           chosen == Get(override, Harness)
           t == Meta!Answer
<1>1. data = Joined(override, base)
  BY MetaTrees DEF Meta!Resolved, Meta!OverlayWith
<1> HIDE DEF base
<1>2. \A p \in DOMAIN override : p \in DOMAIN data /\ data[p] = override[p]
  BY <1>1 DEF Joined
<1>3. t = Meta!ResolveAgent(model, data, wire)
  BY DEF Meta!Answer
<1> HIDE DEF data, t
<1>4. ASSUME NEW d
      PROVE  /\ DOMAIN Meta!Explicit(d) = {p \in DOMAIN d : Head(p) \in {"agent", "interpreter"}}
             /\ \A p \in DOMAIN Meta!Explicit(d) : Meta!Explicit(d)[p] = d[p]
  BY DEF Meta!Explicit, Meta!Kept
<1>5. ASSUME chosen # None, Meta!Compatible(chosen, wire), ~ Meta!CustomNamespace(model)
      PROVE  /\ Get(t, Harness) = chosen
             /\ \A p \in DOMAIN Meta!Explicit(override) : t[p] = override[p]
  <2>1. Harness \in DOMAIN override /\ override[Harness] = chosen
    BY <1>5 DEF Get
  <2>2. Head(Harness) = "interpreter"
    BY DEF Harness
  <2>3. Harness \in DOMAIN explicit /\ explicit[Harness] = chosen
    BY <1>2, <1>4, <2>1, <2>2
  <2>4. Get(explicit, Harness) = chosen
    BY <2>3 DEF Get
  <2>5. explicit # Meta!Empty
    BY <2>3 DEF Meta!Empty
  <2> HIDE DEF explicit
  <2>6. ~ Meta!Unfit(explicit, wire)
    BY <1>5, <2>4, MetaTrees DEF Meta!Unfit, Harness
  <2>7. \A f : ~ Meta!Replaced(model, explicit, f)
    BY <1>5 DEF Meta!Replaced
  <2>8. t = explicit
    BY <1>3, <2>5, <2>6, <2>7 DEF Meta!ResolveAgent, explicit
  <2>9. ASSUME NEW p \in DOMAIN Meta!Explicit(override) PROVE t[p] = override[p]
    <3>1. p \in DOMAIN override /\ Head(p) \in {"agent", "interpreter"}
      BY <1>4
    <3>2. p \in DOMAIN explicit /\ explicit[p] = data[p]
      BY <1>2, <1>4, <3>1 DEF explicit
    <3> QED BY <1>2, <2>8, <3>1, <3>2
  <2> QED BY <2>4, <2>8, <2>9
<1> QED BY <1>2, <1>5, MetaTrees DEF Meta!UserDecides, Harness, data, t

-------------------------------------------------------------------------------
(* ShellBlocks *)

Owner == Channel \cup {Blocks!Guidance}
Line == [is : {"user", "begin", "load", "end"}, of : Owner \cup {"user"}, by : Nat]

LEMMA AtIsFirst ==
    ASSUME NEW S, NEW text \in Seq(S), NEW line
    PROVE  LET n == Blocks!At(text, line)
           IN  /\ n \in 0 .. Len(text)
               /\ n = 0 => \A i \in DOMAIN text : text[i] # line
               /\ n # 0 => text[n] = line /\ \A i \in 1 .. n - 1 : text[i] # line
<1> DEFINE I == {i \in 1 .. Len(text) : text[i] = line}
<1>1. Blocks!At(text, line) = IF I # {} THEN Least(I) ELSE 0
  BY DEF Blocks!At, Blocks!FirstWhere, Blocks!Least, Least
<1>2. I \in SUBSET Nat /\ Len(text) \in Nat /\ DOMAIN text = 1 .. Len(text)
  OBVIOUS
<1>3. CASE I = {}
  BY <1>1, <1>2, <1>3
<1>4. CASE I # {}
  <2>1. Least(I) \in I /\ \A m \in I : Least(I) <= m
    BY <1>2, <1>4, MinIsFirst
  <2> DEFINE n == Least(I)
  <2>2. n \in 1 .. Len(text) /\ text[n] = line
    BY <2>1
  <2>3. \A i \in 1 .. n - 1 : text[i] # line
    BY <1>2, <2>1, <2>2
  <2> QED BY <1>1, <1>4, <2>2, <2>3
<1> QED BY <1>3, <1>4

\* A channel has one block, and nothing between its lines; a begin marker whose
\* end was removed has none behind it.
Sound(text) ==
    /\ text \in Seq(Line)
    /\ \A c \in Owner : \A i, j \in DOMAIN text :
          /\ text[i] = Blocks!Begin(c) /\ text[j] = Blocks!Begin(c) => i = j
          /\ text[i] = Blocks!Begin(c) /\ text[j] = Blocks!End(c) /\ i < j =>
                j = i + 2 /\ text[i + 1] = Blocks!Load(c)

LEMMA BlockLines ==
    ASSUME NEW c \in Owner
    PROVE  /\ Blocks!Block(c) \in Seq(Line) /\ Len(Blocks!Block(c)) = 3
           /\ Blocks!Block(c)[1] = Blocks!Begin(c) /\ Blocks!Block(c)[2] = Blocks!Load(c)
           /\ Blocks!Block(c)[3] = Blocks!End(c)
           /\ Blocks!Begin(c) # Blocks!End(c) /\ Blocks!Begin(c) # Blocks!Load(c)
           /\ Blocks!Load(c) # Blocks!End(c)
BY DEF Blocks!Block, Blocks!Begin, Blocks!Load, Blocks!End, Line

\* What is replaced by what was there is as it was.
LEMMA Spliced ==
    ASSUME NEW S, NEW text \in Seq(S), NEW block \in Seq(S), Len(block) = 3, NEW a \in Nat \ {0},
           a + 2 <= Len(text), \A i \in 1 .. 3 : block[i] = text[a - 1 + i]
    PROVE  SubSeq(text, 1, a - 1) \o block \o SubSeq(text, a + 3, Len(text)) = text
<1> DEFINE left == SubSeq(text, 1, a - 1)
           right == SubSeq(text, a + 3, Len(text))
           mid == left \o block
<1>1. /\ left \in Seq(S) /\ Len(left) = a - 1
      /\ \A i \in 1 .. a - 1 : left[i] = text[i]
  OBVIOUS
<1>2. /\ right \in Seq(S) /\ Len(right) = Len(text) - a - 2
      /\ \A i \in 1 .. Len(text) - a - 2 : right[i] = text[a + 2 + i]
  OBVIOUS
<1> HIDE DEF left, right
<1>3. /\ mid \in Seq(S) /\ Len(mid) = Len(left) + Len(block)
      /\ \A i \in 1 .. Len(left) + Len(block) :
            mid[i] = IF i <= Len(left) THEN left[i] ELSE block[i - Len(left)]
  BY <1>1, ConcatProperties
<1> HIDE DEF mid
<1>4. Len(mid) = a + 2 /\ \A i \in 1 .. a + 2 : mid[i] = text[i]
  <2>1. Len(mid) = a + 2
    BY <1>1, <1>3
  <2>2. ASSUME NEW i \in 1 .. a + 2 PROVE mid[i] = text[i]
    <3>1. CASE i <= a - 1
      <4>1. i \in 1 .. a - 1 /\ i <= Len(left) /\ i \in 1 .. Len(left) + Len(block)
        BY <1>1, <3>1
      <4> QED BY <1>1, <1>3, <4>1
    <3>2. CASE i > a - 1
      <4>1. i - (a - 1) \in 1 .. 3 /\ mid[i] = block[i - (a - 1)]
        BY <1>1, <1>3, <3>2
      <4>2. block[i - (a - 1)] = text[a - 1 + (i - (a - 1))]
        BY <4>1
      <4> QED BY <4>1, <4>2
    <3> QED BY <3>1, <3>2
  <2> QED BY <2>1, <2>2
<1> DEFINE whole == mid \o right
<1>5. /\ whole \in Seq(S) /\ Len(whole) = Len(mid) + Len(right)
      /\ \A i \in 1 .. Len(mid) + Len(right) :
            whole[i] = IF i <= Len(mid) THEN mid[i] ELSE right[i - Len(mid)]
  <2>1. mid \in Seq(S) /\ right \in Seq(S)
    BY <1>2, <1>3
  <2> QED BY <2>1, ConcatProperties
<1> HIDE DEF whole
<1>6. Len(whole) = Len(text) /\ \A i \in 1 .. Len(whole) : whole[i] = text[i]
  <2>1. Len(whole) = Len(text)
    BY <1>2, <1>4, <1>5
  <2>2. ASSUME NEW i \in 1 .. Len(whole) PROVE whole[i] = text[i]
    <3>1. CASE i <= a + 2
      BY <1>2, <1>4, <1>5, <2>1, <3>1
    <3>2. CASE i > a + 2
      <4>1. i - (a + 2) \in 1 .. Len(text) - a - 2 /\ whole[i] = right[i - (a + 2)]
        BY <1>2, <1>4, <1>5, <2>1, <3>2
      <4>2. right[i - (a + 2)] = text[a + 2 + (i - (a + 2))]
        BY <1>2, <4>1
      <4> QED BY <4>1, <4>2
    <3> QED BY <3>1, <3>2
  <2> QED BY <2>1, <2>2
<1>7. whole = text
  BY <1>5, <1>6, SeqEqual
<1> QED BY <1>7 DEF whole, mid, left, right

\* Where there is a whole block, it stays as it is.
LEMMA BlockStays ==
    ASSUME NEW c \in Owner, NEW text, Sound(text), ~ Blocks!Incomplete(c, text)
    PROVE  Blocks!WithBlock(c, text) =
              IF \A i \in DOMAIN text : text[i] # Blocks!Begin(c) THEN text \o Blocks!Block(c) ELSE text
<1> DEFINE start == Blocks!At(text, Blocks!Begin(c))
<1>1. text \in Seq(Line) /\ Len(text) \in Nat /\ DOMAIN text = 1 .. Len(text)
  BY DEF Sound
<1>2. /\ start \in 0 .. Len(text)
      /\ start = 0 => \A i \in DOMAIN text : text[i] # Blocks!Begin(c)
      /\ start # 0 => text[start] = Blocks!Begin(c)
  BY <1>1, AtIsFirst
<1>3. CASE start = 0
  BY <1>2, <1>3 DEF Blocks!WithBlock
<1>4. CASE start # 0
  <2> DEFINE rest == SubSeq(text, start, Len(text))
             after == Blocks!At(rest, Blocks!End(c))
  <2>1. /\ rest \in Seq(Line) /\ Len(rest) = Len(text) - start + 1
        /\ \A i \in 1 .. Len(text) - start + 1 : rest[i] = text[start + i - 1]
    BY <1>1, <1>2, <1>4
  <2>2. after \in 0 .. Len(rest) /\ (after # 0 => rest[after] = Blocks!End(c))
    BY <2>1, AtIsFirst
  <2>3. Blocks!Ending(c, text, start) = IF after = 0 THEN 0 ELSE start + after - 1
    BY DEF Blocks!Ending
  <2>4. after # 0 /\ Blocks!Ending(c, text, start) = start + after - 1
    BY <1>4, <2>3 DEF Blocks!Incomplete
  <2>5. text[start + after - 1] = Blocks!End(c) /\ start + after - 1 \in DOMAIN text
    BY <1>1, <1>2, <1>4, <2>1, <2>2, <2>4
  <2>6. start + after - 1 > start
    BY <1>1, <1>2, <1>4, <2>2, <2>4, <2>5, BlockLines
  <2>7. start + after - 1 = start + 2 /\ text[start + 1] = Blocks!Load(c)
    BY <1>1, <1>2, <1>4, <2>5, <2>6 DEF Sound
  <2> HIDE DEF start, rest, after
  <2>8. Blocks!WithBlock(c, text) =
            SubSeq(text, 1, start - 1) \o Blocks!Block(c) \o SubSeq(text, start + 3, Len(text))
    <3>1. Blocks!Ending(c, text, start) + 1 = start + 3
      BY <1>1, <1>2, <2>4, <2>7
    <3>2. Blocks!WithBlock(c, text) =
              SubSeq(text, 1, start - 1) \o Blocks!Block(c)
                  \o SubSeq(text, Blocks!Ending(c, text, start) + 1, Len(text))
      BY <1>4 DEF Blocks!WithBlock, start
    <3> QED BY <3>1, <3>2
  <2>9. SubSeq(text, 1, start - 1) \o Blocks!Block(c) \o SubSeq(text, start + 3, Len(text)) = text
    <3>1. start \in 1 .. Len(text) /\ start + 2 \in 1 .. Len(text)
      BY <1>1, <1>2, <1>4, <2>5, <2>7
    <3>2. \A i \in 1 .. 3 : Blocks!Block(c)[i] = text[start - 1 + i]
      BY <1>1, <1>2, <1>4, <2>5, <2>7, <3>1, BlockLines
    <3>3. Blocks!Block(c) \in Seq(Line) /\ Len(Blocks!Block(c)) = 3
      BY BlockLines
    <3>4. start \in Nat \ {0} /\ start + 2 <= Len(text) /\ text \in Seq(Line)
      BY <1>1, <3>1
    <3> QED BY <3>2, <3>3, <3>4, Spliced
  <2>10. \E i \in DOMAIN text : text[i] = Blocks!Begin(c)
    BY <1>1, <1>2, <1>4
  <2> QED BY <2>8, <2>9, <2>10
<1> QED BY <1>3, <1>4

\* What Read refuses covers every text whose block has no end.
LEMMA BrokenCovers ==
    ASSUME NEW f, NEW c \in Owner, f = Blocks!Instructions => c = Blocks!Guidance,
           NEW text, Sound(text), ~ Blocks!Broken(f, c, text)
    PROVE  ~ Blocks!Incomplete(c, text)
<1>1. CASE f # Blocks!Instructions
  BY <1>1 DEF Blocks!Broken
<1>2. CASE f = Blocks!Instructions
  <2> DEFINE start == Blocks!At(text, Blocks!Begin(c))
             end == Blocks!At(text, Blocks!End(c))
             rest == SubSeq(text, start, Len(text))
             after == Blocks!At(rest, Blocks!End(c))
  <2>1. text \in Seq(Line) /\ Len(text) \in Nat
    BY DEF Sound
  <2>2. /\ start \in 0 .. Len(text) /\ end \in 0 .. Len(text)
        /\ start # 0 => text[start] = Blocks!Begin(c)
        /\ end # 0 => text[end] = Blocks!End(c)
    BY <2>1, AtIsFirst
  <2>3. start = end \/ (0 < start /\ start < end)
    BY <1>2 DEF Blocks!Broken
  <2>4. CASE start = 0
    BY <2>4 DEF Blocks!Incomplete
  <2>5. CASE start # 0
    <3>1. start < end
      BY <2>2, <2>3, <2>5, BlockLines
    <3>2. /\ rest \in Seq(Line) /\ Len(rest) = Len(text) - start + 1
          /\ \A i \in 1 .. Len(text) - start + 1 : rest[i] = text[start + i - 1]
      BY <2>1, <2>2, <2>5
    <3> HIDE DEF rest
    <3>3. end - start + 1 \in 1 .. Len(text) - start + 1 /\ end - start + 1 \in DOMAIN rest
      BY <2>1, <2>2, <3>1, <3>2
    <3>4. rest[end - start + 1] = text[start + (end - start + 1) - 1]
      BY <3>2, <3>3
    <3>5. rest[end - start + 1] = Blocks!End(c)
      BY <2>2, <3>1, <3>4
    <3>6. after \in Nat /\ after # 0
      BY <3>2, <3>3, <3>5, AtIsFirst
    <3>7. Blocks!Ending(c, text, start) # 0
      BY <2>2, <2>5, <3>6 DEF Blocks!Ending, rest
    <3> QED BY <3>7 DEF Blocks!Incomplete
  <2> QED BY <2>4, <2>5
<1> QED BY <1>1, <1>2

\* A block behind a text.
LEMMA BlockAdded ==
    ASSUME NEW c \in Owner, NEW text, Sound(text),
           \A i \in DOMAIN text : text[i] # Blocks!Begin(c)
    PROVE  LET new == text \o Blocks!Block(c)
           IN  /\ Sound(new)
               /\ Blocks!Typed(new) = Blocks!Typed(text)
               /\ Blocks!InOrder(text) => Blocks!InOrder(new)
               /\ \A i \in DOMAIN new : new[i].is = "load" =>
                     new[i].of = c \/ \E j \in DOMAIN text : text[j] = new[i]
<1> DEFINE new == text \o Blocks!Block(c)
           n == Len(text)
<1>1. text \in Seq(Line) /\ n \in Nat /\ DOMAIN text = 1 .. n
  BY DEF Sound
<1>2. /\ new \in Seq(Line) /\ Len(new) = n + 3
      /\ \A i \in 1 .. n + 3 : new[i] = IF i <= n THEN text[i] ELSE Blocks!Block(c)[i - n]
  <2>1. Blocks!Block(c) \in Seq(Line) /\ Len(Blocks!Block(c)) = 3
    BY BlockLines
  <2>2. /\ new \in Seq(Line) /\ Len(new) = Len(text) + Len(Blocks!Block(c))
        /\ \A i \in 1 .. Len(text) + Len(Blocks!Block(c)) :
              new[i] = IF i <= Len(text) THEN text[i] ELSE Blocks!Block(c)[i - Len(text)]
    BY <1>1, <2>1, ConcatProperties
  <2> QED BY <2>1, <2>2
<1> HIDE DEF new
<1>3. /\ DOMAIN new = 1 .. n + 3
      /\ \A i \in 1 .. n : new[i] = text[i]
      /\ new[n + 1] = Blocks!Begin(c) /\ new[n + 2] = Blocks!Load(c) /\ new[n + 3] = Blocks!End(c)
  <2>1. DOMAIN new = 1 .. n + 3 /\ \A i \in 1 .. n : new[i] = text[i]
    BY <1>1, <1>2
  <2>2. \A k \in 1 .. 3 : new[n + k] = Blocks!Block(c)[k]
    BY <1>1, <1>2
  <2>3. /\ Blocks!Block(c)[1] = Blocks!Begin(c) /\ Blocks!Block(c)[2] = Blocks!Load(c)
        /\ Blocks!Block(c)[3] = Blocks!End(c)
    BY BlockLines
  <2> QED BY <2>1, <2>2, <2>3
<1> HIDE DEF n
<1>4. \A i \in DOMAIN new : i \in DOMAIN text \/ i = n + 1 \/ i = n + 2 \/ i = n + 3
  BY <1>1, <1>3
<1>5. Sound(new)
  <2>1. ASSUME NEW d \in Owner, NEW i \in DOMAIN new, NEW j \in DOMAIN new,
               new[i] = Blocks!Begin(d), new[j] = Blocks!Begin(d)
        PROVE  i = j
    <3>1. CASE d = c
      <4>1. i = n + 1 /\ j = n + 1
        BY <1>3, <1>4, <1>1, <2>1, <3>1, BlockLines
      <4> QED BY <4>1
    <3>2. CASE d # c
      <4>1. Blocks!Begin(d) # Blocks!Begin(c) /\ Blocks!Begin(d) # Blocks!Load(c) /\ Blocks!Begin(d) # Blocks!End(c)
        BY <3>2 DEF Blocks!Begin, Blocks!Load, Blocks!End
      <4>2. i \in DOMAIN text /\ j \in DOMAIN text
        BY <1>3, <1>4, <2>1, <4>1
      <4> QED BY <1>1, <1>3, <2>1, <4>2 DEF Sound
    <3> QED BY <3>1, <3>2
  <2>2. ASSUME NEW d \in Owner, NEW i \in DOMAIN new, NEW j \in DOMAIN new,
               new[i] = Blocks!Begin(d), new[j] = Blocks!End(d), i < j
        PROVE  j = i + 2 /\ new[i + 1] = Blocks!Load(d)
    <3>1. CASE d = c
      <4>1. i = n + 1
        BY <1>3, <1>4, <1>1, <2>2, <3>1, BlockLines
      <4>2. j = n + 3
        BY <1>3, <1>4, <1>1, <2>2, <3>1, <4>1, BlockLines
      <4> QED BY <1>1, <1>3, <3>1, <4>1, <4>2
    <3>2. CASE d # c
      <4>1. /\ Blocks!Begin(d) # Blocks!Begin(c) /\ Blocks!Begin(d) # Blocks!Load(c) /\ Blocks!Begin(d) # Blocks!End(c)
            /\ Blocks!End(d) # Blocks!Begin(c) /\ Blocks!End(d) # Blocks!Load(c) /\ Blocks!End(d) # Blocks!End(c)
        BY <3>2 DEF Blocks!Begin, Blocks!Load, Blocks!End
      <4>2. i \in DOMAIN text /\ j \in DOMAIN text
        BY <1>3, <1>4, <2>2, <4>1
      <4>3. text[i] = Blocks!Begin(d) /\ text[j] = Blocks!End(d)
        BY <1>1, <1>3, <2>2, <4>2
      <4>4. j = i + 2 /\ text[i + 1] = Blocks!Load(d)
        BY <2>2, <4>2, <4>3 DEF Sound
      <4>5. i + 1 \in 1 .. n
        BY <1>1, <4>2, <4>4
      <4> QED BY <1>3, <4>4, <4>5
    <3> QED BY <3>1, <3>2
  <2> QED BY <1>2, <2>1, <2>2 DEF Sound
<1>6. new[n + 1].is = "begin" /\ new[n + 2].is = "load" /\ new[n + 2].of = c /\ new[n + 3].is = "end"
  BY <1>3 DEF Blocks!Begin, Blocks!Load, Blocks!End
<1>7. Blocks!Typed(new) = Blocks!Typed(text)
  <2>1. \A i \in DOMAIN new : new[i].is = "user" => i \in DOMAIN text /\ text[i] = new[i]
    BY <1>1, <1>3, <1>4, <1>6
  <2>2. \A i \in DOMAIN text : i \in DOMAIN new /\ new[i] = text[i]
    BY <1>1, <1>3
  <2> QED BY <2>1, <2>2 DEF Blocks!Typed
<1>8. Blocks!InOrder(text) => Blocks!InOrder(new)
  <2>1. \A i \in DOMAIN new : new[i].is = "user" => i \in DOMAIN text /\ text[i] = new[i]
    BY <1>1, <1>3, <1>4, <1>6
  <2> QED BY <2>1 DEF Blocks!InOrder
<1>9. \A i \in DOMAIN new : new[i].is = "load" =>
         new[i].of = c \/ \E j \in DOMAIN text : text[j] = new[i]
  BY <1>1, <1>3, <1>4, <1>6
<1> QED BY <1>5, <1>7, <1>8, <1>9 DEF new

\* A line of the user behind a text.
LEMMA UserAdded ==
    ASSUME NEW text, Sound(text), NEW n \in Nat
    PROVE  LET new == Append(text, Blocks!User(n))
           IN  /\ Sound(new)
               /\ Blocks!Typed(new) = Blocks!Typed(text) \cup {n}
               /\ Blocks!InOrder(text) /\ (\A m \in Blocks!Typed(text) : m < n) => Blocks!InOrder(new)
               /\ \A i \in DOMAIN new : new[i].is = "load" => \E j \in DOMAIN text : text[j] = new[i]
<1> DEFINE new == Append(text, Blocks!User(n))
           l == Len(text)
<1>1. text \in Seq(Line) /\ l \in Nat /\ DOMAIN text = 1 .. l
  BY DEF Sound
<1>2. Blocks!User(n) \in Line
  BY DEF Blocks!User, Line
<1>3. /\ new \in Seq(Line) /\ DOMAIN new = 1 .. l + 1
      /\ \A i \in DOMAIN text : i \in DOMAIN new /\ new[i] = text[i]
      /\ new[l + 1] = Blocks!User(n)
  BY <1>1, <1>2
<1> HIDE DEF new, l
<1>4. \A i \in DOMAIN new : i \in DOMAIN text \/ i = l + 1
  BY <1>1, <1>3
<1>5. new[l + 1].is = "user" /\ new[l + 1].by = n
  BY <1>3 DEF Blocks!User
<1>6. \A d \in Owner : \A i \in DOMAIN new :
         new[i] = Blocks!Begin(d) \/ new[i] = Blocks!End(d) => i \in DOMAIN text /\ text[i] = new[i]
  BY <1>3, <1>4, <1>5 DEF Blocks!Begin, Blocks!End
<1>7. Sound(new)
  <2>1. ASSUME NEW d \in Owner, NEW i \in DOMAIN new, NEW j \in DOMAIN new,
               new[i] = Blocks!Begin(d), new[j] = Blocks!Begin(d)
        PROVE  i = j
    BY <1>6, <2>1 DEF Sound
  <2>2. ASSUME NEW d \in Owner, NEW i \in DOMAIN new, NEW j \in DOMAIN new,
               new[i] = Blocks!Begin(d), new[j] = Blocks!End(d), i < j
        PROVE  j = i + 2 /\ new[i + 1] = Blocks!Load(d)
    <3>1. i \in DOMAIN text /\ j \in DOMAIN text /\ text[i] = Blocks!Begin(d) /\ text[j] = Blocks!End(d)
      BY <1>6, <2>2
    <3>2. j = i + 2 /\ text[i + 1] = Blocks!Load(d)
      BY <2>2, <3>1 DEF Sound
    <3>3. i + 1 \in DOMAIN text
      BY <1>1, <3>1, <3>2
    <3> QED BY <1>3, <3>2, <3>3
  <2> QED BY <1>3, <2>1, <2>2 DEF Sound
<1>8. Blocks!Typed(new) = Blocks!Typed(text) \cup {n}
  <2>1. l + 1 \in DOMAIN new
    BY <1>1, <1>3
  <2> QED BY <1>3, <1>4, <1>5, <2>1 DEF Blocks!Typed
<1>9. ASSUME Blocks!InOrder(text), \A m \in Blocks!Typed(text) : m < n
      PROVE  Blocks!InOrder(new)
  <2> SUFFICES ASSUME NEW i \in DOMAIN new, NEW j \in DOMAIN new,
                      i < j, new[i].is = "user", new[j].is = "user"
               PROVE  new[i].by < new[j].by
    BY DEF Blocks!InOrder
  <2>1. i \in DOMAIN text
    BY <1>1, <1>3, <1>4
  <2>2. CASE j \in DOMAIN text
    BY <1>3, <1>9, <2>1, <2>2 DEF Blocks!InOrder
  <2>3. CASE j = l + 1
    <3>1. text[i].by \in Blocks!Typed(text)
      BY <1>3, <2>1 DEF Blocks!Typed
    <3> QED BY <1>3, <1>5, <1>9, <2>1, <2>3, <3>1
  <2> QED BY <1>4, <2>2, <2>3
<1>10. \A i \in DOMAIN new : new[i].is = "load" => \E j \in DOMAIN text : text[j] = new[i]
  BY <1>3, <1>4, <1>5
<1> QED BY <1>7, <1>8, <1>9, <1>10 DEF new

\* A text without one of its markers.
LEMMA MarkerRemoved ==
    ASSUME NEW text, Sound(text), NEW k \in DOMAIN text, text[k].is \in {"begin", "end"}
    PROVE  LET new == Without(text, k)
           IN  /\ Sound(new)
               /\ Blocks!Typed(new) = Blocks!Typed(text)
               /\ Blocks!InOrder(text) => Blocks!InOrder(new)
               /\ \A i \in DOMAIN new : new[i].is = "load" => \E j \in DOMAIN text : text[j] = new[i]
<1> DEFINE new == Without(text, k)
           l == Len(text)
           left == SubSeq(text, 1, k - 1)
           right == SubSeq(text, k + 1, Len(text))
           Was(i) == IF i < k THEN i ELSE i + 1
<1>1. text \in Seq(Line) /\ l \in Nat /\ DOMAIN text = 1 .. l /\ k \in 1 .. l
  BY DEF Sound
<1>2. left \in Seq(Line) /\ Len(left) = k - 1 /\ \A i \in 1 .. k - 1 : left[i] = text[i]
  BY <1>1
<1>3. right \in Seq(Line) /\ Len(right) = l - k /\ \A i \in 1 .. l - k : right[i] = text[k + i]
  BY <1>1
<1>4. new = left \o right
  BY DEF Without
<1> HIDE DEF new, left, right
<1>5. /\ new \in Seq(Line) /\ Len(new) = Len(left) + Len(right)
      /\ \A i \in 1 .. Len(left) + Len(right) :
            new[i] = IF i <= Len(left) THEN left[i] ELSE right[i - Len(left)]
  <2>1. left \in Seq(Line) /\ right \in Seq(Line)
    BY <1>2, <1>3
  <2> QED BY <1>4, <2>1, ConcatProperties
<1>6. DOMAIN new = 1 .. l - 1
  BY <1>1, <1>2, <1>3, <1>5
<1>7. ASSUME NEW i \in DOMAIN new
      PROVE  Was(i) \in DOMAIN text /\ Was(i) # k /\ new[i] = text[Was(i)]
  <2>1. i \in 1 .. l - 1 /\ i \in 1 .. Len(left) + Len(right)
    BY <1>1, <1>2, <1>3, <1>6
  <2>2. CASE i < k
    <3>1. i \in 1 .. k - 1 /\ i <= Len(left)
      BY <1>1, <1>2, <2>1, <2>2
    <3> QED BY <1>1, <1>2, <1>5, <2>1, <2>2, <3>1
  <2>3. CASE i >= k
    <3>1. i - (k - 1) \in 1 .. l - k /\ ~ (i <= Len(left))
      BY <1>1, <1>2, <2>1, <2>3
    <3>2. new[i] = right[i - (k - 1)]
      BY <1>2, <1>5, <2>1, <3>1
    <3>3. right[i - (k - 1)] = text[k + (i - (k - 1))]
      BY <1>3, <3>1
    <3> QED BY <1>1, <2>1, <2>3, <3>2, <3>3
  <2> QED BY <1>1, <2>1, <2>2, <2>3
<1>8. ASSUME NEW m \in DOMAIN text, m # k
      PROVE  \E i \in DOMAIN new : Was(i) = m
  <2>1. CASE m < k
    <3>1. m \in DOMAIN new /\ Was(m) = m
      BY <1>1, <1>6, <2>1
    <3> QED BY <3>1
  <2>2. CASE m > k
    <3>1. m - 1 \in DOMAIN new /\ Was(m - 1) = m
      BY <1>1, <1>6, <2>2
    <3> QED BY <3>1
  <2> QED BY <1>1, <1>8, <2>1, <2>2
<1>9. \A i, j \in DOMAIN new : (i < j <=> Was(i) < Was(j)) /\ (Was(i) = Was(j) => i = j)
  BY <1>1, <1>6
<1>10. ASSUME NEW i \in DOMAIN new, NEW j \in DOMAIN new, Was(j) = Was(i) + 2, Was(i) + 1 # k
       PROVE  j = i + 2 /\ i + 1 \in DOMAIN new /\ Was(i + 1) = Was(i) + 1
  BY <1>1, <1>6, <1>10
<1> HIDE DEF Was, l
<1>11. Sound(new)
  <2>1. ASSUME NEW d \in Owner, NEW i \in DOMAIN new, NEW j \in DOMAIN new,
               new[i] = Blocks!Begin(d), new[j] = Blocks!Begin(d)
        PROVE  i = j
    <3>1. Was(i) = Was(j)
      BY <1>7, <2>1 DEF Sound
    <3> QED BY <1>9, <3>1
  <2>2. ASSUME NEW d \in Owner, NEW i \in DOMAIN new, NEW j \in DOMAIN new,
               new[i] = Blocks!Begin(d), new[j] = Blocks!End(d), i < j
        PROVE  j = i + 2 /\ new[i + 1] = Blocks!Load(d)
    <3>1. Was(i) \in DOMAIN text /\ Was(j) \in DOMAIN text /\ Was(i) < Was(j)
          /\ text[Was(i)] = Blocks!Begin(d) /\ text[Was(j)] = Blocks!End(d)
      BY <1>7, <1>9, <2>2
    <3>2. Was(j) = Was(i) + 2 /\ text[Was(i) + 1] = Blocks!Load(d)
      BY <3>1 DEF Sound
    <3>3. Was(i) + 1 # k
      BY <3>2 DEF Blocks!Load
    <3>4. j = i + 2 /\ i + 1 \in DOMAIN new /\ Was(i + 1) = Was(i) + 1
      BY <1>10, <3>2, <3>3
    <3> QED BY <1>7, <3>2, <3>4
  <2> QED BY <1>5, <2>1, <2>2 DEF Sound
<1>12. Blocks!Typed(new) = Blocks!Typed(text)
  <2>1. \A m \in DOMAIN text : text[m].is = "user" => m # k
    OBVIOUS
  <2> QED BY <1>7, <1>8, <2>1 DEF Blocks!Typed
<1>13. Blocks!InOrder(text) => Blocks!InOrder(new)
  BY <1>7, <1>9 DEF Blocks!InOrder
<1>14. \A i \in DOMAIN new : new[i].is = "load" => \E j \in DOMAIN text : text[j] = new[i]
  BY <1>7
<1> QED BY <1>11, <1>12, <1>13, <1>14 DEF new

\* What an installation makes of a text it does not refuse.
LEMMA WithBlockKeeps ==
    ASSUME NEW f, NEW c \in Owner, f = Blocks!Instructions => c = Blocks!Guidance,
           NEW text, Sound(text), ~ Blocks!Broken(f, c, text)
    PROVE  LET new == Blocks!WithBlock(c, text)
           IN  /\ Sound(new)
               /\ Blocks!Typed(new) = Blocks!Typed(text)
               /\ Blocks!InOrder(text) => Blocks!InOrder(new)
               /\ \A i \in DOMAIN new : new[i].is = "load" =>
                     new[i].of = c \/ \E j \in DOMAIN text : text[j] = new[i]
<1>1. Blocks!WithBlock(c, text) =
          IF \A i \in DOMAIN text : text[i] # Blocks!Begin(c) THEN text \o Blocks!Block(c) ELSE text
  BY BrokenCovers, BlockStays
<1>2. CASE \A i \in DOMAIN text : text[i] # Blocks!Begin(c)
  BY <1>1, <1>2, BlockAdded
<1>3. CASE ~ \A i \in DOMAIN text : text[i] # Blocks!Begin(c)
  BY <1>1, <1>3
<1> QED BY <1>2, <1>3

Encoding == Encodings \cup {"utf-8", "utf-8 with mark", "other"}
Content == [enc : Encoding, text : Seq(Line)]

BlocksType ==
    /\ at \in [Channel -> {"idle", "helper", "read", "changed", "truncated"}]
    /\ plan \in [Channel -> Seq(Blocks!File)]
    /\ \A c \in Channel : at[c] # "idle" => plan[c] # <<>>
    /\ mine \in [Channel -> Content] /\ \A c \in Channel : Sound(mine[c].text)
    /\ file \in [Blocks!File -> Content] /\ \A f \in Blocks!File : Sound(file[f].text)
    /\ typed \in [Blocks!File -> SUBSET Nat] /\ edits \in Nat
    /\ \A f \in Blocks!File : \A n \in typed[f] : n <= edits

LEMMA FirstIsAFile ==
    ASSUME BlocksType, NEW c \in Channel, at[c] # "idle"
    PROVE  Blocks!First(c) \in Blocks!File /\ Tail(plan[c]) \in Seq(Blocks!File)
           /\ (Len(plan[c]) > 1 => Tail(plan[c]) # <<>>)
<1>1. plan[c] \in Seq(Blocks!File) /\ plan[c] # <<>>
  BY DEF BlocksType
<1>2. /\ Head(plan[c]) \in Blocks!File /\ Tail(plan[c]) \in Seq(Blocks!File)
      /\ Len(Tail(plan[c])) = Len(plan[c]) - 1
  BY <1>1, HeadTailProperties
<1>3. Len(plan[c]) > 1 => Tail(plan[c]) # <<>>
  <2> DEFINE l == Len(plan[c])
             m == Len(Tail(plan[c]))
  <2>0. l \in Nat /\ m = l - 1
    BY <1>1, <1>2, LenProperties
  <2> HIDE DEF l, m
  <2>1. m = 0 => ~ (l > 1)
    BY <2>0
  <2>2. Tail(plan[c]) = <<>> => m = Len(<<>>)
    BY Zenon DEF m
  <2>3. Len(<<>>) = 0
    BY EmptySeq
  <2>4. l > 1 => Tail(plan[c]) # <<>>
    BY <2>1, <2>2, <2>3
  <2> QED BY <2>4 DEF l
<1> QED BY <1>2, <1>3 DEF Blocks!First

LEMMA ProfilesAreFiles ==
    ASSUME NEW m
    PROVE  Blocks!Profiles(m) \in Seq(Blocks!File) /\ Blocks!Profiles(m) # <<>>
<1> DEFINE zsh == IF m.zsh THEN <<".zshrc">> ELSE <<>>
           powershell == IF m.powershell THEN <<"profile.ps1">> ELSE <<>>
<1>1. <<".bashrc">> \in Seq(Blocks!File) /\ zsh \in Seq(Blocks!File) /\ powershell \in Seq(Blocks!File)
  <2>1. ".bashrc" \in Blocks!File /\ ".zshrc" \in Blocks!File /\ "profile.ps1" \in Blocks!File
    BY DEF Blocks!File
  <2> QED BY <2>1
<1> HIDE DEF zsh, powershell
<1>2. <<".bashrc">> \o zsh \in Seq(Blocks!File) /\ <<".bashrc">> \o zsh # <<>>
  BY <1>1
<1>3. (<<".bashrc">> \o zsh) \o powershell \in Seq(Blocks!File) /\ (<<".bashrc">> \o zsh) \o powershell # <<>>
  BY <1>1, <1>2, ConcatEqualIffEmpty
<1>4. <<".bashrc", ".bash_profile", "profile.ps1", "ps7/profile.ps1">> \in Seq(Blocks!File)
  BY DEF Blocks!File
<1> QED BY <1>3, <1>4 DEF Blocks!Profiles, zsh, powershell

LEMMA NothingIsSound == Sound(<<>>) /\ <<>> \in Seq(Line)
BY DEF Sound

LEMMA BlocksTypeHolds ==
    /\ Blocks!Init => BlocksType
    /\ BlocksType /\ Blocks!Next => BlocksType'
<1>1. ASSUME Blocks!Init PROVE BlocksType
  <2>1. PICK enc \in Encodings :
          file = [f \in Blocks!File |-> IF f = ".bashrc" THEN [enc |-> enc, text |-> <<Blocks!User(0)>>]
                                                        ELSE [enc |-> "utf-8", text |-> <<>>]]
    BY <1>1 DEF Blocks!Init
  <2>2. Blocks!User(0) \in Line
    BY DEF Blocks!User, Line
  <2>3. Sound(<<Blocks!User(0)>>) /\ <<Blocks!User(0)>> \in Seq(Line)
    BY <2>2 DEF Sound
  <2>4. file \in [Blocks!File -> Content] /\ \A f \in Blocks!File : Sound(file[f].text)
    BY <2>1, <2>3, NothingIsSound DEF Content, Encoding
  <2>5. \A f \in Blocks!File : Blocks!Typed(file[f].text) \subseteq {0}
    BY <2>1 DEF Blocks!Typed, Blocks!User
  <2>6. /\ typed \in [Blocks!File -> SUBSET Nat] /\ edits = 0
        /\ \A f \in Blocks!File : \A n \in typed[f] : n <= edits
    <3>1. /\ edits = 0 /\ DOMAIN typed = Blocks!File
          /\ typed = [f \in Blocks!File |-> Blocks!Typed(file[f].text)]
      BY <1>1 DEF Blocks!Init
    <3>2. \A f \in Blocks!File : typed[f] \subseteq {0}
      BY <2>5, <3>1
    <3>3. typed \in [Blocks!File -> SUBSET Nat]
      BY <3>1, <3>2
    <3> QED BY <3>1, <3>2, <3>3
  <2>7. Blocks!Unreadable \in Content /\ Sound(Blocks!Unreadable.text)
    BY NothingIsSound DEF Blocks!Unreadable, Content, Encoding
  <2>8. plan \in [Channel -> Seq(Blocks!File)] /\ at = [c \in Channel |-> "idle"]
    BY <1>1 DEF Blocks!Init
  <2>9. mine = [c \in Channel |-> Blocks!Unreadable]
    BY <1>1 DEF Blocks!Init
  <2> QED BY <2>4, <2>6, <2>7, <2>8, <2>9 DEF BlocksType
<1>2. ASSUME BlocksType, Blocks!Next PROVE BlocksType'
  <2>1. ASSUME NEW c \in Channel, Blocks!Install(c) PROVE BlocksType'
    <3>1. PICK list \in {Blocks!Profiles(platform), <<Blocks!Instructions>>} :
            plan' = [plan EXCEPT ![c] = list]
      BY <2>1 DEF Blocks!Install
    <3>2. list \in Seq(Blocks!File) /\ list # <<>>
      <4>1. Blocks!Instructions \in Blocks!File
        BY DEF Blocks!File
      <4>2. <<Blocks!Instructions>> \in Seq(Blocks!File) /\ <<Blocks!Instructions>> # <<>>
        BY <4>1
      <4> QED BY <4>2, ProfilesAreFiles
    <3> QED BY <1>2, <2>1, <3>1, <3>2 DEF BlocksType, Blocks!Install, Blocks!Goto
  <2>2. ASSUME NEW c \in Channel, Blocks!WriteHelper(c) PROVE BlocksType'
    BY <1>2, <2>2 DEF BlocksType, Blocks!WriteHelper, Blocks!Goto
  <2>3. ASSUME NEW c \in Channel, Blocks!Read(c) PROVE BlocksType'
    <3> DEFINE f == Blocks!First(c)
               owner == IF f = Blocks!Instructions THEN Blocks!Guidance ELSE c
               new == [enc |-> Blocks!Encoded(f, file[f]), text |-> Blocks!WithBlock(owner, file[f].text)]
    <3>1. /\ at[c] = "read" /\ UNCHANGED <<file, plan, typed, edits>>
          /\ \/ at' = [at EXCEPT ![c] = "idle"] /\ mine' = mine
             \/ /\ at' = [at EXCEPT ![c] = "changed"] /\ mine' = [mine EXCEPT ![c] = new]
                /\ ~ Blocks!Broken(f, owner, file[f].text)
      BY <2>3 DEF Blocks!Read, Blocks!Goto
    <3>2. f \in Blocks!File
      BY <1>2, <3>1, FirstIsAFile
    <3>3. owner \in Owner /\ (f = Blocks!Instructions => owner = Blocks!Guidance)
      BY DEF Owner
    <3>4. file[f] \in Content /\ Sound(file[f].text)
      BY <1>2, <3>2 DEF BlocksType
    <3> HIDE DEF f, owner
    <3>5. Blocks!Encoded(f, file[f]) \in Encoding
      BY <3>4 DEF Blocks!Encoded, Content, Encoding
    <3>6. ~ Blocks!Broken(f, owner, file[f].text) => Sound(Blocks!WithBlock(owner, file[f].text))
      BY <3>3, <3>4, WithBlockKeeps
    <3>7. ~ Blocks!Broken(f, owner, file[f].text) => new \in Content /\ Sound(new.text)
      BY <3>5, <3>6 DEF Sound, Content
    <3> HIDE DEF new
    <3> QED BY <1>2, <3>1, <3>7 DEF BlocksType
  <2>4. ASSUME NEW c \in Channel, Blocks!Truncate(c) PROVE BlocksType'
    <3>1. [enc |-> "utf-8", text |-> <<>>] \in Content /\ Sound([enc |-> "utf-8", text |-> <<>>].text)
      BY NothingIsSound DEF Content, Encoding
    <3> QED BY <1>2, <2>4, <3>1 DEF BlocksType, Blocks!Truncate, Blocks!Goto
  <2>5. ASSUME NEW c \in Channel, Blocks!Fill(c) PROVE BlocksType'
    <3>1. Blocks!Unreadable \in Content /\ Sound(Blocks!Unreadable.text)
      BY NothingIsSound DEF Blocks!Unreadable, Content, Encoding
    <3>2. /\ Tail(plan[c]) \in Seq(Blocks!File)
          /\ Len(plan[c]) > 1 => Tail(plan[c]) # <<>>
      BY <1>2, <2>5, FirstIsAFile DEF Blocks!Fill
    <3>3. mine[c] \in Content /\ Sound(mine[c].text)
      BY <1>2 DEF BlocksType
    <3>4. /\ file' = [file EXCEPT ![Blocks!First(c)] = mine[c]]
          /\ plan' = [plan EXCEPT ![c] = Tail(plan[c])]
          /\ mine' = [mine EXCEPT ![c] = Blocks!Unreadable]
          /\ at' = [at EXCEPT ![c] = IF Len(plan[c]) > 1 THEN "helper" ELSE "idle"]
          /\ UNCHANGED <<typed, edits>>
      BY <2>5 DEF Blocks!Fill, Blocks!Goto
    <3> QED BY <1>2, <3>1, <3>2, <3>3, <3>4 DEF BlocksType
  <2>6. ASSUME NEW c \in Channel, Blocks!Fail(c) PROVE BlocksType'
    <3>1. Blocks!Unreadable \in Content /\ Sound(Blocks!Unreadable.text)
      BY NothingIsSound DEF Blocks!Unreadable, Content, Encoding
    <3> QED BY <1>2, <2>6, <3>1 DEF BlocksType, Blocks!Fail, Blocks!Goto
  <2>7. ASSUME NEW f \in Blocks!Range(Blocks!Profiles(platform)) \cup {Blocks!Instructions}, Blocks!Edit(f)
        PROVE  BlocksType'
    <3>1. f \in Blocks!File
      <4>1. CASE f = Blocks!Instructions
        BY <4>1 DEF Blocks!File
      <4>2. CASE f \in Blocks!Range(Blocks!Profiles(platform))
        BY <4>2, ProfilesAreFiles DEF Blocks!Range
      <4> QED BY <2>7, <4>1, <4>2
    <3>2. file[f] \in Content /\ Sound(file[f].text) /\ file[f].text \in Seq(Line) /\ edits + 1 \in Nat
      BY <1>2, <3>1 DEF BlocksType, Content
    <3>3. PICK text :
            /\ Sound(text)
            /\ file' = [file EXCEPT ![f].text = text]
            /\ typed' = typed \/ typed' = [typed EXCEPT ![f] = typed[f] \cup {edits + 1}]
            /\ UNCHANGED <<plan, at, mine>> /\ edits' = edits + 1
      <4>1. CASE /\ file' = [file EXCEPT ![f].text = Append(@, Blocks!User(edits + 1))]
                 /\ typed' = [typed EXCEPT ![f] = @ \cup {edits + 1}]
        <5>1. Sound(Append(file[f].text, Blocks!User(edits + 1)))
          BY <3>2, UserAdded
        <5> QED BY <2>7, <4>1, <5>1 DEF Blocks!Edit
      <4>2. CASE \E i \in DOMAIN file[f].text :
                    /\ file[f].text[i].is \in {"begin", "end"}
                    /\ file' = [file EXCEPT ![f].text = Blocks!Without(@, i)]
                    /\ typed' = typed
        <5>1. PICK i \in DOMAIN file[f].text :
                    /\ file[f].text[i].is \in {"begin", "end"}
                    /\ file' = [file EXCEPT ![f].text = Blocks!Without(@, i)]
                    /\ typed' = typed
          BY <4>2
        <5>2. Sound(Blocks!Without(file[f].text, i))
          BY <3>2, <5>1, MarkerRemoved DEF Blocks!Without, Without
        <5> QED BY <2>7, <5>1, <5>2 DEF Blocks!Edit
      <4> QED BY <2>7, <4>1, <4>2 DEF Blocks!Edit
    <3>4. text \in Seq(Line)
      BY <3>3 DEF Sound
    <3>5. /\ file' \in [Blocks!File -> Content]
          /\ \A g \in Blocks!File : file'[g].text = IF g = f THEN text ELSE file[g].text
      BY <1>2, <3>1, <3>3, <3>4 DEF BlocksType, Content
    <3>6. /\ typed' \in [Blocks!File -> SUBSET Nat] /\ edits' \in Nat
          /\ \A g \in Blocks!File : \A n \in typed'[g] : n <= edits'
      <4>1. /\ edits \in Nat /\ edits' = edits + 1 /\ typed \in [Blocks!File -> SUBSET Nat]
            /\ \A g \in Blocks!File : \A n \in typed[g] : n \in Nat /\ n <= edits
        BY <1>2, <3>3 DEF BlocksType
      <4>2. \A g \in Blocks!File : typed'[g] = typed[g] \/ typed'[g] = typed[g] \cup {edits + 1}
        BY <3>1, <3>3, <4>1
      <4>3. typed' \in [Blocks!File -> SUBSET Nat]
        BY <3>1, <3>2, <3>3, <4>1
      <4>4. ASSUME NEW g \in Blocks!File, NEW n \in typed'[g] PROVE n <= edits'
        BY <4>1, <4>2
      <4> QED BY <4>1, <4>3, <4>4
    <3> QED BY <1>2, <3>3, <3>5, <3>6 DEF BlocksType
  <2> QED BY <1>2, <2>1, <2>2, <2>3, <2>4, <2>5, <2>6, <2>7 DEF Blocks!Next
<1> QED BY <1>1, <1>2

LoadsThere(f, text) ==
    \A i \in DOMAIN text : text[i].is = "load" => <<Blocks!ShellOf(f), text[i].of>> \in helpers

\* A helper is there from the time the profile is read, and what is read and
\* changed loads no other.
BlocksLoads ==
    /\ \A f \in Blocks!File \ {Blocks!Instructions} : LoadsThere(f, file[f].text)
    /\ \A c \in Channel :
          /\ at[c] \in {"read", "changed", "truncated"} /\ Blocks!First(c) # Blocks!Instructions =>
                <<Blocks!ShellOf(Blocks!First(c)), c>> \in helpers
          /\ at[c] \in {"changed", "truncated"} /\ Blocks!First(c) # Blocks!Instructions =>
                LoadsThere(Blocks!First(c), mine[c].text)

LEMMA BlocksLoadsHold ==
    /\ Blocks!Init => BlocksLoads
    /\ BlocksType /\ BlocksLoads /\ Blocks!Next => BlocksLoads'
<1>1. ASSUME Blocks!Init PROVE BlocksLoads
  <2>1. \A f \in Blocks!File : file[f].text = <<>> \/ file[f].text = <<Blocks!User(0)>>
    BY <1>1 DEF Blocks!Init
  <2>2. \A f \in Blocks!File : LoadsThere(f, file[f].text)
    BY <2>1 DEF LoadsThere, Blocks!User
  <2>3. \A c \in Channel : at[c] = "idle"
    BY <1>1 DEF Blocks!Init
  <2> QED BY <2>2, <2>3 DEF BlocksLoads
<1>2. ASSUME BlocksType, BlocksLoads, Blocks!Next PROVE BlocksLoads'
  <2>0. /\ at \in [Channel -> {"idle", "helper", "read", "changed", "truncated"}]
        /\ DOMAIN plan = Channel /\ DOMAIN mine = Channel /\ DOMAIN file = Blocks!File
    BY <1>2 DEF BlocksType
  <2>1. ASSUME NEW c \in Channel, Blocks!Install(c) PROVE BlocksLoads'
    <3>1. /\ UNCHANGED <<file, helpers, mine>> /\ at' = [at EXCEPT ![c] = "helper"]
          /\ \A d \in Channel : d # c => plan'[d] = plan[d]
      BY <2>0, <2>1 DEF Blocks!Install, Blocks!Goto
    <3> QED BY <1>2, <2>0, <3>1 DEF BlocksLoads, LoadsThere, Blocks!First
  <2>2. ASSUME NEW c \in Channel, Blocks!WriteHelper(c) PROVE BlocksLoads'
    <3>1. /\ UNCHANGED <<file, plan, mine>> /\ at' = [at EXCEPT ![c] = "read"]
          /\ helpers \subseteq helpers'
          /\ Blocks!First(c) # Blocks!Instructions => <<Blocks!ShellOf(Blocks!First(c)), c>> \in helpers'
      BY <2>2 DEF Blocks!WriteHelper, Blocks!Goto
    <3> QED BY <1>2, <2>0, <3>1 DEF BlocksLoads, LoadsThere, Blocks!First
  <2>3. ASSUME NEW c \in Channel, Blocks!Read(c) PROVE BlocksLoads'
    <3> DEFINE f == Blocks!First(c)
               owner == IF f = Blocks!Instructions THEN Blocks!Guidance ELSE c
               text == Blocks!WithBlock(owner, file[f].text)
    <3>1. /\ at[c] = "read" /\ UNCHANGED <<file, helpers, plan>>
          /\ \/ at' = [at EXCEPT ![c] = "idle"] /\ mine' = mine
             \/ /\ at' = [at EXCEPT ![c] = "changed"]
                /\ mine' = [mine EXCEPT ![c] = [enc |-> Blocks!Encoded(f, file[f]), text |-> text]]
                /\ ~ Blocks!Broken(f, owner, file[f].text)
      BY <2>3 DEF Blocks!Read, Blocks!Goto
    <3>2. f \in Blocks!File /\ Sound(file[f].text)
      BY <1>2, <3>1, FirstIsAFile DEF BlocksType
    <3>3. owner \in Owner /\ (f = Blocks!Instructions => owner = Blocks!Guidance)
          /\ (f # Blocks!Instructions => owner = c)
      BY DEF Owner
    <3> HIDE DEF f, owner
    <3>4. ASSUME f # Blocks!Instructions, ~ Blocks!Broken(f, owner, file[f].text)
          PROVE  LoadsThere(f, text)
      <4>1. \A i \in DOMAIN text : text[i].is = "load" =>
               text[i].of = c \/ \E j \in DOMAIN file[f].text : file[f].text[j] = text[i]
        BY <3>2, <3>3, <3>4, WithBlockKeeps
      <4>2. <<Blocks!ShellOf(f), c>> \in helpers /\ LoadsThere(f, file[f].text)
        BY <1>2, <3>1, <3>2, <3>4 DEF BlocksLoads, f
      <4> QED BY <4>1, <4>2 DEF LoadsThere
    <3> HIDE DEF text
    <3>5. \A d \in Channel : Blocks!First(d)' = Blocks!First(d)
      BY <3>1 DEF Blocks!First
    <3>6. \A d \in Channel : /\ d # c => at'[d] = at[d] /\ mine'[d] = mine[d]
                             /\ at'[c] \in {"idle", "changed"}
                             /\ at'[c] = "changed" => mine'[c].text = text /\ ~ Blocks!Broken(f, owner, file[f].text)
      BY <2>0, <3>1
    <3>7. <<Blocks!ShellOf(f), c>> \in helpers \/ f = Blocks!Instructions
      BY <1>2, <3>1 DEF BlocksLoads, f
    <3>8. \A g, x : LoadsThere(g, x) <=> LoadsThere(g, x)'
      BY <3>1 DEF LoadsThere
    <3>9. \A g \in Blocks!File \ {Blocks!Instructions} : LoadsThere(g, file[g].text)'
      BY <1>2, <3>1 DEF BlocksLoads, LoadsThere
    <3>10. ASSUME NEW d \in Channel
           PROVE  /\ at'[d] \in {"read", "changed", "truncated"} /\ Blocks!First(d)' # Blocks!Instructions =>
                        <<Blocks!ShellOf(Blocks!First(d)'), d>> \in helpers'
                  /\ at'[d] \in {"changed", "truncated"} /\ Blocks!First(d)' # Blocks!Instructions =>
                        LoadsThere(Blocks!First(d), mine[d].text)'
      <4>1. CASE d = c
        <5>1. at'[c] = "changed" /\ f # Blocks!Instructions => LoadsThere(f, mine'[c].text)
          BY <3>4, <3>6
        <5>2. Blocks!First(d)' = f
          BY <3>5, <4>1 DEF f
        <5> QED BY <3>1, <3>6, <3>7, <4>1, <5>1, <5>2 DEF LoadsThere
      <4>2. CASE d # c
        <5>1. /\ at[d] \in {"read", "changed", "truncated"} /\ Blocks!First(d) # Blocks!Instructions =>
                    <<Blocks!ShellOf(Blocks!First(d)), d>> \in helpers
              /\ at[d] \in {"changed", "truncated"} /\ Blocks!First(d) # Blocks!Instructions =>
                    LoadsThere(Blocks!First(d), mine[d].text)
          BY <1>2 DEF BlocksLoads
        <5> QED BY <3>1, <3>5, <3>6, <4>2, <5>1 DEF LoadsThere
      <4> QED BY <4>1, <4>2
    <3> QED BY <3>1, <3>9, <3>10 DEF BlocksLoads, Blocks!ShellOf
  <2>4. ASSUME NEW c \in Channel, Blocks!Truncate(c) PROVE BlocksLoads'
    <3>1. /\ UNCHANGED <<helpers, plan, mine>> /\ at[c] = "changed" /\ at' = [at EXCEPT ![c] = "truncated"]
          /\ \A f \in Blocks!File : file'[f] = file[f] \/ file'[f].text = <<>>
      BY <2>0, <2>4 DEF Blocks!Truncate, Blocks!Goto
    <3> QED BY <1>2, <2>0, <3>1 DEF BlocksLoads, LoadsThere, Blocks!First
  <2>5. ASSUME NEW c \in Channel, Blocks!Fill(c) PROVE BlocksLoads'
    <3>1. /\ UNCHANGED helpers /\ at[c] \in {"changed", "truncated"}
          /\ file' = [file EXCEPT ![Blocks!First(c)] = mine[c]]
          /\ \A d \in Channel : d # c => plan'[d] = plan[d] /\ mine'[d] = mine[d] /\ at'[d] = at[d]
          /\ at'[c] \in {"helper", "idle"}
      BY <2>0, <2>5 DEF Blocks!Fill, Blocks!Goto
    <3>2. \A f \in Blocks!File : file'[f] = file[f] \/ (f = Blocks!First(c) /\ file'[f] = mine[c])
      BY <2>0, <3>1
    <3>3. Blocks!First(c) # Blocks!Instructions => LoadsThere(Blocks!First(c), mine[c].text)
      BY <1>2, <3>1 DEF BlocksLoads
    <3>4. \A f \in Blocks!File \ {Blocks!Instructions} : LoadsThere(f, file'[f].text)
      BY <1>2, <3>2, <3>3 DEF BlocksLoads
    <3>5. \A d \in Channel : d # c => Blocks!First(d)' = Blocks!First(d)
      BY <3>1 DEF Blocks!First
    <3> HIDE DEF Blocks!First
    <3> QED BY <1>2, <3>1, <3>4, <3>5 DEF BlocksLoads, LoadsThere, Blocks!ShellOf
  <2>6. ASSUME NEW c \in Channel, Blocks!Fail(c) PROVE BlocksLoads'
    <3>1. /\ UNCHANGED <<file, helpers>>
          /\ \A d \in Channel : d # c => plan'[d] = plan[d] /\ mine'[d] = mine[d] /\ at'[d] = at[d]
          /\ at'[c] = "idle"
      BY <2>0, <2>6 DEF Blocks!Fail, Blocks!Goto
    <3> QED BY <1>2, <3>1 DEF BlocksLoads, LoadsThere, Blocks!First
  <2>7. ASSUME NEW f \in Blocks!Range(Blocks!Profiles(platform)) \cup {Blocks!Instructions}, Blocks!Edit(f)
        PROVE  BlocksLoads'
    <3>1. UNCHANGED <<helpers, at, plan, mine>>
      BY <2>7 DEF Blocks!Edit
    <3>2. ASSUME NEW g \in Blocks!File, NEW i \in DOMAIN file'[g].text, file'[g].text[i].is = "load"
          PROVE  \E j \in DOMAIN file[g].text : file[g].text[j] = file'[g].text[i]
      <4>1. Sound(file[g].text) /\ edits + 1 \in Nat /\ "text" \in DOMAIN file[g]
        BY <1>2 DEF BlocksType, Content
      <4>2. CASE g # f
        <5>1. file'[g] = file[g]
          BY <2>0, <2>7, <4>2 DEF Blocks!Edit
        <5> QED BY <3>2, <5>1
      <4>3. CASE g = f
        <5>1. CASE file' = [file EXCEPT ![f].text = Append(@, Blocks!User(edits + 1))]
          <6> DEFINE old == file[g].text
                     new == Append(old, Blocks!User(edits + 1))
          <6>1. file'[g].text = new
            BY <2>0, <4>1, <4>3, <5>1
          <6>2. \A k \in DOMAIN new : new[k].is = "load" => \E j \in DOMAIN old : old[j] = new[k]
            <7>1. Sound(old) /\ edits + 1 \in Nat
              BY <4>1
            <7> HIDE DEF old
            <7> QED BY <7>1, UserAdded
          <6> HIDE DEF old, new
          <6>3. PICK j \in DOMAIN old : old[j] = new[i]
            BY <3>2, <6>1, <6>2
          <6>4. old[j] = file'[g].text[i]
            BY <6>1, <6>3
          <6> QED BY <6>4 DEF old
        <5>2. CASE \E k \in DOMAIN file[f].text :
                      /\ file[f].text[k].is \in {"begin", "end"}
                      /\ file' = [file EXCEPT ![f].text = Blocks!Without(@, k)]
          <6>1. PICK k \in DOMAIN file[f].text :
                      /\ file[f].text[k].is \in {"begin", "end"}
                      /\ file' = [file EXCEPT ![f].text = Blocks!Without(@, k)]
            BY <5>2
          <6>2. file'[g].text = Without(file[g].text, k)
            BY <2>0, <4>1, <4>3, <6>1 DEF Blocks!Without, Without
          <6>3. k \in DOMAIN file[g].text /\ file[g].text[k].is \in {"begin", "end"}
            BY <4>3, <6>1
          <6>4. \A j \in DOMAIN Without(file[g].text, k) : Without(file[g].text, k)[j].is = "load" =>
                   \E m \in DOMAIN file[g].text : file[g].text[m] = Without(file[g].text, k)[j]
            BY <4>1, <6>3, MarkerRemoved
          <6> QED BY <3>2, <6>2, <6>4
        <5> QED BY <2>7, <5>1, <5>2 DEF Blocks!Edit
      <4> QED BY <4>2, <4>3
    <3>3. \A g \in Blocks!File \ {Blocks!Instructions} : LoadsThere(g, file'[g].text)
      BY <1>2, <3>2 DEF BlocksLoads, LoadsThere
    <3> QED BY <1>2, <3>1, <3>3 DEF BlocksLoads, LoadsThere, Blocks!First
  <2> QED BY <1>2, <2>1, <2>2, <2>3, <2>4, <2>5, <2>6, <2>7 DEF Blocks!Next
<1> QED BY <1>1, <1>2

Same(f, text) == Blocks!Typed(text) = typed[f] /\ Blocks!InOrder(text)
Pending(c, f) == at[c] \in {"changed", "truncated"} /\ Blocks!First(c) = f

\* A file nobody raced for has one writer at most, which has the user's lines; so
\* has the file, but while it is truncated.
BlocksText ==
    \A f \in Blocks!File \ raced :
        /\ \A c, d \in Channel : Pending(c, f) /\ Pending(d, f) => c = d
        /\ ~ Blocks!Writing(f) => Same(f, file[f].text)
        /\ \A c \in Channel : Pending(c, f) => Same(f, mine[c].text)

LEMMA BlocksTextHolds ==
    /\ Blocks!Init => BlocksText
    /\ BlocksType /\ BlocksText /\ Blocks!Next => BlocksText'
<1>1. ASSUME Blocks!Init PROVE BlocksText
  <2>1. \A f \in Blocks!File : typed[f] = Blocks!Typed(file[f].text)
                             /\ (file[f].text = <<>> \/ file[f].text = <<Blocks!User(0)>>)
    BY <1>1 DEF Blocks!Init
  <2>2. \A f \in Blocks!File : Blocks!InOrder(file[f].text)
    BY <2>1 DEF Blocks!InOrder
  <2>3. \A c \in Channel : at[c] = "idle"
    BY <1>1 DEF Blocks!Init
  <2> QED BY <2>1, <2>2, <2>3 DEF BlocksText, Same, Pending
<1>2. ASSUME BlocksType, BlocksText, Blocks!Next PROVE BlocksText'
  <2>0. /\ at \in [Channel -> {"idle", "helper", "read", "changed", "truncated"}]
        /\ DOMAIN plan = Channel /\ DOMAIN mine = Channel /\ DOMAIN file = Blocks!File
        /\ DOMAIN typed = Blocks!File
    BY <1>2 DEF BlocksType
  <2>1. ASSUME NEW c \in Channel, Blocks!Install(c) PROVE BlocksText'
    <3>1. /\ UNCHANGED <<file, mine, typed, raced>> /\ at[c] = "idle" /\ at' = [at EXCEPT ![c] = "helper"]
          /\ \A d \in Channel : d # c => plan'[d] = plan[d]
      BY <2>0, <2>1 DEF Blocks!Install, Blocks!Goto
    <3>2. \A d \in Channel, f \in Blocks!File : Pending(d, f)' => Pending(d, f)
      BY <2>0, <3>1 DEF Pending, Blocks!First
    <3>3. \A f \in Blocks!File : Blocks!Writing(f) => Blocks!Writing(f)'
      BY <2>0, <3>1 DEF Blocks!Writing, Blocks!First
    <3> QED BY <1>2, <3>1, <3>2, <3>3 DEF BlocksText, Same
  <2>2. ASSUME NEW c \in Channel, Blocks!WriteHelper(c) PROVE BlocksText'
    <3>1. /\ UNCHANGED <<file, plan, mine, typed, raced>> /\ at[c] = "helper" /\ at' = [at EXCEPT ![c] = "read"]
      BY <2>2 DEF Blocks!WriteHelper, Blocks!Goto
    <3>2. \A d \in Channel, f \in Blocks!File : Pending(d, f)' => Pending(d, f)
      BY <2>0, <3>1 DEF Pending, Blocks!First
    <3>3. \A f \in Blocks!File : Blocks!Writing(f) => Blocks!Writing(f)'
      BY <2>0, <3>1 DEF Blocks!Writing, Blocks!First
    <3> QED BY <1>2, <3>1, <3>2, <3>3 DEF BlocksText, Same
  <2>3. ASSUME NEW c \in Channel, Blocks!Read(c) PROVE BlocksText'
    <3> DEFINE f == Blocks!First(c)
               owner == IF f = Blocks!Instructions THEN Blocks!Guidance ELSE c
               text == Blocks!WithBlock(owner, file[f].text)
    <3>1. /\ at[c] = "read" /\ UNCHANGED <<file, typed, plan>>
          /\ \/ at' = [at EXCEPT ![c] = "idle"] /\ mine' = mine
             \/ /\ at' = [at EXCEPT ![c] = "changed"]
                /\ mine' = [mine EXCEPT ![c] = [enc |-> Blocks!Encoded(f, file[f]), text |-> text]]
                /\ ~ Blocks!Broken(f, owner, file[f].text)
          /\ raced' = IF Blocks!OthersIn(f, c) = {} THEN raced ELSE raced \cup {f}
      BY <2>3 DEF Blocks!Read, Blocks!Goto
    <3>2. f \in Blocks!File /\ Sound(file[f].text)
      BY <1>2, <3>1, FirstIsAFile DEF BlocksType
    <3>3. owner \in Owner /\ (f = Blocks!Instructions => owner = Blocks!Guidance)
      BY DEF Owner
    <3> HIDE DEF owner, f
    <3>4. ASSUME f \notin raced', at'[c] = "changed" PROVE Same(f, text) /\ \A d \in Channel \ {c} : ~ Pending(d, f)
      <4>1. ~ Blocks!Broken(f, owner, file[f].text)
        BY <2>0, <3>1, <3>4
      <4>2. f \notin raced /\ \A d \in Channel \ {c} : ~ Pending(d, f)
        BY <3>1, <3>4 DEF Pending, Blocks!OthersIn
      <4>3. ~ Blocks!Writing(f)
        BY <3>1, <4>2 DEF Blocks!Writing, Pending
      <4>4. Same(f, file[f].text)
        BY <1>2, <3>2, <4>2, <4>3 DEF BlocksText
      <4>5. Blocks!Typed(text) = Blocks!Typed(file[f].text) /\ (Blocks!InOrder(file[f].text) => Blocks!InOrder(text))
        BY <3>2, <3>3, <4>1, WithBlockKeeps
      <4> QED BY <4>2, <4>4, <4>5 DEF Same
    <3> HIDE DEF text
    <3>5. \A d \in Channel : Blocks!First(d)' = Blocks!First(d)
      BY <3>1 DEF Blocks!First
    <3>6. /\ \A d \in Channel : d # c => at'[d] = at[d] /\ mine'[d] = mine[d]
          /\ at'[c] \in {"idle", "changed"} /\ (at'[c] = "changed" => mine'[c].text = text)
      BY <2>0, <3>1
    <3>7. \A d \in Channel, g \in Blocks!File :
             Pending(d, g)' => (d # c /\ Pending(d, g)) \/ (d = c /\ g = f /\ at'[c] = "changed")
      BY <3>5, <3>6 DEF Pending, f
    <3>8. \A g \in Blocks!File : Blocks!Writing(g) => Blocks!Writing(g)'
      BY <3>1, <3>5, <3>6 DEF Blocks!Writing
    <3> SUFFICES ASSUME NEW g \in Blocks!File, g \notin raced'
                 PROVE  /\ \A d, e \in Channel : Pending(d, g)' /\ Pending(e, g)' => d = e
                        /\ ~ Blocks!Writing(g)' => Same(g, file[g].text)'
                        /\ \A d \in Channel : Pending(d, g)' => Same(g, mine[d].text)'
      BY DEF BlocksText
    <3>9. g \notin raced
      BY <3>1
    <3>10. \A d, e \in Channel : Pending(d, g)' /\ Pending(e, g)' => d = e
      BY <1>2, <3>4, <3>7, <3>9 DEF BlocksText
    <3>11. ~ Blocks!Writing(g)' => Same(g, file[g].text)'
      BY <1>2, <3>1, <3>8, <3>9 DEF BlocksText, Same
    <3>12. ASSUME NEW d \in Channel, Pending(d, g)' PROVE Same(g, mine[d].text)'
      <4>1. CASE d # c
        <5>1. Pending(d, g)
          BY <3>7, <3>12, <4>1
        <5>2. Same(g, mine[d].text)
          BY <1>2, <3>9, <5>1 DEF BlocksText
        <5> QED BY <3>1, <3>6, <4>1, <5>2 DEF Same
      <4>2. CASE d = c
        <5>1. g = f /\ at'[c] = "changed" /\ mine'[d].text = text
          BY <3>6, <3>7, <3>12, <4>2
        <5>2. Same(f, text)
          BY <3>4, <5>1
        <5> QED BY <3>1, <5>1, <5>2 DEF Same
      <4> QED BY <4>1, <4>2
    <3> QED BY <3>10, <3>11, <3>12
  <2>4. ASSUME NEW c \in Channel, Blocks!Truncate(c) PROVE BlocksText'
    <3>1. /\ UNCHANGED <<plan, mine, typed, raced>> /\ at[c] = "changed" /\ at' = [at EXCEPT ![c] = "truncated"]
          /\ \A f \in Blocks!File : f # Blocks!First(c) => file'[f] = file[f]
      BY <2>0, <2>4 DEF Blocks!Truncate, Blocks!Goto
    <3>2. \A d \in Channel, f \in Blocks!File : Pending(d, f)' => Pending(d, f)
      BY <2>0, <3>1 DEF Pending, Blocks!First
    <3>3. \A f \in Blocks!File : Blocks!Writing(f) \/ f = Blocks!First(c) => Blocks!Writing(f)'
      BY <2>0, <3>1 DEF Blocks!Writing, Blocks!First
    <3> QED BY <1>2, <3>1, <3>2, <3>3 DEF BlocksText, Same
  <2>5. ASSUME NEW c \in Channel, Blocks!Fill(c) PROVE BlocksText'
    <3> DEFINE f == Blocks!First(c)
    <3>1. /\ UNCHANGED <<typed, raced>> /\ at[c] \in {"changed", "truncated"}
          /\ file' = [file EXCEPT ![f] = mine[c]]
          /\ \A d \in Channel : d # c => plan'[d] = plan[d] /\ mine'[d] = mine[d] /\ at'[d] = at[d]
          /\ at'[c] \in {"helper", "idle"}
      BY <2>0, <2>5 DEF Blocks!Fill, Blocks!Goto
    <3>2. \A d \in Channel, g \in Blocks!File : Pending(d, g)' => d # c /\ Pending(d, g)
      BY <3>1 DEF Pending, Blocks!First
    <3>3. Pending(c, f)
      BY <3>1 DEF Pending
    <3>4. \A g \in Blocks!File \ {f} : (Blocks!Writing(g) => Blocks!Writing(g)') /\ file'[g] = file[g]
      BY <2>0, <3>1 DEF Blocks!Writing, Blocks!First
    <3>5. f \in Blocks!File => file'[f] = mine[c]
      BY <2>0, <3>1
    <3> HIDE DEF f
    <3>6. f \in Blocks!File \ raced => Same(f, mine[c].text)
      BY <1>2, <3>3 DEF BlocksText
    <3>7. \A g \in Blocks!File \ raced : ~ Blocks!Writing(g)' => Same(g, file'[g].text)
      BY <1>2, <3>4, <3>5, <3>6 DEF BlocksText
    <3> QED BY <1>2, <3>1, <3>2, <3>7 DEF BlocksText, Same
  <2>6. ASSUME NEW c \in Channel, Blocks!Fail(c) PROVE BlocksText'
    <3>1. /\ UNCHANGED <<file, typed>>
          /\ \A d \in Channel : d # c => plan'[d] = plan[d] /\ mine'[d] = mine[d] /\ at'[d] = at[d]
          /\ at'[c] = "idle"
          /\ raced' = IF at[c] = "truncated" THEN raced \cup {Blocks!First(c)} ELSE raced
      BY <2>0, <2>6 DEF Blocks!Fail, Blocks!Goto
    <3>2. \A d \in Channel, g \in Blocks!File : Pending(d, g)' => d # c /\ Pending(d, g)
      BY <3>1 DEF Pending, Blocks!First
    <3>3. \A g \in Blocks!File \ raced' : g \notin raced /\ (Blocks!Writing(g) => Blocks!Writing(g)')
      BY <3>1 DEF Blocks!Writing, Blocks!First
    <3> QED BY <1>2, <3>1, <3>2, <3>3 DEF BlocksText, Same
  <2>7. ASSUME NEW f \in Blocks!Range(Blocks!Profiles(platform)) \cup {Blocks!Instructions}, Blocks!Edit(f)
        PROVE  BlocksText'
    <3>1. /\ UNCHANGED <<at, plan, mine>>
          /\ \A g \in Blocks!File \ {f} : file'[g] = file[g] /\ typed'[g] = typed[g]
          /\ raced' = IF \E c \in Channel : Pending(c, f) THEN raced \cup {f} ELSE raced
      BY <2>0, <2>7 DEF Blocks!Edit, Pending
    <3>2. \A d \in Channel, g \in Blocks!File : (Pending(d, g)' => Pending(d, g)) /\ (Blocks!Writing(g) <=> Blocks!Writing(g)')
      BY <3>1 DEF Pending, Blocks!First, Blocks!Writing
    <3>3. ASSUME f \in Blocks!File, f \notin raced' PROVE Same(f, file[f].text)'
      <4>1. f \notin raced /\ ~ Blocks!Writing(f)
        BY <3>1, <3>3 DEF Pending, Blocks!Writing
      <4>2. Same(f, file[f].text)
        BY <1>2, <3>3, <4>1 DEF BlocksText
      <4>3. /\ Sound(file[f].text) /\ edits \in Nat /\ edits + 1 \in Nat /\ "text" \in DOMAIN file[f]
            /\ \A n \in typed[f] : n \in Nat /\ n <= edits
        BY <1>2, <3>3 DEF BlocksType, Content
      <4>4. CASE /\ file' = [file EXCEPT ![f].text = Append(@, Blocks!User(edits + 1))]
                 /\ typed' = [typed EXCEPT ![f] = @ \cup {edits + 1}]
        <5>1. file'[f].text = Append(file[f].text, Blocks!User(edits + 1)) /\ typed'[f] = typed[f] \cup {edits + 1}
          BY <2>0, <3>3, <4>3, <4>4
        <5>2. \A n \in Blocks!Typed(file[f].text) : n < edits + 1
          BY <4>2, <4>3 DEF Same
        <5>3. /\ Blocks!Typed(file'[f].text) = Blocks!Typed(file[f].text) \cup {edits + 1}
              /\ Blocks!InOrder(file'[f].text)
          BY <4>2, <4>3, <5>1, <5>2, UserAdded DEF Same
        <5> QED BY <4>2, <5>1, <5>3 DEF Same
      <4>5. CASE \E k \in DOMAIN file[f].text :
                    /\ file[f].text[k].is \in {"begin", "end"}
                    /\ file' = [file EXCEPT ![f].text = Blocks!Without(@, k)]
                    /\ typed' = typed
        <5>1. PICK k \in DOMAIN file[f].text :
                    /\ file[f].text[k].is \in {"begin", "end"}
                    /\ file' = [file EXCEPT ![f].text = Blocks!Without(@, k)]
                    /\ typed' = typed
          BY <4>5
        <5>2. file'[f].text = Without(file[f].text, k)
          BY <2>0, <3>3, <4>3, <5>1 DEF Blocks!Without, Without
        <5>3. /\ Blocks!Typed(file'[f].text) = Blocks!Typed(file[f].text)
              /\ Blocks!InOrder(file[f].text) => Blocks!InOrder(file'[f].text)
          BY <4>3, <5>1, <5>2, MarkerRemoved
        <5> QED BY <4>2, <5>1, <5>3 DEF Same
      <4> QED BY <2>7, <4>4, <4>5 DEF Blocks!Edit
    <3>4. \A c \in Channel : f \notin raced' => ~ Pending(c, f)
      BY <3>1
    <3> SUFFICES ASSUME NEW g \in Blocks!File, g \notin raced'
                 PROVE  /\ \A d, e \in Channel : Pending(d, g)' /\ Pending(e, g)' => d = e
                        /\ ~ Blocks!Writing(g)' => Same(g, file[g].text)'
                        /\ \A d \in Channel : Pending(d, g)' => Same(g, mine[d].text)'
      BY DEF BlocksText
    <3>5. CASE g = f
      BY <3>2, <3>3, <3>4, <3>5
    <3>6. CASE g # f
      <4>1. g \notin raced /\ file'[g] = file[g] /\ typed'[g] = typed[g] /\ mine' = mine
        BY <3>1, <3>6
      <4>2. (Blocks!Writing(g) <=> Blocks!Writing(g)') \/ Channel = {}
        BY <3>2
      <4>3. /\ \A d, e \in Channel : Pending(d, g) /\ Pending(e, g) => d = e
            /\ ~ Blocks!Writing(g) => Same(g, file[g].text)
            /\ \A d \in Channel : Pending(d, g) => Same(g, mine[d].text)
        BY <1>2, <4>1 DEF BlocksText
      <4>4. Blocks!Writing(g)' \/ Same(g, file[g].text)'
        BY <4>1, <4>2, <4>3 DEF Same, Blocks!Writing
      <4> QED BY <3>2, <4>1, <4>3, <4>4 DEF Same
    <3> QED BY <3>5, <3>6
  <2> QED BY <1>2, <2>1, <2>2, <2>3, <2>4, <2>5, <2>6, <2>7 DEF Blocks!Next
<1> QED BY <1>1, <1>2

-------------------------------------------------------------------------------
(* The inductive invariant, and the theorems *)

\* What each part keeps true, by name.
FilesInv ==
    /\ part = "codex" => CodexInv
    /\ part = "homes" =>
          HomesType /\ HomesInv /\ Hms!PersonalHomesAreSpared /\ Hms!CommandIsItsAgent
    /\ part = "interpreter" => RolesInv /\ Roles!AskedIsThere
    /\ part = "metadata" => MetaInv
    /\ part = "setup" => SetupType /\ SetupPlaces /\ SetupKept
    /\ part = "blocks" => BlocksType /\ BlocksLoads /\ BlocksText

LEMMA FilesBegin == InitFiles => FilesInv
<1> SUFFICES ASSUME InitFiles PROVE FilesInv
  OBVIOUS
<1>1. part = "codex" => CodexInv
  BY PartsBegin, CodexBegins
<1>2. part = "homes" => HomesType /\ HomesInv /\ Hms!PersonalHomesAreSpared /\ Hms!CommandIsItsAgent
  BY PartsBegin, HomesSparedHold, HomesBegin, CommandHolds
<1>3. part = "interpreter" => RolesInv /\ Roles!AskedIsThere
  BY PartsBegin, RolesBegin
<1>4. part = "metadata" => MetaInv
  BY PartsBegin, MetaHolds
<1>5. part = "setup" => SetupType /\ SetupPlaces /\ SetupKept
  BY PartsBegin, SetupTypeHolds, SetupPlacesHold, SetupKeptHolds
<1>6. part = "blocks" => BlocksType /\ BlocksLoads /\ BlocksText
  BY PartsBegin, BlocksTypeHolds, BlocksLoadsHold, BlocksTextHolds
<1> QED BY <1>1, <1>2, <1>3, <1>4, <1>5, <1>6 DEF FilesInv

LEMMA FilesGoOn == FilesInv /\ [NextFiles]_fileVars => FilesInv'
<1> SUFFICES ASSUME FilesInv, [NextFiles]_fileVars PROVE FilesInv'
  OBVIOUS
<1>0. part' = part
  BY PartsGoOn
<1>1. part = "codex" => CodexInv'
  BY PartsGoOn, CodexHolds DEF FilesInv
<1>2. part = "homes" => (HomesType /\ HomesInv /\ Hms!PersonalHomesAreSpared /\ Hms!CommandIsItsAgent)'
  <2>1. HomesInv => agent \in DOMAIN HomeAsk
    BY DEF HomesInv
  <2> QED BY <2>1, PartsGoOn, HomesSparedHold, HomesHold, CommandHolds DEF FilesInv
<1>3. part = "interpreter" => (RolesInv /\ Roles!AskedIsThere)'
  BY PartsGoOn, RolesHold DEF FilesInv
<1>4. part = "metadata" => MetaInv'
  BY PartsGoOn, MetaHolds DEF FilesInv
<1>5. part = "setup" => (SetupType /\ SetupPlaces /\ SetupKept)'
  BY PartsGoOn, SetupTypeHolds, SetupPlacesHold, SetupKeptHolds DEF FilesInv
<1>6. part = "blocks" => (BlocksType /\ BlocksLoads /\ BlocksText)'
  <2>1. UNCHANGED Blocks!vars => (BlocksType => BlocksType')
    BY DEF BlocksType, Blocks!vars
  <2>2. UNCHANGED Blocks!vars => (BlocksLoads => BlocksLoads')
    BY DEF BlocksLoads, LoadsThere, Blocks!First, Blocks!vars
  <2>3. UNCHANGED Blocks!vars => (BlocksText => BlocksText')
    BY DEF BlocksText, Same, Pending, Blocks!Writing, Blocks!First, Blocks!vars
  <2>4. (BlocksType /\ BlocksLoads /\ BlocksText) /\ [Blocks!Next]_Blocks!vars =>
            (BlocksType /\ BlocksLoads /\ BlocksText)'
    BY <2>1, <2>2, <2>3, BlocksTypeHolds, BlocksLoadsHold, BlocksTextHolds
  <2> QED BY <2>4, PartsGoOn DEF FilesInv
<1> QED BY <1>0, <1>1, <1>2, <1>3, <1>4, <1>5, <1>6 DEF FilesInv

\* FilesInv, in every behaviour.
THEOREM FilesStayInvariant == SpecFiles => []FilesInv
BY FilesBegin, FilesGoOn, PTL DEF SpecFiles

\* OwnLane, EverythingIsFenced and PinIsServed, in every behaviour: whatever the
\* user has written before, the requests of an agent go to the proxy of its launch.
THEOREM RequestsStayFenced == SpecFiles => []EveryRequestIsFenced
<1>1. FilesInv => EveryRequestIsFenced
  <2>1. HomesInv => Hms!PinIsServed
    BY DEF HomesInv
  <2> QED BY <2>1, OwnLaneHolds, RolesFenced DEF FilesInv, EveryRequestIsFenced
<1> QED BY <1>1, FilesStayInvariant, PTL

\* ChoicesSurvive, ServersAreWhole, SettingsStay and UserDecides, in every
\* behaviour: what the user has chosen or set is what counts the next time.
THEOREM ChoicesStayKept == SpecFiles => []ChoicesAreKept
<1>1. FilesInv => ChoicesAreKept
  <2>1. HomesInv => Hms!ServersAreWhole
    BY DEF HomesInv
  <2> QED BY <2>1, ChoicesHold, CodexServersHold, SettingsStayHolds, UserHolds DEF FilesInv, ChoicesAreKept
<1> QED BY <1>1, FilesStayInvariant, PTL

\* RolesCanRun, AskedIsThere, GuidanceFits and CommandIsItsAgent, in every
\* behaviour: the agent, harness and models that run are the ones that were meant.
THEOREM MeantIsWhatRuns == SpecFiles => []WhatRunsIsMeant
<1>1. FilesInv => WhatRunsIsMeant
  BY RolesRun, GuidanceHolds DEF FilesInv, WhatRunsIsMeant
<1> QED BY <1>1, FilesStayInvariant, PTL

\* PersonalHomesAreSpared and ChannelsApart, in every behaviour: the state of one
\* launcher is kept apart from the agent's own and from another channel's.
THEOREM HomesStayApart == SpecFiles => []HomesAreApart
<1>1. FilesInv => HomesAreApart
  BY ChannelsApartHolds DEF FilesInv, HomesAreApart
<1> QED BY <1>1, FilesStayInvariant, PTL

\* UserTextSurvives and LoadersWork, in every behaviour: the shared files keep
\* what is the user's, and load only what is there.
THEOREM SharedFilesStayWhole == SpecFiles => []SharedFilesWork
<1>1. FilesInv => SharedFilesWork
  <2>1. BlocksLoads => Blocks!LoadersWork
    BY DEF BlocksLoads, LoadsThere, Blocks!LoadersWork
  <2>2. BlocksText => Blocks!UserTextSurvives
    BY DEF BlocksText, Same, Blocks!UserTextSurvives
  <2> QED BY <2>1, <2>2 DEF FilesInv, SharedFilesWork
<1> QED BY <1>1, FilesStayInvariant, PTL
===============================================================================
