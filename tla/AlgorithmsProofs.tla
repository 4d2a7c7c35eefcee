-------------------------- MODULE AlgorithmsProofs --------------------------
(***************************************************************************)
(* Proofs about the pure parts that MCAlgorithms feeds: what TLC tries on   *)
(* narrow integers, a week and a few commits holds for any widths, u64 and  *)
(* u32 among them, any instant in any zone that Durations!Zone admits, and  *)
(* any number of commits of any documents.                                 *)
(***************************************************************************)
EXTENDS MCAlgorithms, HeymergeProofs

Typed == [number : Nat \cup {NoNumber}, unit : Units]

\* Division by a constant, as the code uses it.
LEMMA DivMod ==
  ASSUME NEW n \in Nat
  PROVE  /\ n \div 60 \in Nat
         /\ 60 * (n \div 60) <= n /\ n < 60 * (n \div 60) + 60
         /\ n % 60 = 0 => n = 60 * (n \div 60)
  BY SMT

\* A unit's worth in seconds.
LEMMA ScaleIsPositive ==
  ASSUME NEW typed \in Typed
  PROVE  Scale[typed.unit] \in {1, 60, 3600}
  BY DEF Typed, Units, Scale

\* What is shown of a window parses to that window: its seconds fit a u64,
\* because any u32 of hours does.
LEMMA RenderedParses ==
  ASSUME NEW m \in 1..MaxU32
  PROVE  ParseTimeout(RenderTimeout(m)) = Minutes(m)
<1>1. m \in Nat /\ MaxU32 \in Nat /\ MaxU64 \in Nat /\ 3600 * MaxU32 <= MaxU64
  BY WidthAssumption
<1>2. CASE m % 60 = 0
  <2> DEFINE h == m \div 60
  <2>1. h \in Nat /\ m = 60 * h
    BY <1>1, <1>2, DivMod
  <2>2. RenderTimeout(m) = [number |-> h, unit |-> "h"]
    BY <1>2 DEF RenderTimeout
  <2>3. Scale["h"] = 3600
    BY DEF Scale
  <2> HIDE DEF h
  <2>4. (h * 3600) \div 60 = m
    BY <2>1
  <2>5. h * 3600 <= MaxU64 /\ h \in 0..MaxU64 /\ ~(m > MaxU32)
    BY <1>1, <2>1
  <2> QED
    BY <1>1, <2>2, <2>3, <2>4, <2>5 DEF ParseTimeout, MIN_TIMEOUT_MINUTES
<1>3. CASE m % 60 # 0
  <2>1. RenderTimeout(m) = [number |-> m, unit |-> "m"]
    BY <1>3 DEF RenderTimeout
  <2>2. Scale["m"] = 60
    BY DEF Scale
  <2>3. (m * 60) \div 60 = m /\ m * 60 <= MaxU64 /\ m \in 0..MaxU64
    BY <1>1
  <2> QED
    BY <1>1, <2>1, <2>2, <2>3 DEF ParseTimeout, MIN_TIMEOUT_MINUTES
<1> QED
  BY <1>2, <1>3

\* A window is what was asked for, to the minute below, or is refused for a
\* reason that is so (settings.rs parse_timeout, render_timeout).
THEOREM TimeoutsAreHonoured ==
  ASSUME NEW typed \in Typed
  PROVE  TimeoutHonoured(typed)
<1> DEFINE k == Scale[typed.unit]
           asked == typed.number * k
           given == ParseTimeout(typed)
<1>1. k \in Nat /\ k >= 1
  BY ScaleIsPositive
<1>2. MaxU32 \in Nat /\ MaxU64 \in Nat /\ 3600 * MaxU32 <= MaxU64
  BY WidthAssumption
<1>3. typed.number \in Nat \cup {NoNumber}
  BY DEF Typed
<1>4. asked \in Int /\ (typed.number \in Nat => asked \in Nat /\ typed.number <= asked)
  BY <1>1, <1>3, SMTT(30) DEF NoNumber
<1> HIDE DEF k
<1>5. CASE typed.number \notin 0..MaxU64 \/ asked > MaxU64 \/ asked \div 60 > MaxU32
  <2>1. given = BadSettingValue
    BY <1>5 DEF ParseTimeout, k
  <2>2. typed.number = NoNumber \/ asked > MaxU64 \/ asked >= 60 * (MaxU32 + 1)
    <3>1. CASE typed.number = NoNumber
      BY <3>1
    <3>2. CASE typed.number \in Nat
      <4>1. 60 * (asked \div 60) <= asked /\ asked \div 60 \in Nat
        BY <1>4, <3>2, DivMod
      <4> QED
        BY <1>2, <1>4, <1>5, <3>2, <4>1
    <3> QED
      BY <1>3, <3>1, <3>2
  <2> QED
    BY <2>1, <2>2 DEF TimeoutHonoured, BadSettingValue, TimeoutTooShort, k
<1>6. CASE typed.number \in 0..MaxU64 /\ asked <= MaxU64 /\ asked \div 60 <= MaxU32
  <2>1. asked \in Nat
    BY <1>4, <1>6
  <2>2. /\ asked \div 60 \in Nat /\ 60 * (asked \div 60) <= asked
        /\ asked < 60 * (asked \div 60) + 60
    BY <2>1, DivMod
  <2>3. given = IF asked \div 60 < 1 THEN TimeoutTooShort ELSE Minutes(asked \div 60)
    BY <1>2, <1>6, <2>1, <2>2 DEF ParseTimeout, MIN_TIMEOUT_MINUTES, k
  <2>4. CASE asked \div 60 < 1
    BY <2>1, <2>2, <2>3, <2>4 DEF TimeoutHonoured, BadSettingValue, TimeoutTooShort, k
  <2>5. CASE asked \div 60 >= 1
    <3>1. ParseTimeout(RenderTimeout(asked \div 60)) = Minutes(asked \div 60)
      BY <1>2, <1>6, <2>2, <2>5, RenderedParses
    <3> QED
      BY <2>2, <2>3, <2>5, <3>1
      DEF TimeoutHonoured, BadSettingValue, TimeoutTooShort, Minutes, k
  <2> QED
    BY <2>2, <2>4, <2>5
<1>7. asked \div 60 \in Int
  BY <1>4
<1> QED
  BY <1>2, <1>4, <1>5, <1>6, <1>7

-----------------------------------------------------------------------------

\* A local time is resolved with the offset at hand if that fits, with the one
\* that fits if another does, and else with the offset before the change.
LEMMA Resolution ==
  ASSUME NEW zone, Zone(zone), NEW local \in Int, NEW offset \in {zone.before, zone.after}
  PROVE  LET Fits(o) == Offset(zone, local - o) = o
             end == Resolve(zone, local, offset)
         IN  \/ Fits(offset) /\ end = local - offset
             \/ /\ ~Fits(offset)
                /\ \/ Fits(zone.before) /\ end = local - zone.before
                   \/ Fits(zone.after) /\ end = local - zone.after
                   \/ ~Fits(zone.before) /\ ~Fits(zone.after) /\ end = local - zone.before
<1> DEFINE Fits(o) == Offset(zone, local - o) = o
           fits == {o \in {zone.before, zone.after} : Local(zone, local - o) = local}
<1>1. zone.before \in Int /\ zone.after \in Int
  BY DEF Zone
<1>2. \A o \in {zone.before, zone.after} : o \in fits <=> Fits(o)
  <2> TAKE o \in {zone.before, zone.after}
  <2>1. o \in Int /\ Offset(zone, local - o) \in Int
    BY <1>1 DEF Offset
  <2>2. o \in fits <=> local - o + Offset(zone, local - o) = local
    BY DEF Local
  <2> HIDE DEF fits
  <2>3. local - o + Offset(zone, local - o) = local <=> Offset(zone, local - o) = o
    BY <2>1
  <2> QED
    BY <2>2, <2>3
<1>3. CASE Fits(offset)
  BY <1>2, <1>3 DEF Resolve
<1>4. CASE ~Fits(offset) /\ fits = {}
  BY <1>2, <1>4 DEF Resolve
<1>5. CASE ~Fits(offset) /\ fits # {}
  <2>1. PICK o \in fits : o = CHOOSE p \in fits : TRUE
    BY <1>5
  <2>2. Fits(o) /\ o \in {zone.before, zone.after}
    BY <1>2, <2>1
  <2>3. Resolve(zone, local, offset) = local - o
    BY <1>2, <1>5, <2>1 DEF Resolve
  <2> QED
    BY <1>5, <2>2, <2>3
<1> QED
  BY <1>3, <1>4, <1>5

\* The day and the time of day of a local time.
LEMMA DayAndTime ==
  ASSUME NEW t \in Int
  PROVE  \E d, r \in Int : /\ t \div Day = d
                           /\ t = 48 * d + r /\ 0 <= r /\ r < 48
<1> DEFINE d == t \div 48
           r == t - 48 * d
<1>1. d \in Int /\ 48 * d <= t /\ t < 48 * d + 48
  BY SMT
<1> QED
  BY <1>1 DEF Day

\* What a window granted at an instant has to do with the day 24 hours later.
LEMMA Deadline ==
  ASSUME NEW now \in Int, NEW zone, Zone(zone)
  PROVE  \E d, r \in Int :
            LET offset == Offset(zone, now + 48)
                two == 48 * d + 4
                end == NextUnlockDeadline(now, zone)
                Fits(o) == Offset(zone, two - o) = o
            IN  /\ d = (now + 48 + offset) \div 48
                /\ now + 48 + offset = 48 * d + r /\ 0 <= r /\ r < 48
                /\ end \in Int
                /\ \/ Fits(offset) /\ end = two - offset
                   \/ /\ ~Fits(offset)
                      /\ \/ Fits(zone.before) /\ end = two - zone.before
                         \/ Fits(zone.after) /\ end = two - zone.after
                         \/ ~Fits(zone.before) /\ ~Fits(zone.after) /\ end = two - zone.before
<1> DEFINE offset == Offset(zone, now + 48)
<1>1. zone.before \in Int /\ zone.after \in Int /\ zone.change \in Int
  BY DEF Zone
<1>2. offset \in {zone.before, zone.after} /\ offset \in Int
  BY <1>1 DEF Offset
<1>3. PICK d, r \in Int : /\ (now + 48 + offset) \div Day = d
                          /\ now + 48 + offset = 48 * d + r /\ 0 <= r /\ r < 48
  <2>1. now + 48 + offset \in Int
    BY <1>2
  <2> HIDE DEF offset
  <2> QED
    BY <2>1, DayAndTime, ZenonT(30)
<1>4. NextUnlockDeadline(now, zone) = Resolve(zone, 48 * d + 4, offset)
  <2>1. (Local(zone, now + Day) \div Day) * Day + TwoAM = 48 * d + 4
    BY <1>2, <1>3 DEF Local, Day, TwoAM
  <2> QED
    BY <2>1 DEF NextUnlockDeadline, Day
<1> DEFINE two == 48 * d + 4
           Fits(o) == Offset(zone, two - o) = o
           end == NextUnlockDeadline(now, zone)
<1>5. \/ Fits(offset) /\ end = two - offset
      \/ /\ ~Fits(offset)
         /\ \/ Fits(zone.before) /\ end = two - zone.before
            \/ Fits(zone.after) /\ end = two - zone.after
            \/ ~Fits(zone.before) /\ ~Fits(zone.after) /\ end = two - zone.before
  BY <1>2, <1>3, <1>4, Resolution
<1>6. end \in Int
  <2> two \in Int
    BY <1>3
  <2> QED
    BY <1>1, <1>2, <1>5
<1> QED
  BY <1>3, <1>5, <1>6 DEF Day

\* A window that heyl grants itself ends at 02:00 of the day that it will be in
\* 24 hours, or later that night if the clock skips it, whenever it is granted;
\* a later grant never ends earlier (clock.rs next_unlock_deadline_from).
THEOREM GrantsEndTomorrowNight ==
  ASSUME NEW now \in Int, NEW zone, Zone(zone)
  PROVE  EndsTomorrowNight(now, zone)
<1> DEFINE B == zone.before
           A == zone.after
           C == zone.change
           end == NextUnlockDeadline(now, zone)
           later == NextUnlockDeadline(now + 1, zone)
<1>1. /\ B \in Int /\ A \in Int /\ C \in Int
      /\ B - A <= 3 /\ A - B <= 3
  <2>1. B \in Int /\ A \in Int /\ C \in Int /\ B - A \in -3..3
    BY DEF Zone
  <2> QED
    BY <2>1
<1>2. PICK d, r \in Int :
         LET offset == Offset(zone, now + 48)
             two == 48 * d + 4
             Fits(o) == Offset(zone, two - o) = o
         IN  /\ d = (now + 48 + offset) \div 48
             /\ now + 48 + offset = 48 * d + r /\ 0 <= r /\ r < 48
             /\ end \in Int
             /\ \/ Fits(offset) /\ end = two - offset
                \/ /\ ~Fits(offset)
                   /\ \/ Fits(B) /\ end = two - B
                      \/ Fits(A) /\ end = two - A
                      \/ ~Fits(B) /\ ~Fits(A) /\ end = two - B
  BY Deadline
<1>3. PICK e, s \in Int :
         LET offset == Offset(zone, now + 1 + 48)
             two == 48 * e + 4
             Fits(o) == Offset(zone, two - o) = o
         IN  /\ e = (now + 1 + 48 + offset) \div 48
             /\ now + 1 + 48 + offset = 48 * e + s /\ 0 <= s /\ s < 48
             /\ later \in Int
             /\ \/ Fits(offset) /\ later = two - offset
                \/ /\ ~Fits(offset)
                   /\ \/ Fits(B) /\ later = two - B
                      \/ Fits(A) /\ later = two - A
                      \/ ~Fits(B) /\ ~Fits(A) /\ later = two - B
  <2>1. now + 1 \in Int
    OBVIOUS
  <2> HIDE DEF later
  <2> QED
    BY <2>1, Deadline DEF later
<1> DEFINE two == 48 * d + 4
<1>4. (Local(zone, now + Day) \div Day) * Day + TwoAM = two
  BY <1>1, <1>2 DEF Local, Day, TwoAM
<1> HIDE DEF end, later
<1>5. \/ Local(zone, end) = two
      \/ /\ two < Local(zone, end) /\ Local(zone, end) < two + 4
         /\ \A t \in now..(now + 2 * Day) : Local(zone, t) # two
  BY <1>1, <1>2 DEF Local, Offset
<1>6. now < end /\ end < now + Day + 8
  BY <1>1, <1>2 DEF Offset, Day
<1>7. d <= e
  <2>1. CASE Offset(zone, now + 48) = Offset(zone, now + 49)
    BY <1>1, <1>2, <1>3, <2>1 DEF Offset
  <2>2. CASE Offset(zone, now + 48) # Offset(zone, now + 49)
    <3>1. C = now + 49 /\ Offset(zone, now + 48) = B /\ Offset(zone, now + 49) = A
      BY <1>1, <2>2 DEF Offset
    <3>2. (C - 1 + B) \div 48 <= (C + A) \div 48
      BY DEF Zone, Day
    <3> QED
      BY <1>1, <1>2, <1>3, <3>1, <3>2
  <2> QED
    BY <2>1, <2>2
<1>8. end <= later
  BY <1>1, <1>2, <1>3, <1>7 DEF Offset
<1> QED
  BY <1>4, <1>5, <1>6, <1>8 DEF EndsTomorrowNight, end, later
-----------------------------------------------------------------------------
(* The properties of MCAlgorithms' runs: what is tried is in the reach of    *)
(* the theorems, whatever the sets it is taken from.                        *)

\* A SyncUpdate as it is sent: of an id only that it is a text is known.
SentUpdate(Text, Number) ==
    [unlock : {x \in Seq(Text) : Len(x) <= 1}, sessions : Seq(Text),
     vaults : Seq([id : Text, type : Text, commit : Text, pair : Text,
                   profiles : Seq(Text)]),
     profiles : Seq([id : Text, generation : Number,
                     locks : Seq([profile : Text, authenticator : Text,
                                  generation : Number \cup {Absent}])])]

\* A list comes through whole, or not at all.
LEMMA EveryIs ==
  ASSUME NEW mapped
  PROVE  /\ Every(mapped).ok \in BOOLEAN
         /\ Every(mapped).ok <=> \A i \in DOMAIN mapped : mapped[i].ok
         /\ Every(mapped).ok =>
               Every(mapped).value = [i \in DOMAIN mapped |-> mapped[i].value]
BY DEF Every, Malformed, Mapped

\* A list of ids comes through as it is, if all of them are ids.
LEMMA SessionsAre ==
  ASSUME NEW T, NEW ids \in Seq(T)
  PROVE  /\ SessionsOf(ids).ok <=> ToSet(ids) \subseteq Ids
         /\ SessionsOf(ids).ok => SessionsOf(ids).value = ids
<1> DEFINE mapped == [i \in DOMAIN ids |->
                        IF Required(ids[i]) THEN Mapped(ids[i]) ELSE Malformed]
<1>1. SessionsOf(ids) = Every(mapped)
  BY DEF SessionsOf
<1>2. DOMAIN mapped = DOMAIN ids /\ ids = [i \in DOMAIN ids |-> ids[i]]
  OBVIOUS
<1>3. \A i \in DOMAIN ids :
         /\ mapped[i].ok <=> ids[i] \in Ids
         /\ mapped[i].ok => mapped[i].value = ids[i]
  BY DEF Required, Mapped, Malformed
<1> HIDE DEF mapped
<1>4. SessionsOf(ids).ok <=> ToSet(ids) \subseteq Ids
  <2>1. (\A i \in DOMAIN ids : ids[i] \in Ids) <=> ToSet(ids) \subseteq Ids
    BY DEF ToSet
  <2> QED BY <1>1, <1>2, <1>3, <2>1, EveryIs
<1>5. SessionsOf(ids).ok => SessionsOf(ids).value = ids
  <2> SUFFICES ASSUME SessionsOf(ids).ok PROVE SessionsOf(ids).value = ids
    OBVIOUS
  <2>1. \A i \in DOMAIN mapped : mapped[i].ok
    BY <1>1, EveryIs
  <2>2. SessionsOf(ids).value = [i \in DOMAIN ids |-> mapped[i].value]
    BY <1>1, <1>2, EveryIs
  <2>3. [i \in DOMAIN ids |-> mapped[i].value] = [i \in DOMAIN ids |-> ids[i]]
    BY <1>2, <1>3, <2>1
  <2> QED BY <1>2, <2>2, <2>3
<1> QED BY <1>4, <1>5

\* The unlock is there with its authenticator, or not at all.
LEMMA UnlockIs ==
  ASSUME NEW T, NEW unlock \in Seq(T), Len(unlock) <= 1
  PROVE  UnlockOf(unlock).ok <=> ToSet(unlock) \subseteq Ids
<1>1. CASE unlock = <<>>
  <2>1. ToSet(unlock) = {}
    BY <1>1 DEF ToSet
  <2> QED BY <1>1, <2>1 DEF UnlockOf, Mapped
<1>2. CASE unlock # <<>>
  <2>1. DOMAIN unlock = {1}
    <3>1. Len(unlock) \in Nat /\ Len(unlock) # 0 /\ DOMAIN unlock = 1..Len(unlock)
      BY <1>2
    <3>2. Len(unlock) = 1 /\ 1..1 = {1}
      BY <3>1
    <3> QED BY <3>1, <3>2
  <2>2. ToSet(unlock) = {unlock[1]}
    BY <2>1 DEF ToSet
  <2> QED BY <1>2, <2>2 DEF UnlockOf, Required, Mapped, Malformed
<1> QED BY <1>1, <1>2

\* The vaults of known types come through as they are, in their order.
LEMMA VaultsAre ==
  ASSUME NEW T, NEW vaults \in Seq(T)
  PROVE  LET kept == {vaults[i] : i \in {j \in DOMAIN vaults : Known(vaults[j])}}
             r == VaultsOf(vaults)
         IN  /\ r.ok <=> \A v \in kept : Vault(v).ok
             /\ r.ok => ToSet(r.value) = kept
<1> DEFINE kept == {vaults[i] : i \in {j \in DOMAIN vaults : Known(vaults[j])}}
           S == {v \in ToSet(vaults) : Known(v)}
           known == Pick(vaults, S)
           mapped == [i \in DOMAIN known |-> Vault(known[i])]
<1>1. VaultsOf(vaults) = Every(mapped)
  BY DEF VaultsOf
<1>2. S = kept
  BY DEF ToSet
<1>3. /\ known \in Seq(T \cap S)
      /\ \A i \in DOMAIN vaults : vaults[i] \in S =>
            \E k \in DOMAIN known : known[k] = vaults[i]
  <2> HIDE DEF S
  <2> QED BY PickIs
<1>4. \A v : v \in kept <=> \E k \in DOMAIN known : known[k] = v
  <2>1. \A k \in DOMAIN known : known[k] \in S
    <3> HIDE DEF S, known
    <3> QED BY <1>3
  <2>2. \A v \in kept : \E i \in DOMAIN vaults : vaults[i] = v /\ v \in S
    BY <1>2
  <2> HIDE DEF S, known, kept
  <2> QED BY <1>2, <1>3, <2>1, <2>2
<1>5. /\ DOMAIN mapped = DOMAIN known
      /\ \A k \in DOMAIN known :
            /\ mapped[k] = Vault(known[k])
            /\ mapped[k].ok => mapped[k].value = known[k]
  <2> HIDE DEF known
  <2> QED BY DEF Vault, Mapped, Malformed
<1> HIDE DEF S, known, kept, mapped
<1>6. Every(mapped).ok <=> \A v \in kept : Vault(v).ok
  <2>1. Every(mapped).ok <=> \A k \in DOMAIN known : mapped[k].ok
    BY <1>5, EveryIs
  <2>2. (\A k \in DOMAIN known : mapped[k].ok)
           <=> \A k \in DOMAIN known : Vault(known[k]).ok
    BY <1>5
  <2> QED BY <1>4, <2>1, <2>2
<1>7. Every(mapped).ok => ToSet(Every(mapped).value) = kept
  <2> SUFFICES ASSUME Every(mapped).ok PROVE ToSet(Every(mapped).value) = kept
    OBVIOUS
  <2>1. Every(mapped).value = [i \in DOMAIN known |-> mapped[i].value]
    BY <1>5, EveryIs
  <2>2. \A k \in DOMAIN known : mapped[k].value = known[k]
    <3>1. \A k \in DOMAIN known : mapped[k].ok
      BY <1>5, EveryIs
    <3> QED BY <1>5, <3>1
  <2>3. ToSet(Every(mapped).value) = {known[k] : k \in DOMAIN known}
    BY <2>1, <2>2 DEF ToSet
  <2> QED BY <1>4, <2>3
<1> QED BY <1>1, <1>6, <1>7 DEF kept

\* What comes of one lock under a profile.
LEMMA LockIs ==
  ASSUME NEW lock, NEW owner, NEW generation, generation # Absent
  PROVE  LET r == ProfileAuthenticatorLock(lock, owner, generation)
         IN  /\ r.ok <=> lock.profile \in {Absent, owner} /\ lock.authenticator \in Ids
             /\ r.ok => /\ r.value.profile = owner
                        /\ lock.generation = Absent
                              <=> r.value.generation # lock.generation
                        /\ r.value.generation \in {lock.generation, generation}
<1> DEFINE r == ProfileAuthenticatorLock(lock, owner, generation)
<1>1. CASE lock.profile \notin {Absent, owner} \/ lock.authenticator \notin Ids
  <2>1. r = Malformed
    BY <1>1 DEF ProfileAuthenticatorLock, Required
  <2> QED BY <1>1, <2>1 DEF Malformed
<1>2. CASE lock.profile \in {Absent, owner} /\ lock.authenticator \in Ids
  <2>1. CASE lock.generation = Absent
    <3>1. r = Mapped([authenticator |-> lock.authenticator, profile |-> owner,
                      generation |-> generation])
      BY <1>2, <2>1 DEF ProfileAuthenticatorLock, Required
    <3>2. r.ok /\ r.value.profile = owner /\ r.value.generation = generation
      BY <3>1 DEF Mapped
    <3> QED BY <1>2, <2>1, <3>2
  <2>2. CASE lock.generation # Absent
    <3>1. r = Mapped([authenticator |-> lock.authenticator, profile |-> owner,
                      generation |-> lock.generation])
      BY <1>2, <2>2 DEF ProfileAuthenticatorLock, Required
    <3>2. r.ok /\ r.value.profile = owner /\ r.value.generation = lock.generation
      BY <3>1 DEF Mapped
    <3> QED BY <1>2, <2>2, <3>2
  <2> QED BY <2>1, <2>2
<1> QED BY <1>1, <1>2

\* What comes of one profile and its locks.
LEMMA ProfileIs ==
  ASSUME NEW T, NEW p, p.locks \in Seq(T), p.generation # Absent
  PROVE  LET r == Profile(p)
         IN  /\ r.ok <=> /\ p.id \in Ids
                         /\ \A j \in DOMAIN p.locks :
                               /\ p.locks[j].profile \in {Absent, p.id}
                               /\ p.locks[j].authenticator \in Ids
             /\ r.ok => /\ r.value.id = p.id
                        /\ DOMAIN r.value.locks = DOMAIN p.locks
                        /\ Len(r.value.locks) = Len(p.locks)
                        /\ \A j \in DOMAIN p.locks :
                              LET got == r.value.locks[j]  sent == p.locks[j]
                              IN  /\ got.profile = p.id
                                  /\ sent.generation = Absent
                                        <=> got.generation # sent.generation
                                  /\ got.generation \in {sent.generation, p.generation}
<1> DEFINE mapped == [j \in DOMAIN p.locks |->
                        ProfileAuthenticatorLock(p.locks[j], p.id, p.generation)]
           all == Every(mapped)
           r == Profile(p)
<1>1. /\ ~(p.id \in Ids /\ all.ok) => ~r.ok
      /\ p.id \in Ids /\ all.ok =>
            r.ok /\ r.value.id = p.id /\ r.value.locks = all.value
  <2>1. r = IF p.id \notin Ids \/ ~all.ok THEN Malformed
            ELSE Mapped([id |-> p.id, generation |-> p.generation, locks |-> all.value])
    BY DEF Profile, Required
  <2> HIDE DEF all, r
  <2> QED BY <2>1 DEF Mapped, Malformed
<1>2. /\ DOMAIN mapped = DOMAIN p.locks
      /\ \A j \in DOMAIN p.locks :
            mapped[j] = ProfileAuthenticatorLock(p.locks[j], p.id, p.generation)
  OBVIOUS
<1>3. all.ok <=> \A j \in DOMAIN p.locks :
                    /\ p.locks[j].profile \in {Absent, p.id}
                    /\ p.locks[j].authenticator \in Ids
  <2> HIDE DEF mapped
  <2>1. all.ok <=> \A j \in DOMAIN p.locks : mapped[j].ok
    BY <1>2, EveryIs
  <2>2. \A j \in DOMAIN p.locks :
           mapped[j].ok <=> /\ p.locks[j].profile \in {Absent, p.id}
                            /\ p.locks[j].authenticator \in Ids
    BY <1>2, LockIs
  <2> QED BY <2>1, <2>2
<1>4. ASSUME all.ok
      PROVE  /\ DOMAIN all.value = DOMAIN p.locks
             /\ Len(all.value) = Len(p.locks)
             /\ \A j \in DOMAIN p.locks :
                   all.value[j] = mapped[j].value /\ mapped[j].ok
  <2> HIDE DEF mapped
  <2>1. all.value = [j \in DOMAIN p.locks |-> mapped[j].value]
    BY <1>2, <1>4, EveryIs
  <2>2. \A j \in DOMAIN p.locks : mapped[j].ok
    BY <1>2, <1>4, EveryIs
  <2>3. DOMAIN p.locks = 1..Len(p.locks) /\ Len(p.locks) \in Nat
    OBVIOUS
  <2>4. Len(all.value) = Len(p.locks)
    BY <2>1, <2>3
  <2> QED BY <2>1, <2>2, <2>4
<1> HIDE DEF all, mapped, r
<1>5. ASSUME all.ok, NEW j \in DOMAIN p.locks
      PROVE  LET got == all.value[j]  sent == p.locks[j]
             IN  /\ got.profile = p.id
                 /\ sent.generation = Absent <=> got.generation # sent.generation
                 /\ got.generation \in {sent.generation, p.generation}
  BY <1>2, <1>4, <1>5, LockIs
<1> QED
  <2>1. CASE r.ok
    <3>1. p.id \in Ids /\ all.ok /\ r.value.id = p.id /\ r.value.locks = all.value
      BY <1>1, <2>1
    <3> QED BY <1>3, <1>4, <1>5, <2>1, <3>1 DEF r
  <2>2. CASE ~r.ok
    BY <1>1, <1>3, <2>2 DEF r
  <2> QED BY <2>1, <2>2

\* What the parts of an update are asked for, one by one.
PartsAreGiven(u) ==
    /\ ToSet(u.unlock) \subseteq Ids /\ ToSet(u.sessions) \subseteq Ids
    /\ \A i \in DOMAIN u.vaults : Known(u.vaults[i]) =>
          /\ u.vaults[i].id \in Ids
          /\ u.vaults[i].commit \in Ids \cup {Absent}
          /\ u.vaults[i].pair \in Ids \cup {Absent}
          /\ ToSet(u.vaults[i].profiles) \subseteq Ids
    /\ \A i \in DOMAIN u.profiles :
          /\ u.profiles[i].id \in Ids
          /\ \A j \in DOMAIN u.profiles[i].locks :
                u.profiles[i].locks[j].authenticator \in Ids

LEMMA MemberOf ==
  ASSUME NEW S, NEW seq \in Seq(S), NEW i \in DOMAIN seq
  PROVE  seq[i] \in S
OBVIOUS

LEMMA GivenIs ==
  ASSUME NEW u
  PROVE  Given(u) \subseteq Ids <=> PartsAreGiven(u)
<1> DEFINE kept == {u.vaults[i] : i \in {j \in DOMAIN u.vaults : Known(u.vaults[j])}}
           profiles == {u.profiles[i] : i \in DOMAIN u.profiles}
           locks == UNION {{p.locks[i] : i \in DOMAIN p.locks} : p \in profiles}
           A == ToSet(u.unlock) \cup ToSet(u.sessions)
           B1 == {v.id : v \in kept}
           B2 == UNION {ToSet(v.profiles) : v \in kept}
           B == B1 \cup B2
           C == ({v.commit : v \in kept} \cup {v.pair : v \in kept}) \ {Absent}
           D1 == {p.id : p \in profiles}
           D2 == {l.authenticator : l \in locks}
           D == D1 \cup D2
<1>1. Given(u) = ((A \cup B) \cup C) \cup D
  <2>1. Given(u) = ((((A \cup B1) \cup B2) \cup C) \cup D1) \cup D2
    BY DEF Given
  <2> HIDE DEF A, B1, B2, C, D1, D2
  <2> QED BY <2>1
<1>2. B \subseteq Ids <=> \A v \in kept : v.id \in Ids /\ ToSet(v.profiles) \subseteq Ids
  <2> HIDE DEF kept
  <2> QED OBVIOUS
<1>3. C \subseteq Ids <=> \A v \in kept : /\ v.commit \in Ids \cup {Absent}
                                          /\ v.pair \in Ids \cup {Absent}
  <2> HIDE DEF kept
  <2> QED OBVIOUS
<1>4. D \subseteq Ids <=> \A p \in profiles :
         p.id \in Ids /\ \A j \in DOMAIN p.locks : p.locks[j].authenticator \in Ids
  <2>1. \A l : l \in locks <=> \E p \in profiles : \E j \in DOMAIN p.locks : l = p.locks[j]
    <3> HIDE DEF profiles
    <3> QED OBVIOUS
  <2> HIDE DEF profiles, locks
  <2> QED BY <2>1
<1> HIDE DEF A, B, C, D
<1>5. Given(u) \subseteq Ids <=>
         A \subseteq Ids /\ B \subseteq Ids /\ C \subseteq Ids /\ D \subseteq Ids
  BY <1>1
<1>6. A \subseteq Ids <=> ToSet(u.unlock) \subseteq Ids /\ ToSet(u.sessions) \subseteq Ids
  BY DEF A
<1>7. B \subseteq Ids /\ C \subseteq Ids <=>
         \A i \in DOMAIN u.vaults : Known(u.vaults[i]) =>
            /\ u.vaults[i].id \in Ids
            /\ u.vaults[i].commit \in Ids \cup {Absent}
            /\ u.vaults[i].pair \in Ids \cup {Absent}
            /\ ToSet(u.vaults[i].profiles) \subseteq Ids
  <2>1. \A v : v \in kept <=> \E i \in DOMAIN u.vaults : Known(u.vaults[i]) /\ v = u.vaults[i]
    OBVIOUS
  <2> HIDE DEF kept
  <2> QED BY <1>2, <1>3, <2>1
<1>8. D \subseteq Ids <=>
         \A i \in DOMAIN u.profiles :
            /\ u.profiles[i].id \in Ids
            /\ \A j \in DOMAIN u.profiles[i].locks :
                  u.profiles[i].locks[j].authenticator \in Ids
  BY <1>4
<1> QED BY <1>5, <1>6, <1>7, <1>8 DEF PartsAreGiven

\* A vault is mapped as it is, if its ids are ids.
LEMMA VaultIs ==
  ASSUME NEW v
  PROVE  Vault(v).ok <=> /\ v.id \in Ids
                         /\ v.commit \in Ids \cup {Absent}
                         /\ v.pair \in Ids \cup {Absent}
                         /\ ToSet(v.profiles) \subseteq Ids
<1>1. ToSet(v.profiles) \subseteq Ids <=>
         \A i \in DOMAIN v.profiles : v.profiles[i] \in Ids
  BY DEF ToSet
<1> QED BY <1>1 DEF Vault, Required, Optional, Malformed, Mapped

\* A lock that was mapped has its profile, and the generation it states or that one's.
LocksMeet(sent, got, j) ==
    /\ got.locks[j].profile = got.id
    /\ sent.locks[j].generation = Absent
         <=> got.locks[j].generation # sent.locks[j].generation
    /\ got.locks[j].generation \in {sent.locks[j].generation, sent.generation}

\* Whatever is sent is mapped whole or refused whole (heyl-grpc/src/map.rs), if
\* no profile leaves out the generation of its keys, which is a number there.
THEOREM SnapshotsAreWhole ==
  ASSUME NEW Text, NEW Number, Absent \notin Number, NEW u \in SentUpdate(Text, Number)
  PROVE  WholeOrNothing(u)
<1> DEFINE r == SyncUpdate(u)
           profiles == [i \in DOMAIN u.profiles |-> Profile(u.profiles[i])]
           kept == {u.vaults[i] : i \in {j \in DOMAIN u.vaults : Known(u.vaults[j])}}
           astray == \E i \in DOMAIN u.profiles : \E j \in DOMAIN u.profiles[i].locks :
                        u.profiles[i].locks[j].profile \notin {Absent, u.profiles[i].id}
           Sent == [profile : Text, authenticator : Text, generation : Number \cup {Absent}]
<1>1. /\ u.unlock \in Seq(Text) /\ Len(u.unlock) <= 1 /\ u.sessions \in Seq(Text)
      /\ u.vaults \in Seq([id : Text, type : Text, commit : Text, pair : Text,
                            profiles : Seq(Text)])
      /\ u.profiles \in Seq([id : Text, generation : Number, locks : Seq(Sent)])
  BY DEF SentUpdate
<1>2. \A i \in DOMAIN u.profiles :
         u.profiles[i].locks \in Seq(Sent) /\ u.profiles[i].generation # Absent
  <2> HIDE DEF Sent
  <2> SUFFICES ASSUME NEW i \in DOMAIN u.profiles
               PROVE  u.profiles[i].locks \in Seq(Sent) /\ u.profiles[i].generation # Absent
    OBVIOUS
  <2>1. u.profiles[i] \in [id : Text, generation : Number, locks : Seq(Sent)]
    BY <1>1, MemberOf
  <2> QED BY <2>1
<1> HIDE DEF Sent
<1>3. /\ r.ok <=> /\ UnlockOf(u.unlock).ok /\ SessionsOf(u.sessions).ok
                  /\ VaultsOf(u.vaults).ok /\ Every(profiles).ok
      /\ r.ok => /\ r.value.sessions = SessionsOf(u.sessions).value
                 /\ r.value.vaults = VaultsOf(u.vaults).value
                 /\ r.value.profiles = Every(profiles).value
  BY DEF SyncUpdate, Malformed, Mapped
<1>4. UnlockOf(u.unlock).ok <=> ToSet(u.unlock) \subseteq Ids
  BY <1>1, UnlockIs
<1>5. /\ SessionsOf(u.sessions).ok <=> ToSet(u.sessions) \subseteq Ids
      /\ SessionsOf(u.sessions).ok => SessionsOf(u.sessions).value = u.sessions
  BY <1>1, SessionsAre
<1>6. /\ VaultsOf(u.vaults).ok <=> \A v \in kept : Vault(v).ok
      /\ VaultsOf(u.vaults).ok => ToSet(VaultsOf(u.vaults).value) = kept
  BY <1>1, VaultsAre
<1>7. VaultsOf(u.vaults).ok <=>
         \A i \in DOMAIN u.vaults : Known(u.vaults[i]) =>
            /\ u.vaults[i].id \in Ids
            /\ u.vaults[i].commit \in Ids \cup {Absent}
            /\ u.vaults[i].pair \in Ids \cup {Absent}
            /\ ToSet(u.vaults[i].profiles) \subseteq Ids
  BY <1>6, VaultIs
<1>8. /\ Every(profiles).ok <=> \A i \in DOMAIN u.profiles : Profile(u.profiles[i]).ok
      /\ Every(profiles).ok =>
            \A i \in DOMAIN u.profiles :
               Every(profiles).value[i] = Profile(u.profiles[i]).value
  <2>1. /\ DOMAIN profiles = DOMAIN u.profiles
        /\ \A i \in DOMAIN u.profiles : profiles[i] = Profile(u.profiles[i])
    OBVIOUS
  <2> HIDE DEF profiles
  <2>2. Every(profiles).ok <=> \A i \in DOMAIN u.profiles : Profile(u.profiles[i]).ok
    <3>1. Every(profiles).ok <=> \A i \in DOMAIN u.profiles : profiles[i].ok
      BY <2>1, EveryIs
    <3> QED BY <2>1, <3>1
  <2>3. ASSUME Every(profiles).ok, NEW i \in DOMAIN u.profiles
        PROVE  Every(profiles).value[i] = Profile(u.profiles[i]).value
    <3>1. Every(profiles).value = [k \in DOMAIN u.profiles |-> profiles[k].value]
      BY <2>1, <2>3, EveryIs
    <3> QED BY <2>1, <3>1
  <2> QED BY <2>2, <2>3
<1>9. Every(profiles).ok <=>
         /\ ~astray
         /\ \A i \in DOMAIN u.profiles :
               /\ u.profiles[i].id \in Ids
               /\ \A j \in DOMAIN u.profiles[i].locks :
                     u.profiles[i].locks[j].authenticator \in Ids
  <2>1. \A i \in DOMAIN u.profiles :
           Profile(u.profiles[i]).ok <=>
              /\ u.profiles[i].id \in Ids
              /\ \A j \in DOMAIN u.profiles[i].locks :
                    /\ u.profiles[i].locks[j].profile \in {Absent, u.profiles[i].id}
                    /\ u.profiles[i].locks[j].authenticator \in Ids
    BY <1>2, ProfileIs
  <2> HIDE DEF profiles
  <2> QED BY <1>8, <2>1
<1> HIDE DEF r, profiles, kept, astray
<1>10. r.ok <=> Given(u) \subseteq Ids /\ ~astray
  BY <1>3, <1>4, <1>5, <1>7, <1>9, GivenIs DEF PartsAreGiven
<1>11. ASSUME r.ok
       PROVE  /\ r.value.sessions = u.sessions
              /\ \A v \in ToSet(u.vaults) : Known(v) <=> v \in ToSet(r.value.vaults)
  <2>1. \A v \in ToSet(u.vaults) : Known(v) <=> v \in kept
    BY DEF ToSet, kept
  <2> QED BY <1>3, <1>5, <1>6, <1>11, <2>1
<1>12. ASSUME r.ok, NEW i \in DOMAIN u.profiles
       PROVE  /\ Len(r.value.profiles[i].locks) = Len(u.profiles[i].locks)
              /\ \A j \in DOMAIN r.value.profiles[i].locks :
                    LocksMeet(u.profiles[i], r.value.profiles[i], j)
  <2> DEFINE p == u.profiles[i]
  <2>1. r.value.profiles[i] = Profile(p).value /\ Profile(p).ok
    BY <1>3, <1>8, <1>12
  <2>2. p.locks \in Seq(Sent) /\ p.generation # Absent
    BY <1>2
  <2> HIDE DEF p
  <2>3. /\ Profile(p).value.id = p.id
        /\ DOMAIN Profile(p).value.locks = DOMAIN p.locks
        /\ Len(Profile(p).value.locks) = Len(p.locks)
        /\ \A j \in DOMAIN p.locks : LocksMeet(p, Profile(p).value, j)
    <3> DEFINE q == Profile(p)
    <3>1. q.ok => /\ q.value.id = p.id
                  /\ DOMAIN q.value.locks = DOMAIN p.locks
                  /\ Len(q.value.locks) = Len(p.locks)
                  /\ \A j \in DOMAIN p.locks :
                        LET got == q.value.locks[j]  sent == p.locks[j]
                        IN  /\ got.profile = p.id
                            /\ sent.generation = Absent
                                  <=> got.generation # sent.generation
                            /\ got.generation \in {sent.generation, p.generation}
      BY <2>2, ProfileIs
    <3> HIDE DEF q
    <3>2. q.ok => /\ q.value.id = p.id
                  /\ DOMAIN q.value.locks = DOMAIN p.locks
                  /\ Len(q.value.locks) = Len(p.locks)
                  /\ \A j \in DOMAIN p.locks : LocksMeet(p, q.value, j)
      BY <3>1 DEF LocksMeet
    <3> QED BY <2>1, <3>2 DEF q
  <2>4. /\ Len(r.value.profiles[i].locks) = Len(p.locks)
        /\ DOMAIN r.value.profiles[i].locks = DOMAIN p.locks
        /\ \A j \in DOMAIN p.locks : LocksMeet(p, r.value.profiles[i], j)
    <3> HIDE DEF LocksMeet
    <3> QED BY <2>1, <2>3
  <2> HIDE DEF LocksMeet
  <2> QED BY <2>4 DEF p
<1>13. r.ok => \A i \in DOMAIN u.profiles :
          LET sent == u.profiles[i]   got == r.value.profiles[i]
          IN  /\ Len(got.locks) = Len(sent.locks)
              /\ \A j \in DOMAIN got.locks :
                    /\ got.locks[j].profile = got.id
                    /\ sent.locks[j].generation = Absent
                         <=> got.locks[j].generation # sent.locks[j].generation
                    /\ got.locks[j].generation
                         \in {sent.locks[j].generation, sent.generation}
  BY <1>12, Zenon DEF LocksMeet
<1> QED BY <1>10, <1>11, <1>13, Zenon DEF WholeOrNothing, r, astray

Tried == [number : Numbers \cup {NoNumber}, unit : Units]
Instants == (60..300) \X Zones

InputInv ==
    /\ IsLog(log)
    /\ log \in Seq(UNION {Documents(n) : n \in Nat})
    /\ input[1] = "timeout" => input[2] \in Tried
    /\ input[1] = "deadline" => input[2] \in Instants
    /\ input[1] = "update" => input[2] \in Updates

\* The documents that are committed are in order of time.
LEMMA DocumentsTimed ==
  ASSUME NEW n, NEW document \in Documents(n)
  PROVE  IsTimed(document)
<1>1. PICK ids \in SUBSET Elements : \E time \in [ids -> Times] :
         document = [d \in ids |-> [time |-> time[d], tag |-> n]]
  BY DEF Documents
<1>2. PICK time \in [ids -> Times] :
         document = [d \in ids |-> [time |-> time[d], tag |-> n]]
  BY <1>1
<1>3. DOMAIN document = ids /\ \A d \in ids : document[d].time = time[d]
  BY <1>2
<1> QED
  BY <1>2, <1>3, InputsAssumption DEF IsTimed

\* The log stays one of timed documents, and every input one of its kind.
LEMMA InputStep == InputInv /\ [Next]_vars => InputInv'
<1> SUFFICES ASSUME InputInv, [Next]_vars
             PROVE  InputInv'
  OBVIOUS
<1>1. CASE Commit
  <2> DEFINE n == Len(log) + 1
             S == UNION {Documents(k) : k \in Nat}
  <2>1. PICK document \in Documents(n) : log' = Append(log, document)
    BY <1>1 DEF Commit
  <2>2. log \in Seq(S) /\ n \in Nat /\ input' = input
    BY <1>1 DEF InputInv, Commit
  <2>3. document \in S
    BY <2>2
  <2>4. IsTimed(document)
    BY DocumentsTimed
  <2>5. /\ Len(log') = n /\ DOMAIN log' = 1..n
        /\ log'[n] = document
        /\ \A i \in 1..Len(log) : log'[i] = log[i]
        /\ log' \in Seq(S)
    <3> HIDE DEF S
    <3> QED
      BY <2>1, <2>2, <2>3
  <2>6. \A i \in 1..n : IsTimed(log'[i])
    <3>1. \A i \in 1..n : i = n \/ i \in 1..Len(log)
      BY <2>2
    <3> QED
      BY <2>4, <2>5, <3>1 DEF InputInv, IsLog
  <2>7. IsLog(log')
    BY <2>2, <2>5, <2>6 DEF IsLog
  <2> QED
    BY <2>2, <2>5, <2>7 DEF InputInv
<1>2. CASE Type
  BY <1>2 DEF Type, Try, InputInv, Tried, Nothing
<1>3. CASE GrantNow
  BY <1>3 DEF GrantNow, Try, InputInv, Instants, Nothing
<1>4. CASE Receive
  <2> HIDE DEF Updates
  <2> QED BY <1>4 DEF Receive, Try, InputInv, Nothing
<1>5. CASE UNCHANGED vars
  BY <1>5 DEF vars, InputInv
<1> QED
  BY <1>1, <1>2, <1>3, <1>4, <1>5 DEF Next

\* Every input that is tried is one of these, every log one of timed documents.
LEMMA Inputs == Spec => []InputInv
<1>1. Init => InputInv
  BY DEF Init, InputInv, IsLog, Nothing
<1> QED
  BY <1>1, InputStep, PTL DEF Spec

\* The fold is the latest version of each element, whatever is committed and
\* however much (heyl-vault/src/merge.rs).
THEOREM FoldsAreLatest == Spec => []FoldIsLatest
<1>1. InputInv => FoldIsLatest
  BY FoldIsLatestOfAll DEF InputInv, FoldIsLatest
<1> QED
  BY <1>1, Inputs, PTL

\* Only ties make the order of two commits matter, in a log of any length.
THEOREM OrderMattersInTiesOnly == Spec => []OrderMattersOnlyInTies
<1>1. ASSUME InputInv PROVE OrderMattersOnlyInTies
  <2> SUFFICES ASSUME NEW i \in 1..(Len(log) - 1), ~Tie(log[i], log[i + 1])
               PROVE  Fold(Swapped(i)) = Fold(log)
    BY DEF OrderMattersOnlyInTies
  <2>1. /\ Len(Swapped(i)) = Len(log)
        /\ Swapped(i)[i] = log[i + 1]
        /\ Swapped(i)[i + 1] = log[i]
        /\ \A k \in 1..Len(log) : k \notin {i, i + 1} => Swapped(i)[k] = log[k]
    BY <1>1 DEF Swapped, InputInv, IsLog
  <2>2. \A d \in DOMAIN log[i] \cap DOMAIN log[i + 1] :
           log[i][d].time # log[i + 1][d].time
    BY DEF Tie
  <2>3. IsLog(log)
    BY <1>1 DEF InputInv
  <2> QED
    BY <2>1, <2>2, <2>3, OrderIsOnlyForTies
<1> QED
  BY <1>1, Inputs, PTL

\* Every window that can be typed is honoured or refused for a reason that is so,
\* whatever the numbers and the widths.
THEOREM TypedTimeoutsAreHonoured == Spec => []TimeoutIsHonoured
<1>1. Tried \subseteq Typed
  BY InputsAssumption DEF Tried, Typed
<1>2. InputInv => TimeoutIsHonoured
  BY <1>1, TimeoutsAreHonoured DEF InputInv, TimeoutIsHonoured
<1> QED
  BY <1>2, Inputs, PTL

\* Every window that heyl grants itself, at any of the instants and in any of
\* the zones, ends in the night after next midnight.
THEOREM TriedGrantsEndTomorrowNight == Spec => []GrantEndsTomorrowNight
<1>1. \A x \in Instants : x[1] \in Int /\ Zone(x[2])
  BY ZonesAssumption DEF Instants
<1>2. InputInv => GrantEndsTomorrowNight
  BY <1>1, GrantsEndTomorrowNight DEF InputInv, GrantEndsTomorrowNight
<1> QED
  BY <1>2, Inputs, PTL

\* Of what is tried, the ids and types are texts.
Texts == {Absent, Junk, CHOOSE x \in Ids : TRUE, CHOOSE x \in Types : TRUE} \cup Ids

LEMMA UpToIs ==
  ASSUME NEW S, NEW n \in Nat, NEW seq \in UpTo(n, S)
  PROVE  seq \in Seq(S) /\ Len(seq) <= n
<1>1. PICK k \in 0..n : seq \in [1..k -> S]
  BY DEF UpTo
<1> QED BY <1>1

LEMMA UpdatesAreSent ==
  ASSUME NEW u \in Updates
  PROVE  u \in SentUpdate(Texts, Nat)
<1> DEFINE T == Texts
           i == CHOOSE x \in Ids : TRUE
           t == CHOOSE x \in Types : TRUE
           Sent == [profile : T, authenticator : T, generation : Nat \cup {Absent}]
           OneVault == [id : T, type : T, commit : T, pair : T, profiles : Seq(T)]
           OneProfile == [id : T, generation : Nat, locks : Seq(Sent)]
<1>1. Absent \in T /\ Junk \in T /\ i \in T /\ t \in T /\ Ids \subseteq T
  BY DEF Texts
<1> HIDE DEF T, i, t
<1>2. u \in [unlock : UpTo(1, {Absent, i}), sessions : UpTo(1, {Absent, i}),
             vaults : UpTo(2, WireVaults), profiles : UpTo(1, WireProfiles)]
  BY DEF Updates, i
<1>3. WireVaults \subseteq OneVault
  <2>1. <<i>> \in Seq(T) /\ <<>> \in Seq(T) /\ <<i, Absent>> \in Seq(T)
    BY <1>1
  <2>2. \A id, type, commit, pair \in T : \A ids \in Seq(T) :
           V(id, type, commit, pair, ids) \in OneVault
    BY DEF V
  <2>3. WireVaults =
          {V(i, t, Absent, Absent, <<i>>), V(i, t, i, i, <<>>), V(Junk, Junk, Junk, Junk, <<>>),
           V(Junk, t, i, i, <<>>), V(Absent, t, i, i, <<>>), V(i, t, Junk, i, <<>>),
           V(i, t, i, Junk, <<>>), V(i, t, i, i, <<i, Absent>>)}
    BY DEF WireVaults, i, t
  <2> HIDE DEF OneVault
  <2>4. /\ V(i, t, Absent, Absent, <<i>>) \in OneVault /\ V(i, t, i, i, <<>>) \in OneVault
        /\ V(Junk, Junk, Junk, Junk, <<>>) \in OneVault
        /\ V(Junk, t, i, i, <<>>) \in OneVault /\ V(Absent, t, i, i, <<>>) \in OneVault
        /\ V(i, t, Junk, i, <<>>) \in OneVault /\ V(i, t, i, Junk, <<>>) \in OneVault
        /\ V(i, t, i, i, <<i, Absent>>) \in OneVault
    BY <1>1, <2>1, <2>2
  <2> QED BY <2>3, <2>4
<1>4. WireLocks \subseteq Sent
  BY <1>1 DEF WireLocks
<1>5. WireProfiles \subseteq OneProfile
  <2> SUFFICES ASSUME NEW p \in WireProfiles PROVE p \in OneProfile
    OBVIOUS
  <2>1. p \in [id : Ids \cup {Junk}, generation : {1}, locks : UpTo(1, WireLocks)]
    BY DEF WireProfiles
  <2>2. p.locks \in Seq(WireLocks)
    BY <2>1, UpToIs
  <2>3. p.locks \in Seq(Sent)
    <3> HIDE DEF Sent
    <3> QED BY <1>4, <2>2
  <2> HIDE DEF Sent
  <2> QED BY <1>1, <2>1, <2>3
<1> HIDE DEF Sent, OneVault, OneProfile
<1>6. /\ u.unlock \in Seq({Absent, i}) /\ Len(u.unlock) <= 1
      /\ u.sessions \in Seq({Absent, i})
      /\ u.vaults \in Seq(WireVaults) /\ u.profiles \in Seq(WireProfiles)
  BY <1>2, UpToIs
<1>7. /\ u.unlock \in Seq(T) /\ u.sessions \in Seq(T)
      /\ u.vaults \in Seq(OneVault) /\ u.profiles \in Seq(OneProfile)
  <2>1. u.unlock \in Seq(T) /\ u.sessions \in Seq(T)
    <3>1. {Absent, i} \subseteq T
      BY <1>1, <1>3, <1>5
    <3> HIDE DEF T
    <3> QED BY <1>6, <3>1
  <2>2. u.vaults \in Seq(OneVault)
    BY <1>3, <1>6
  <2>3. u.profiles \in Seq(OneProfile)
    BY <1>5, <1>6
  <2> QED BY <2>1, <2>2, <2>3
<1>8. u = [unlock |-> u.unlock, sessions |-> u.sessions,
           vaults |-> u.vaults, profiles |-> u.profiles]
  BY <1>2
<1>9. u \in [unlock : {x \in Seq(T) : Len(x) <= 1}, sessions : Seq(T),
             vaults : Seq(OneVault), profiles : Seq(OneProfile)]
  BY <1>6, <1>7, <1>8
<1> QED BY <1>9 DEF SentUpdate, T, Sent, OneVault, OneProfile

\* Every update that is tried is mapped whole or refused whole.
THEOREM TriedSnapshotsAreWhole == Spec => []SnapshotIsWhole
<1>1. ASSUME InputInv PROVE SnapshotIsWhole
  BY <1>1, UpdatesAreSent, SnapshotsAreWhole, InputsAssumption
  DEF InputInv, SnapshotIsWhole
<1> QED
  BY <1>1, Inputs, PTL
=============================================================================
