------------------------- MODULE ConfigStoreProofs -------------------------
(* What the flash of the device holds, for any number of networks, tunnel     *)
(* configurations, key pairs, saves, failing operations and power failures.   *)
(* A handler's plan is a sequence of file operations; the invariants say how  *)
(* far it has come and what the files then hold.                              *)
EXTENDS ConfigStore, SequenceTheorems, TLAPS

KeyNames == {"key", "keyTmp", "pub", "pubTmp"}

\* The operations that a plan may consist of.  What the code does when one
\* fails consists of removals and of the return of the backup.
RmOps == [op : {"rm"}, file : Names]
RestoreCfg == Restore("cfgBak", "cfg")
UndoOps == RmOps \cup {RestoreCfg}
PutOps(f, contents) ==
  [op : {"put"}, file : {f}, content : contents, undo : Seq(UndoOps)]
MvOps(f, to) == [op : {"mv"}, file : {f}, to : {to}, undo : Seq(UndoOps)]
CfgOps == PutOps("cfgTmp", CfgFiles) \cup MvOps("cfg", "cfgBak")
          \cup MvOps("cfgTmp", "cfg")
KeyOps == PutOps("keyTmp", PrivateKeys) \cup PutOps("pubTmp", Pairs)
          \cup MvOps("keyTmp", "key") \cup MvOps("pubTmp", "pub")
MarkOps == PutOps("edit", {"1"}) \cup PutOps("wifiReset", {"1"})
Ops == UndoOps \cup CfgOps \cup KeyOps \cup MarkOps

-----------------------------------------------------------------------------
\* File operations.

\* What an operation leaves in each file.
LEMMA DoneFacts ==
  ASSUME NEW fs, DOMAIN fs = Names, NEW o \in Ops
  PROVE  /\ DOMAIN Done(fs, o) = Names
         /\ \A g \in Names : Done(fs, o)[g] =
              CASE o.op = "rm" -> (IF g = o.file THEN Absent ELSE fs[g])
                [] o.op = "put" -> (IF g = o.file THEN o.content ELSE fs[g])
                [] OTHER -> (IF g = o.file THEN Absent
                             ELSE IF g = o.to THEN fs[o.file] ELSE fs[g])
<1>1. o.op \in {"rm", "put", "mv", "restore"} /\ o.file \in Names
  BY DEF Ops, UndoOps, CfgOps, KeyOps, MarkOps, RmOps, PutOps, MvOps,
         RestoreCfg, Restore, Names
<1>2. CASE o.op = "rm"
  <2>1. Done(fs, o) = [fs EXCEPT ![o.file] = Absent]
    BY <1>2 DEF Done
  <2> QED BY <1>1, <1>2, <2>1
<1>3. CASE o.op = "put"
  <2>1. Done(fs, o) = [fs EXCEPT ![o.file] = o.content]
    BY <1>3 DEF Done
  <2> QED BY <1>1, <1>3, <2>1
<1>4. CASE o.op \in {"mv", "restore"}
  <2>1. Done(fs, o) = [fs EXCEPT ![o.to] = fs[o.file], ![o.file] = Absent]
    BY <1>4 DEF Done
  <2>2. o.to \in Names
    BY <1>4 DEF Ops, UndoOps, CfgOps, KeyOps, MarkOps, RmOps, PutOps, MvOps,
         RestoreCfg, Restore, Names
  <2> QED BY <1>1, <1>4, <2>1, <2>2
<1> QED BY <1>1, <1>2, <1>3, <1>4

\* The content that belongs into each file.
FilesOK(fs) ==
  /\ DOMAIN fs = Names
  /\ fs["cfg"] \in CfgFiles \cup {Absent}
  /\ fs["cfgTmp"] \in CfgFiles \cup {Absent}
  /\ fs["cfgBak"] \in CfgFiles \cup {Absent}
  /\ fs["key"] \in PrivateKeys \cup {Absent}
  /\ fs["keyTmp"] \in PrivateKeys \cup {Absent}
  /\ fs["pub"] \in Pairs \cup {Absent}
  /\ fs["pubTmp"] \in Pairs \cup {Absent}
  /\ fs["edit"] \in {"1", Absent}
  /\ fs["wifiReset"] \in {"1", Absent}

LEMMA DoneTyped ==
  ASSUME NEW fs, FilesOK(fs), NEW o \in Ops
  PROVE  FilesOK(Done(fs, o))
<1> DEFINE gs == Done(fs, o)
<1>0. DOMAIN fs = Names
  BY DEF FilesOK
<1>1. DOMAIN gs = Names
  BY <1>0, DoneFacts
<1>2. \A g \in Names : gs[g] =
         CASE o.op = "rm" -> (IF g = o.file THEN Absent ELSE fs[g])
           [] o.op = "put" -> (IF g = o.file THEN o.content ELSE fs[g])
           [] OTHER -> (IF g = o.file THEN Absent
                        ELSE IF g = o.to THEN fs[o.file] ELSE fs[g])
  BY <1>0, DoneFacts
<1> SUFFICES FilesOK(gs)
  OBVIOUS
<1> HIDE DEF gs
<1>3. CASE o \in RmOps
  BY <1>1, <1>2, <1>3 DEF RmOps, FilesOK, Names
<1>4. CASE o = RestoreCfg
  BY <1>1, <1>2, <1>4 DEF RestoreCfg, Restore, FilesOK, Names
<1>5. CASE o \in CfgOps
  <2>1. CASE o \in PutOps("cfgTmp", CfgFiles)
    BY <1>1, <1>2, <2>1 DEF PutOps, FilesOK, Names
  <2>2. CASE o \in MvOps("cfg", "cfgBak")
    BY <1>1, <1>2, <2>2 DEF MvOps, FilesOK, Names
  <2>3. CASE o \in MvOps("cfgTmp", "cfg")
    BY <1>1, <1>2, <2>3 DEF MvOps, FilesOK, Names
  <2> QED BY <1>5, <2>1, <2>2, <2>3 DEF CfgOps
<1>6. CASE o \in KeyOps
  <2>1. CASE o \in PutOps("keyTmp", PrivateKeys)
    BY <1>1, <1>2, <2>1 DEF PutOps, FilesOK, Names
  <2>2. CASE o \in PutOps("pubTmp", Pairs)
    BY <1>1, <1>2, <2>2 DEF PutOps, FilesOK, Names
  <2>3. CASE o \in MvOps("keyTmp", "key")
    BY <1>1, <1>2, <2>3 DEF MvOps, FilesOK, Names
  <2>4. CASE o \in MvOps("pubTmp", "pub")
    BY <1>1, <1>2, <2>4 DEF MvOps, FilesOK, Names
  <2> QED BY <1>6, <2>1, <2>2, <2>3, <2>4 DEF KeyOps
<1>7. CASE o \in MarkOps
  BY <1>1, <1>2, <1>7 DEF MarkOps, PutOps, FilesOK, Names
<1> QED BY <1>3, <1>4, <1>5, <1>6, <1>7 DEF Ops, UndoOps

\* Operations that leave /esp32tun.cfg, its temporary and its backup alone,
\* whatever happens, and operations that do not name a key file.
CfgNames == {"cfg", "cfgTmp", "cfgBak"}
QuietRm == [op : {"rm"}, file : Names \ CfgNames]
QuietOps == QuietRm \cup {o \in KeyOps \cup MarkOps : o.undo \in Seq(QuietRm)}
CfgUndo == {o \in UndoOps : o.file \notin KeyNames}
NonKeyOps == {o \in Ops : /\ o.file \notin KeyNames
                          /\ o.op \in {"put", "mv"} => o.undo \in Seq(CfgUndo)}

LEMMA OpSets ==
  /\ QuietRm \subseteq RmOps /\ RmOps \subseteq Ops /\ UndoOps \subseteq Ops
  /\ QuietRm \subseteq QuietOps
  /\ QuietOps \subseteq Ops /\ NonKeyOps \subseteq Ops
  /\ \A f \in Names : Rm(f) \in RmOps
  /\ \A f \in Names \ CfgNames : Rm(f) \in QuietRm
  /\ RestoreCfg \in Ops
<1>1. QuietRm \subseteq RmOps
  BY DEF QuietRm, RmOps
<1>2. RmOps \subseteq Ops /\ UndoOps \subseteq Ops /\ QuietOps \subseteq Ops
      /\ NonKeyOps \subseteq Ops /\ QuietRm \subseteq QuietOps
  BY <1>1 DEF Ops, UndoOps, QuietOps, NonKeyOps
<1> QED BY <1>1, <1>2 DEF Rm, RmOps, QuietRm, UndoOps

\* A sequence over a set is one over a larger set.
LEMMA SeqWidens ==
  ASSUME NEW S, NEW T, S \subseteq T, NEW s \in Seq(S)
  PROVE  s \in Seq(T)
OBVIOUS

\* The first operation of a plan, and the rest.
LEMMA FirstStep ==
  ASSUME NEW S, NEW s \in Seq(S), s # <<>>
  PROVE  Head(s) \in S /\ Tail(s) \in Seq(S)
BY HeadTailProperties, EmptySeq

\* The same for a plan that consists of two parts.
LEMMA CatStep ==
  ASSUME NEW S, NEW k \in Seq(S), NEW r \in Seq(S)
  PROVE  /\ k = <<>> => k \o r = r
         /\ k # <<>> => /\ k \o r # <<>>
                        /\ Head(k \o r) = Head(k) /\ Head(k) \in S
                        /\ Tail(k) \in Seq(S) /\ Tail(k \o r) = Tail(k) \o r
<1>1. ASSUME k = <<>> PROVE k \o r = r
  BY <1>1, ConcatEmptySeq
<1>2. ASSUME k # <<>>
      PROVE  /\ k \o r # <<>> /\ Head(k \o r) = Head(k) /\ Head(k) \in S
             /\ Tail(k) \in Seq(S) /\ Tail(k \o r) = Tail(k) \o r
  <2>1. /\ k = <<Head(k)>> \o Tail(k) /\ Head(k) \in S /\ Tail(k) \in Seq(S)
        /\ Len(k) \in Nat /\ Len(k) > 0
    BY <1>2, HeadTailProperties, LenProperties, EmptySeq
  <2>2. <<Head(k)>> \in Seq(S)
    BY <2>1
  <2>3. k \o r = <<Head(k)>> \o (Tail(k) \o r)
    BY <2>1, <2>2, ConcatAssociative
  <2>4. Tail(k) \o r \in Seq(S)
    BY <2>1, ConcatProperties
  <2>5. <<Head(k)>> \o (Tail(k) \o r) # <<>>
        /\ Head(<<Head(k)>> \o (Tail(k) \o r)) = Head(k)
        /\ Tail(<<Head(k)>> \o (Tail(k) \o r)) = Tail(k) \o r
    BY <2>1, <2>2, <2>4
  <2> QED BY <2>1, <2>3, <2>5
<1> QED BY <1>1, <1>2

-----------------------------------------------------------------------------
\* The plans of the handlers.

\* What writeConfig writes is a configuration file.
Storable(c) ==
  c \in Configs /\ c.wifi \in Wifis /\ (c.done => c.dev \in Devices)

PutNew(c) == Put("cfgTmp", Stored(c), <<>>)
MvOld == Mv("cfg", "cfgBak", <<Rm("cfgTmp")>>)
MvNewOver == Mv("cfgTmp", "cfg", <<RestoreCfg, Rm("cfgTmp")>>)
MvNewFirst == Mv("cfgTmp", "cfg", <<Rm("cfgTmp")>>)
RmBak == Rm("cfgBak")

LEMMA StoredFacts ==
  ASSUME NEW c, Storable(c)
  PROVE  Stored(c) \in CfgFiles /\ Stored(c) # Absent
<1>1. Stored(c) \in CfgFiles
  <2>1. c.wifi \in Wifis /\ c.auth \in {"password", "key"}
        /\ c.done \in BOOLEAN
    BY DEF Storable, Configs
  <2>2. CASE c.done
    BY <2>1, <2>2 DEF Stored, CfgFiles, Storable
  <2>3. CASE ~c.done
    BY <2>1, <2>3 DEF Stored, CfgFiles
  <2> QED BY <2>2, <2>3
<1> QED BY <1>1, AbsentAssumption

LEMMA WriteConfigPlan ==
  ASSUME NEW c, Storable(c)
  PROVE  /\ files["cfg"] # Absent =>
              WriteConfig(c) = <<PutNew(c), RmBak, MvOld, MvNewOver, RmBak>>
         /\ files["cfg"] = Absent =>
              WriteConfig(c) = <<PutNew(c), RmBak, MvNewFirst, RmBak>>
         /\ {PutNew(c), RmBak, MvOld, MvNewOver, MvNewFirst} \subseteq NonKeyOps
         /\ WriteConfig(c) \in Seq(NonKeyOps)
<1>1. Rm("cfgTmp") \in UndoOps /\ RestoreCfg \in UndoOps /\ RmBak \in RmOps
  BY DEF UndoOps, RmOps, Rm, RmBak, Names
<1>2. PutNew(c) \in PutOps("cfgTmp", CfgFiles)
  BY StoredFacts DEF PutNew, Put, PutOps
<1>3. MvOld \in MvOps("cfg", "cfgBak")
  BY <1>1 DEF MvOld, Mv, MvOps
<1>4. MvNewOver \in MvOps("cfgTmp", "cfg") /\ MvNewFirst \in MvOps("cfgTmp", "cfg")
  BY <1>1 DEF MvNewOver, MvNewFirst, Mv, MvOps
<1>5. {PutNew(c), RmBak, MvOld, MvNewOver, MvNewFirst} \subseteq Ops
  BY <1>1, <1>2, <1>3, <1>4 DEF Ops, CfgOps, UndoOps
<1>6. {PutNew(c), RmBak, MvOld, MvNewOver, MvNewFirst} \subseteq NonKeyOps
  <2>1. Rm("cfgTmp") \in CfgUndo /\ RestoreCfg \in CfgUndo
    BY <1>1 DEF CfgUndo, KeyNames, Rm, RestoreCfg, Restore
  <2>2. /\ <<>> \in Seq(CfgUndo) /\ <<Rm("cfgTmp")>> \in Seq(CfgUndo)
        /\ <<RestoreCfg, Rm("cfgTmp")>> \in Seq(CfgUndo)
    BY <2>1
  <2>3. /\ PutNew(c).undo \in Seq(CfgUndo) /\ MvOld.undo \in Seq(CfgUndo)
        /\ MvNewOver.undo \in Seq(CfgUndo) /\ MvNewFirst.undo \in Seq(CfgUndo)
    BY <2>2 DEF PutNew, MvOld, MvNewOver, MvNewFirst, Put, Mv
  <2>4. RmBak.op = "rm" /\ {PutNew(c).file, RmBak.file, MvOld.file, MvNewOver.file,
                            MvNewFirst.file} \cap KeyNames = {}
    BY DEF KeyNames, PutNew, RmBak, MvOld, MvNewOver, MvNewFirst, Put, Mv, Rm
  <2> QED BY <1>5, <2>3, <2>4 DEF NonKeyOps
<1>7. /\ files["cfg"] # Absent =>
           WriteConfig(c) = <<PutNew(c), RmBak, MvOld, MvNewOver, RmBak>>
      /\ files["cfg"] = Absent =>
           WriteConfig(c) = <<PutNew(c), RmBak, MvNewFirst, RmBak>>
  <2>1. CASE files["cfg"] # Absent
    BY <2>1 DEF WriteConfig, PutNew, MvOld, MvNewOver, RmBak, RestoreCfg
  <2>2. CASE files["cfg"] = Absent
    BY <2>2 DEF WriteConfig, PutNew, MvNewFirst, RmBak
  <2> QED BY <2>1, <2>2
<1>8. WriteConfig(c) \in Seq(NonKeyOps)
  <2>1. CASE files["cfg"] # Absent
    <3>1. WriteConfig(c) = <<PutNew(c), RmBak, MvOld, MvNewOver, RmBak>>
      BY <2>1, <1>7
    <3> QED BY <3>1, <1>6
  <2>2. CASE files["cfg"] = Absent
    <3>1. WriteConfig(c) = <<PutNew(c), RmBak, MvNewFirst, RmBak>>
      BY <2>2, <1>7
    <3> QED BY <3>1, <1>6
  <2> QED BY <2>1, <2>2
<1> QED BY <1>6, <1>7, <1>8

\* The exchange of the key files by saveKeys ...
SaveMvKey == Mv("keyTmp", "key", <<Rm("pubTmp")>>)
SaveMvPub == Mv("pubTmp", "pub", <<>>)
\* ... and by persistKeyPair.
MadeMvKey == Mv("keyTmp", "key", <<Rm("keyTmp"), Rm("pubTmp")>>)
MadeMvPub == Mv("pubTmp", "pub", <<Rm("key"), Rm("pubTmp")>>)

\* Before it, the new keys are written to the temporaries.
TmpRm == [op : {"rm"}, file : {"keyTmp", "pubTmp"}]
PrepOps == TmpRm \cup {o \in PutOps("keyTmp", PrivateKeys) \cup PutOps("pubTmp", Pairs) :
                         o.undo \in Seq(TmpRm)}

\* After the operations p on the temporaries, f holds v.
Arrives(fs, p, f, v) ==
  \/ fs[f] = v /\ \A i \in DOMAIN p : p[i].file # f
  \/ \E i \in DOMAIN p : /\ p[i].op = "put" /\ p[i].file = f /\ p[i].content = v
                         /\ \A j \in DOMAIN p : j > i => p[j].file # f

LEMMA KeyOpFacts ==
  /\ {SaveMvKey, SaveMvPub, MadeMvKey, MadeMvPub} \subseteq QuietOps
  /\ TmpRm \subseteq QuietRm
  /\ PrepOps \subseteq QuietOps
  /\ Rm("key") \in QuietRm /\ Rm("pub") \in QuietRm
  /\ Rm("keyTmp") \in TmpRm /\ Rm("pubTmp") \in TmpRm
<1>1. /\ TmpRm \subseteq QuietRm /\ Rm("key") \in QuietRm /\ Rm("pub") \in QuietRm
      /\ Rm("keyTmp") \in TmpRm /\ Rm("pubTmp") \in TmpRm
  BY DEF TmpRm, QuietRm, Rm, Names, CfgNames
<1>2. \A s \in Seq(TmpRm) : s \in Seq(QuietRm)
  BY <1>1, SeqWidens
<1>3. \A s \in Seq(QuietRm) : s \in Seq(UndoOps)
  <2>1. QuietRm \subseteq UndoOps
    BY OpSets DEF UndoOps
  <2> QED BY <2>1, SeqWidens
<1>4. PrepOps \subseteq QuietOps
  BY <1>1, <1>2 DEF PrepOps, QuietOps, KeyOps
<1>5. /\ SaveMvKey.undo \in Seq(QuietRm) /\ SaveMvPub.undo \in Seq(QuietRm)
      /\ MadeMvKey.undo \in Seq(QuietRm) /\ MadeMvPub.undo \in Seq(QuietRm)
  BY <1>1 DEF SaveMvKey, SaveMvPub, MadeMvKey, MadeMvPub, Mv
<1>6. /\ SaveMvKey \in MvOps("keyTmp", "key") /\ MadeMvKey \in MvOps("keyTmp", "key")
      /\ SaveMvPub \in MvOps("pubTmp", "pub") /\ MadeMvPub \in MvOps("pubTmp", "pub")
  BY <1>3, <1>5 DEF SaveMvKey, SaveMvPub, MadeMvKey, MadeMvPub, Mv, MvOps
<1>7. {SaveMvKey, SaveMvPub, MadeMvKey, MadeMvPub} \subseteq QuietOps
  BY <1>5, <1>6 DEF QuietOps, KeyOps
<1> QED BY <1>1, <1>4, <1>7

\* Concatenation to an explicit tuple.
LEMMA CatTuple ==
  ASSUME NEW S, NEW s \in Seq(S), NEW t \in Seq(S), NEW u \in Seq(S),
         Len(u) = Len(s) + Len(t),
         \A i \in 1..Len(s) : u[i] = s[i],
         \A i \in 1..Len(t) : u[Len(s) + i] = t[i]
  PROVE  s \o t = u
<1>1. /\ s \o t \in Seq(S) /\ Len(s \o t) = Len(u) /\ Len(u) \in Nat
      /\ Len(s) \in Nat /\ Len(t) \in Nat
   BY ConcatProperties, LenProperties
<1>2. ASSUME NEW i \in 1..Len(u) PROVE (s \o t)[i] = u[i]
  <2>1. (s \o t)[i] = IF i <= Len(s) THEN s[i] ELSE t[i - Len(s)]
    BY <1>1, ConcatProperties
  <2>2. CASE i <= Len(s)
    BY <2>1, <2>2, <1>1
  <2>3. CASE ~(i <= Len(s))
     <3>1. i - Len(s) \in 1..Len(t) /\ Len(s) + (i - Len(s)) = i
       BY <2>3, <1>1
     <3> QED BY <2>1, <2>3, <3>1
  <2> QED BY <2>2, <2>3
<1> QED BY <1>1, <1>2, SeqEqual

LEMMA FourTuple ==
  ASSUME NEW a, NEW b, NEW c, NEW d
  PROVE  /\ <<a, b, c>> \o <<d>> = <<a, b, c, d>>
         /\ <<a, b>> \o <<c, d>> = <<a, b, c, d>>
<1> DEFINE S == {a, b, c, d}
           u == <<a, b, c, d>>
<1>1. <<a, b, c>> \o <<d>> = u
  <2> DEFINE s == <<a, b, c>>
             t == <<d>>
  <2>1. s \in Seq(S) /\ t \in Seq(S) /\ u \in Seq(S)
    OBVIOUS
  <2>2. Len(u) = Len(s) + Len(t)
    OBVIOUS
  <2>3. \A i \in 1..Len(s) : u[i] = s[i]
    OBVIOUS
  <2>4. \A i \in 1..Len(t) : u[Len(s) + i] = t[i]
    OBVIOUS
  <2> SUFFICES s \o t = u
    OBVIOUS
  <2> HIDE DEF S, s, t, u
  <2> QED BY <2>1, <2>2, <2>3, <2>4, CatTuple
<1>2. <<a, b>> \o <<c, d>> = u
  <2> DEFINE s == <<a, b>>
             t == <<c, d>>
  <2>1. s \in Seq(S) /\ t \in Seq(S) /\ u \in Seq(S)
    OBVIOUS
  <2>2. Len(u) = Len(s) + Len(t)
    OBVIOUS
  <2>3. \A i \in 1..Len(s) : u[i] = s[i]
    OBVIOUS
  <2>4. \A i \in 1..Len(t) : u[Len(s) + i] = t[i]
    OBVIOUS
  <2> SUFFICES s \o t = u
    OBVIOUS
  <2> HIDE DEF S, s, t, u
  <2> QED BY <2>1, <2>2, <2>3, <2>4, CatTuple
<1> QED BY <1>1, <1>2

\* The operations on the temporaries put the new keys there.
LEMMA PrepFacts ==
  ASSUME NEW fs, NEW k \in PrivateKeys, NEW pub,
         NEW u \in Seq(TmpRm), NEW v \in Seq(TmpRm)
  PROVE  LET p == <<Rm("keyTmp"), Rm("pubTmp"), Put("keyTmp", k, u)>>
             q == <<Rm("keyTmp"), Rm("pubTmp"), Put("keyTmp", k, u),
                    Put("pubTmp", pub, v)>>
         IN  /\ p \in Seq(PrepOps) /\ Arrives(fs, p, "keyTmp", k)
             /\ pub \in Pairs => /\ q \in Seq(PrepOps)
                                 /\ Arrives(fs, q, "keyTmp", k)
                                 /\ Arrives(fs, q, "pubTmp", pub)
<1> DEFINE a == Rm("keyTmp")
           b == Rm("pubTmp")
           d == Put("keyTmp", k, u)
           e == Put("pubTmp", pub, v)
           p == <<a, b, d>>
           q == <<a, b, d, e>>
<1>1. \A s \in Seq(TmpRm) : s \in Seq(UndoOps)
  <2>1. TmpRm \subseteq UndoOps
    BY KeyOpFacts, OpSets DEF UndoOps
  <2> QED BY <2>1, SeqWidens
<1>2. a \in PrepOps /\ b \in PrepOps
  BY KeyOpFacts DEF PrepOps
<1>3. d \in PrepOps
  BY <1>1 DEF PrepOps, PutOps, Put
<1>4. ASSUME pub \in Pairs PROVE e \in PrepOps
  BY <1>1, <1>4 DEF PrepOps, PutOps, Put
<1>5. /\ a.file = "keyTmp" /\ b.file = "pubTmp"
      /\ d.op = "put" /\ d.file = "keyTmp" /\ d.content = k
      /\ e.op = "put" /\ e.file = "pubTmp" /\ e.content = pub
  BY DEF Rm, Put
<1> HIDE DEF a, b, d, e
<1>6. p \in Seq(PrepOps) /\ DOMAIN p = 1..3 /\ p[3] = d
  BY <1>2, <1>3
<1>7. Arrives(fs, p, "keyTmp", k)
  <2>1. 3 \in DOMAIN p /\ \A j \in DOMAIN p : ~(j > 3)
    BY <1>6
  <2> QED BY <1>5, <1>6, <2>1 DEF Arrives
<1>8. ASSUME pub \in Pairs
      PROVE  /\ q \in Seq(PrepOps) /\ Arrives(fs, q, "keyTmp", k)
             /\ Arrives(fs, q, "pubTmp", pub)
  <2>1. /\ q \in Seq(PrepOps) /\ DOMAIN q = 1..4 /\ q[3] = d /\ q[4] = e
    BY <1>2, <1>3, <1>4, <1>8
  <2>2. \A j \in DOMAIN q : j > 3 => j = 4
    BY <2>1
  <2>3. 3 \in DOMAIN q /\ 4 \in DOMAIN q /\ \A j \in DOMAIN q : ~(j > 4)
    BY <2>1
  <2>4. Arrives(fs, q, "keyTmp", k)
    BY <1>5, <2>1, <2>2, <2>3 DEF Arrives
  <2>5. Arrives(fs, q, "pubTmp", pub)
    BY <1>5, <2>1, <2>3 DEF Arrives
  <2> QED BY <2>1, <2>4, <2>5
<1> QED BY <1>6, <1>7, <1>8 DEF a, b, d, e

\* The last step of saveKeys exchanges the public key, if there is one.
LastMv(c) == When(c.pub # Absent, <<SaveMvPub>>)

LEMMA LastMvFacts ==
  ASSUME NEW c
  PROVE  /\ c.pub # Absent => LastMv(c) = <<SaveMvPub>>
         /\ c.pub = Absent => LastMv(c) = <<>>
         /\ LastMv(c) \in Seq(QuietOps)
<1>1. <<SaveMvPub>> \in Seq(QuietOps) /\ <<>> \in Seq(QuietOps)
  BY KeyOpFacts
<1> QED BY <1>1 DEF LastMv, When

LEMMA SaveKeysPlan ==
  ASSUME NEW fs, NEW c, c.key \in PrivateKeys, c.pub \in Pairs \cup {Absent},
         NEW r \in Seq(Ops)
  PROVE  /\ SaveKeys(c) \in Seq(QuietOps)
         /\ \E p \in Seq(PrepOps) :
              /\ SaveKeys(c) \o r =
                   p \o (<<Rm("key"), SaveMvKey, Rm("pub")>> \o (LastMv(c) \o r))
              /\ Arrives(fs, p, "keyTmp", c.key)
              /\ c.pub # Absent => Arrives(fs, p, "pubTmp", c.pub)
<1> DEFINE A == <<Rm("keyTmp"), Rm("pubTmp"), Put("keyTmp", c.key, <<>>)>>
           B == When(c.pub # Absent, <<Put("pubTmp", c.pub, <<Rm("keyTmp")>>)>>)
           M == <<Rm("key"), SaveMvKey, Rm("pub")>>
           D == LastMv(c)
           p == A \o B
<1>1. SaveKeys(c) = (p \o M) \o D
  BY DEF SaveKeys, SaveMvKey, SaveMvPub, LastMv
<1>2. <<Rm("keyTmp")>> \in Seq(TmpRm) /\ <<>> \in Seq(TmpRm)
  BY KeyOpFacts
<1>3. /\ p \in Seq(PrepOps) /\ Arrives(fs, p, "keyTmp", c.key)
      /\ c.pub # Absent => Arrives(fs, p, "pubTmp", c.pub)
  <2>1. CASE c.pub = Absent
    <3>1. A \in Seq(PrepOps) /\ Arrives(fs, A, "keyTmp", c.key)
      BY <1>2, PrepFacts
    <3>2. B = <<>>
      BY <2>1 DEF When
    <3>3. p = A
      BY <3>1, <3>2, ConcatEmptySeq
    <3> QED BY <2>1, <3>1, <3>3
  <2>2. CASE c.pub # Absent
    <3> DEFINE q == <<Rm("keyTmp"), Rm("pubTmp"), Put("keyTmp", c.key, <<>>),
                      Put("pubTmp", c.pub, <<Rm("keyTmp")>>)>>
    <3>1. B = <<Put("pubTmp", c.pub, <<Rm("keyTmp")>>)>>
      BY <2>2 DEF When
    <3>2. p = q
      BY <3>1, FourTuple
    <3>3. c.pub \in Pairs
      BY <2>2
    <3>4. q \in Seq(PrepOps) /\ Arrives(fs, q, "keyTmp", c.key)
          /\ Arrives(fs, q, "pubTmp", c.pub)
      BY <1>2, <3>3, PrepFacts
    <3> QED BY <3>2, <3>4
  <2> QED BY <2>1, <2>2
<1>4. M \in Seq(QuietOps) /\ D \in Seq(QuietOps)
  BY KeyOpFacts, OpSets, LastMvFacts
<1> HIDE DEF p, M, D
<1>5. p \in Seq(QuietOps)
  BY <1>3, KeyOpFacts, SeqWidens
<1>6. p \in Seq(Ops) /\ M \in Seq(Ops) /\ D \in Seq(Ops)
  BY <1>4, <1>5, OpSets, SeqWidens
<1>7. SaveKeys(c) \in Seq(QuietOps)
  BY <1>1, <1>4, <1>5, ConcatProperties
<1>8. p \o M \in Seq(Ops) /\ D \o r \in Seq(Ops)
  BY <1>6, ConcatProperties
<1>9. ((p \o M) \o D) \o r = (p \o M) \o (D \o r)
  <2> DEFINE q == p \o M
  <2>1. q \in Seq(Ops)
    BY <1>8
  <2> HIDE DEF q
  <2>2. (q \o D) \o r = q \o (D \o r)
    BY <1>6, <2>1, ConcatAssociative
  <2> QED BY <2>2 DEF q
<1>10. (p \o M) \o (D \o r) = p \o (M \o (D \o r))
  BY <1>6, <1>8, ConcatAssociative
<1> QED BY <1>1, <1>3, <1>7, <1>9, <1>10 DEF M, D

LEMMA PersistPlan ==
  ASSUME NEW fs, NEW c, c.key \in PrivateKeys, c.pub \in Pairs
  PROVE  /\ PersistKeyPair(c) \in Seq(QuietOps)
         /\ \E p \in Seq(PrepOps) :
              /\ PersistKeyPair(c) =
                   p \o <<Rm("key"), Rm("pub"), MadeMvKey, MadeMvPub>>
              /\ Arrives(fs, p, "keyTmp", c.key)
              /\ Arrives(fs, p, "pubTmp", c.pub)
<1> DEFINE u == <<Rm("keyTmp"), Rm("pubTmp")>>
           B == <<Put("keyTmp", c.key, u), Put("pubTmp", c.pub, u)>>
           M == <<Rm("key"), Rm("pub"), MadeMvKey, MadeMvPub>>
           q == <<Rm("keyTmp"), Rm("pubTmp"), Put("keyTmp", c.key, u),
                  Put("pubTmp", c.pub, u)>>
<1>1. PersistKeyPair(c) = (u \o B) \o M
  BY DEF PersistKeyPair, MadeMvKey, MadeMvPub
<1>2. u \o B = q
  BY FourTuple
<1>3. u \in Seq(TmpRm)
  BY KeyOpFacts
<1>4. /\ q \in Seq(PrepOps) /\ Arrives(fs, q, "keyTmp", c.key)
      /\ Arrives(fs, q, "pubTmp", c.pub)
  <2> HIDE DEF u
  <2> QED BY <1>3, PrepFacts
<1>5. M \in Seq(QuietOps)
  BY KeyOpFacts, OpSets
<1> HIDE DEF q, M
<1>6. q \in Seq(QuietOps)
  BY <1>4, KeyOpFacts, SeqWidens
<1>7. PersistKeyPair(c) \in Seq(QuietOps)
  BY <1>1, <1>2, <1>5, <1>6, ConcatProperties
<1> QED BY <1>1, <1>2, <1>4, <1>7 DEF M

LEMMA WipePlan == Wipe \in Seq(RmOps)
<1>1. \A f \in Names : Rm(f) \in RmOps
  BY OpSets
<1> QED BY <1>1 DEF Wipe, Names

-----------------------------------------------------------------------------
\* Types, and what the phases and the handlers imply.

PhaseNames == {"off", "load", "connect", "setup", "wifiPortal", "wifiJoined",
               "transition", "devicePortal", "paused", "halted", "running"}
HandlerNames == {"none", "boot", "wifi", "wifiRestart", "device", "managed",
                 "identity", "request", "factory"}
Tunnels == [key : PrivateKeys, pub : Pairs \cup {Absent}] \cup {Absent}

\* The handlers that write /esp32tun.cfg, and the phases with WiFi settings.
Writers == {"wifi", "wifiRestart", "device", "managed"}
Joined == {"connect", "setup", "wifiJoined", "transition", "devicePortal",
           "paused", "running"}

RamOK ==
  /\ now \in Configs
  /\ edit \in BOOLEAN /\ wifiReset \in BOOLEAN /\ identityTried \in BOOLEAN
  /\ tunnel \in Tunnels

ControlOK ==
  /\ phase \in PhaseNames
  /\ handler \in [name : HandlerNames, cfg : Configs]
  /\ todo \in Seq(Ops)
  /\ failed \in BOOLEAN

BoundsOK ==
  /\ keys \in 0..MaxKeys /\ edits \in 0..MaxEdits
  /\ faults \in 0..MaxFaults /\ powerLosses \in 0..MaxPowerLoss

HistoryOK ==
  /\ committed \subseteq CfgFiles \cup {Absent}
  /\ cfgRisk \in BOOLEAN /\ keyRisk \in BOOLEAN
  /\ identity \subseteq Pairs /\ forgotten \subseteq Pairs

\* Where the main task stands tells which handlers run and what RAM holds.
PhaseInv ==
  /\ handler.name = "none" => handler = Idle /\ todo = <<>>
  /\ phase = "off" => handler = Idle
  /\ handler.name = "boot" <=> phase = "load"
  /\ handler.name \in {"wifi", "wifiRestart"} => phase \in {"wifiJoined", "transition"}
  /\ phase \in Joined => now.wifi \in Wifis
  /\ now.done => now.wifi \in Wifis /\ now.dev \in Devices
  /\ phase # "running" /\ now.done /\ now.auth = "key" => now.key \in PrivateKeys

\* The configuration c that the handler n saves.
SavesWell(n, c) ==
  /\ n \in Writers => Storable(c)
  /\ n \in {"device", "managed"} => c.done
  /\ n = "managed" => c.auth = "key"
  /\ n = "device" /\ c.auth = "key" => c.key \in PrivateKeys
  /\ n = "device" /\ c.auth = "password" => c.pub = Absent
  /\ n = "identity" => /\ ~c.done /\ c.auth = "key"
                       /\ c.key \in PrivateKeys /\ c.pub \in Pairs
                       /\ c.wifi \in Wifis

TypeInv ==
  /\ FilesOK(files) /\ RamOK /\ ControlOK /\ BoundsOK /\ HistoryOK
  /\ PhaseInv /\ SavesWell(handler.name, handler.cfg)

LEMMA TypeInvTypes == TypeInv => TypeOK
<1> SUFFICES ASSUME TypeInv PROVE TypeOK
  OBVIOUS
<1>1. /\ DOMAIN files = Names
      /\ \A f \in {"cfg", "cfgTmp", "cfgBak"} : files[f] \in CfgFiles \cup {Absent}
      /\ \A f \in {"key", "keyTmp"} : files[f] \in PrivateKeys \cup {Absent}
      /\ \A f \in {"pub", "pubTmp"} : files[f] \in Pairs \cup {Absent}
      /\ \A f \in {"edit", "wifiReset"} : files[f] \in {"1", Absent}
  BY DEF TypeInv, FilesOK
<1>2. \A o \in Ops : o.file \in Names
  BY DEF Ops, UndoOps, CfgOps, KeyOps, MarkOps, RmOps, PutOps, MvOps, RestoreCfg,
         Restore, Names
<1>3. \A i \in DOMAIN todo : todo[i].file \in Names
  <2>1. todo \in Seq(Ops)
    BY DEF TypeInv, ControlOK
  <2>2. \A i \in DOMAIN todo : todo[i] \in Ops
    BY <2>1
  <2> QED BY <1>2, <2>2
<1>4. /\ now \in Configs /\ phase \in PhaseNames
      /\ handler \in [name : HandlerNames, cfg : Configs]
      /\ {failed, edit, wifiReset, identityTried, cfgRisk, keyRisk} \subseteq BOOLEAN
      /\ tunnel \in Tunnels
  BY DEF TypeInv, RamOK, ControlOK, HistoryOK
<1> QED BY <1>1, <1>3, <1>4
        DEF TypeOK, TypeInv, BoundsOK, HistoryOK, PhaseNames, HandlerNames, Tunnels

\* The configurations that the actions form.
LEMMA ConfigFacts ==
  /\ Defaults \in Configs /\ ~Defaults.done /\ Defaults.key = Absent
  /\ Defaults.pub = Absent
  /\ Idle \in [name : HandlerNames, cfg : Configs]
  /\ Idle.name = "none" /\ Idle.cfg = Defaults
BY DEF Defaults, Configs, Idle, HandlerNames

LEMMA FieldFacts ==
  ASSUME NEW c \in Configs
  PROVE  /\ c.done \in BOOLEAN /\ c.wifi \in Wifis \cup {Absent}
         /\ c.dev \in Devices \cup {Absent} /\ c.auth \in {"password", "key"}
         /\ c.key \in PrivateKeys \cup {Absent} /\ c.pub \in Pairs \cup {Absent}
BY DEF Configs

LEMMA PrivateKeyFacts ==
  ASSUME NEW k \in PrivateKeys
  PROVE  k.pair \in Pairs /\ k # Absent
BY AbsentAssumption DEF PrivateKeys

LEMMA InitTypes == Init => TypeInv
<1> SUFFICES ASSUME Init PROVE TypeInv
  OBVIOUS
<1>0. /\ now = Defaults /\ edit = FALSE /\ wifiReset = FALSE
      /\ identityTried = FALSE /\ tunnel = Absent
      /\ phase = "off" /\ handler = Idle /\ todo = <<>> /\ failed = FALSE
  BY DEF Init
<1>1. RamOK /\ PhaseInv /\ SavesWell(handler.name, handler.cfg)
  <2>1. RamOK
    BY <1>0, ConfigFacts DEF RamOK, Tunnels
  <2>2. PhaseInv
    BY <1>0, ConfigFacts DEF PhaseInv, Joined
  <2>3. SavesWell(handler.name, handler.cfg)
    BY <1>0, ConfigFacts DEF SavesWell, Writers
  <2> QED BY <2>1, <2>2, <2>3
<1>2. ControlOK
  <2>1. todo \in Seq(Ops)
    BY <1>0
  <2> QED BY <1>0, <2>1, ConfigFacts DEF ControlOK, PhaseNames
<1>3. FilesOK(files) /\ keys \in {0, 1} /\ identity \in {{}, {1}}
  <2> DEFINE blank == [f \in Names |-> Absent]
  <2>1. CASE files = blank /\ keys = 0 /\ identity = {}
    BY <2>1 DEF FilesOK, Names
  <2>2. ASSUME NEW w \in Wifis, NEW d \in Devices,
               files = [blank EXCEPT !["cfg"] =
                    [done |-> TRUE, wifi |-> w, dev |-> d, auth |-> "password"]],
               keys = 0, identity = {}
        PROVE  FilesOK(files) /\ keys \in {0, 1} /\ identity \in {{}, {1}}
    BY <2>2 DEF FilesOK, Names, CfgFiles
  <2>3. ASSUME NEW w \in Wifis, NEW d \in Devices, NEW ec \in BOOLEAN,
               NEW pub \in {1, Absent},
               files = [blank EXCEPT
                    !["cfg"] = [done |-> TRUE, wifi |-> w, dev |-> d,
                                auth |-> "key"],
                    !["key"] = [pair |-> 1, ec |-> ec], !["pub"] = pub],
               keys = 1, identity = {1}
        PROVE  FilesOK(files) /\ keys \in {0, 1} /\ identity \in {{}, {1}}
    <3>1. 1 \in Pairs
      BY StoreAssumption DEF Pairs
    <3>2. [pair |-> 1, ec |-> ec] \in PrivateKeys
      BY <3>1 DEF PrivateKeys
    <3>3. [done |-> TRUE, wifi |-> w, dev |-> d, auth |-> "key"] \in CfgFiles
      BY DEF CfgFiles
    <3>4. /\ DOMAIN files = Names
          /\ files["cfg"] = [done |-> TRUE, wifi |-> w, dev |-> d, auth |-> "key"]
          /\ files["key"] = [pair |-> 1, ec |-> ec] /\ files["pub"] = pub
          /\ \A f \in Names \ {"cfg", "key", "pub"} : files[f] = Absent
      BY <2>3 DEF Names
    <3> QED BY <2>3, <3>1, <3>2, <3>3, <3>4 DEF FilesOK, Names
  <2> QED BY <2>1, <2>2, <2>3 DEF Init
<1>4. BoundsOK
  BY <1>3, StoreAssumption DEF BoundsOK, Init
<1>5. HistoryOK
  <2>1. committed = {files["cfg"]} /\ files["cfg"] \in CfgFiles \cup {Absent}
    BY <1>3 DEF Init, FilesOK
  <2>2. 1 \in Pairs
    BY StoreAssumption DEF Pairs
  <2> QED BY <1>3, <2>1, <2>2 DEF Init, HistoryOK
<1> QED BY <1>1, <1>2, <1>3, <1>4, <1>5 DEF TypeInv

LEMMA LoadedFacts ==
  ASSUME FilesOK(files)
  PROVE  /\ LoadedConfig \in Configs
         /\ Loaded => LoadedConfig.wifi \in Wifis
         /\ LoadedConfig.done => /\ LoadedConfig.wifi \in Wifis
                                 /\ LoadedConfig.dev \in Devices
         /\ LoadedConfig.done /\ LoadedConfig.auth = "key"
              => LoadedConfig.key \in PrivateKeys
<1> DEFINE f == files["cfg"]
<1>1. CASE ~Loaded
  <2>1. LoadedConfig = Defaults
    BY <1>1 DEF LoadedConfig
  <2> QED BY <1>1, <2>1, ConfigFacts
<1>2. CASE Loaded
  <2>1. f \in CfgFiles /\ f.wifi # Absent
    BY <1>2 DEF Loaded, FilesOK
  <2>2. f.wifi \in Wifis
    BY <2>1 DEF CfgFiles
  <2>3. CASE ~f.done
    <3>1. LoadedConfig = [Defaults EXCEPT !.wifi = f.wifi]
      BY <1>2, <2>3 DEF LoadedConfig
    <3> QED BY <2>2, <3>1 DEF Defaults, Configs
  <2>4. CASE f.done
    <3> DEFINE byKey == f.auth = "key"
               key == IF byKey THEN files["key"] ELSE Absent
               pub == IF byKey /\ LoadKeys THEN files["pub"] ELSE Absent
    <3>1. LoadedConfig = [done |-> ~byKey \/ LoadKeys, wifi |-> f.wifi, dev |-> f.dev,
                          auth |-> f.auth, key |-> key, pub |-> pub]
      BY <1>2, <2>4 DEF LoadedConfig
    <3>2. f.dev \in Devices /\ f.auth \in {"password", "key"}
      BY <2>1, <2>4 DEF CfgFiles
    <3>3. key \in PrivateKeys \cup {Absent} /\ pub \in Pairs \cup {Absent}
      BY DEF FilesOK
    <3>4. (~byKey \/ LoadKeys) \in BOOLEAN
      BY DEF LoadKeys
    <3>5. byKey /\ LoadKeys => key \in PrivateKeys
      BY DEF LoadKeys, FilesOK
    <3> HIDE DEF key, pub
    <3>6. LoadedConfig \in Configs
      BY <2>2, <3>1, <3>2, <3>3, <3>4 DEF Configs
    <3>7. /\ LoadedConfig.wifi = f.wifi /\ LoadedConfig.dev = f.dev
          /\ LoadedConfig.auth = f.auth /\ LoadedConfig.key = key
          /\ LoadedConfig.done = (~byKey \/ LoadKeys)
      BY <3>1
    <3> QED BY <2>2, <3>2, <3>5, <3>6, <3>7
  <2> QED BY <2>3, <2>4
<1> QED BY <1>1, <1>2

LEMMA WithKeysFacts ==
  ASSUME NEW c \in Configs, NEW key \in PrivateKeys \cup {Absent},
         NEW pub \in Pairs \cup {Absent}
  PROVE  /\ WithKeys(c, key, pub) \in Configs
         /\ WithKeys(c, key, pub).auth = "key" /\ WithKeys(c, key, pub).key = key
         /\ WithKeys(c, key, pub).pub = pub
         /\ WithKeys(c, key, pub).done = c.done
         /\ WithKeys(c, key, pub).wifi = c.wifi /\ WithKeys(c, key, pub).dev = c.dev
BY DEF WithKeys, Configs

\* A submission of the portal brings a password, a new key, or none.
LEMMA SubmissionFacts ==
  ASSUME NEW s \in Submissions, now \in Configs, keys \in Nat
  PROVE  /\ s \in Configs /\ s.wifi = now.wifi
         /\ \/ s.auth = "password" /\ s.key = Absent /\ s.pub = Absent
            \/ /\ s.auth = "key" /\ keys + 1 \in Pairs
               /\ s.key \in PrivateKeys /\ s.key.pair = keys + 1
               /\ s.pub \in {keys + 1, Absent}
            \/ /\ s.auth = "key" /\ now.auth = "key" /\ s.key = now.key
               /\ now.key \in PrivateKeys /\ s.pub \in {now.pub, now.key.pair}
<1>1. CASE s = [now EXCEPT !.auth = "password", !.key = Absent, !.pub = Absent]
  BY <1>1 DEF Configs
<1>2. ASSUME NEW k \in {keys + 1} \cap Pairs, NEW ec \in BOOLEAN,
             NEW pub \in {keys + 1, Absent},
             s = WithKeys(now, [pair |-> k, ec |-> ec], pub)
      PROVE  /\ s \in Configs /\ s.wifi = now.wifi
             /\ s.auth = "key" /\ keys + 1 \in Pairs
             /\ s.key \in PrivateKeys /\ s.key.pair = keys + 1
             /\ s.pub \in {keys + 1, Absent}
  <2>1. k = keys + 1 /\ k \in Pairs
    BY <1>2
  <2>2. [pair |-> k, ec |-> ec] \in PrivateKeys /\ [pair |-> k, ec |-> ec].pair = k
    BY <2>1 DEF PrivateKeys
  <2>3. pub \in Pairs \cup {Absent}
    BY <2>1
  <2> QED BY <1>2, <2>1, <2>2, <2>3, WithKeysFacts
<1>3. ASSUME now.auth = "key", now.key # Absent, NEW pub \in {now.pub, now.key.pair},
             s = WithKeys(now, now.key, pub)
      PROVE  /\ s \in Configs /\ s.wifi = now.wifi
             /\ s.auth = "key" /\ now.auth = "key" /\ s.key = now.key
             /\ now.key \in PrivateKeys /\ s.pub \in {now.pub, now.key.pair}
  <2>1. now.key \in PrivateKeys /\ now.pub \in Pairs \cup {Absent}
    BY <1>3, FieldFacts
  <2>2. pub \in Pairs \cup {Absent}
    BY <2>1, PrivateKeyFacts
  <2> QED BY <1>3, <2>1, <2>2, WithKeysFacts
<1>4. \/ s = [now EXCEPT !.auth = "password", !.key = Absent, !.pub = Absent]
      \/ \E k \in {keys + 1} \cap Pairs, ec \in BOOLEAN, pub \in {keys + 1, Absent} :
           s = WithKeys(now, [pair |-> k, ec |-> ec], pub)
      \/ /\ now.auth = "key" /\ now.key # Absent
         /\ \E pub \in {now.pub, now.key.pair} : s = WithKeys(now, now.key, pub)
  BY DEF Submissions
<1> QED BY <1>1, <1>2, <1>3, <1>4

\* The configuration that /save-device forms of it.
LEMMA DeviceConfigFacts ==
  ASSUME NEW s \in Submissions, NEW d \in Devices, now \in Configs, keys \in Nat,
         now.wifi \in Wifis
  PROVE  LET c == [s EXCEPT !.done = TRUE, !.dev = d]
         IN  /\ c \in Configs /\ Storable(c) /\ c.done
             /\ c.auth = s.auth /\ c.key = s.key /\ c.pub = s.pub
<1> DEFINE c == [s EXCEPT !.done = TRUE, !.dev = d]
<1>1. s \in Configs /\ s.wifi = now.wifi
  BY SubmissionFacts
<1>2. /\ c \in Configs /\ c.done /\ c.dev = d /\ c.wifi = s.wifi
      /\ c.auth = s.auth /\ c.key = s.key /\ c.pub = s.pub
  BY <1>1 DEF Configs
<1> QED BY <1>1, <1>2 DEF Storable

\* What power-up and ESP.restart() leave is well typed.
LEMMA ResetTypes ==
  ASSUME Reset, FilesOK(files'), BoundsOK', HistoryOK'
  PROVE  TypeInv'
<1>1. /\ now' = Defaults /\ edit' = FALSE /\ wifiReset' = FALSE
      /\ identityTried' = FALSE /\ tunnel' = Absent
      /\ phase' = "off" /\ handler' = Idle /\ todo' = <<>> /\ failed' = FALSE
  BY DEF Reset
<1>2. RamOK'
  BY <1>1, ConfigFacts DEF RamOK, Tunnels
<1>3. PhaseInv'
  BY <1>1, ConfigFacts DEF PhaseInv, Joined
<1>4. SavesWell(handler'.name, handler'.cfg)
  BY <1>1, ConfigFacts DEF SavesWell, Writers
<1>5. ControlOK'
  <2>1. todo' \in Seq(Ops)
    BY <1>1
  <2> QED BY <1>1, <2>1, ConfigFacts DEF ControlOK, PhaseNames
<1> QED BY <1>2, <1>3, <1>4, <1>5 DEF TypeInv

\* A handler begins while the phase and the RAM stay: what is left to show.
LEMMA BeginTypes ==
  ASSUME TypeInv, NEW n \in HandlerNames \ {"none", "boot"}, NEW c \in Configs,
         NEW ops \in Seq(Ops), Begin(n, c, ops), SavesWell(n, c),
         FilesOK(files'), RamOK', BoundsOK', HistoryOK', phase' \in PhaseNames,
         phase' \notin {"off", "load"},
         n \in {"wifi", "wifiRestart"} => phase' \in {"wifiJoined", "transition"},
         phase' \in Joined => now'.wifi \in Wifis,
         now'.done => now'.wifi \in Wifis /\ now'.dev \in Devices,
         phase' # "running" /\ now'.done /\ now'.auth = "key"
           => now'.key \in PrivateKeys
  PROVE  TypeInv'
<1>1. handler' = [name |-> n, cfg |-> c] /\ todo' = ops /\ failed' = FALSE
  BY DEF Begin
<1>2. handler'.name = n /\ handler'.cfg = c
  BY <1>1
<1>3. ControlOK'
  BY <1>1 DEF ControlOK
<1>4. PhaseInv'
  BY <1>2 DEF PhaseInv
<1>5. SavesWell(handler'.name, handler'.cfg)
  BY <1>2
<1> QED BY <1>3, <1>4, <1>5 DEF TypeInv

LEMMA TypeStep == TypeInv /\ [Next]_vars => TypeInv'
<1> SUFFICES ASSUME TypeInv, [Next]_vars PROVE TypeInv'
  OBVIOUS
<1>0. /\ FilesOK(files) /\ RamOK /\ ControlOK /\ BoundsOK /\ HistoryOK
      /\ PhaseInv /\ SavesWell(handler.name, handler.cfg)
  BY DEF TypeInv
<1>1. /\ now \in Configs /\ keys \in Nat /\ edits \in Nat /\ faults \in Nat
      /\ handler \in [name : HandlerNames, cfg : Configs] /\ todo \in Seq(Ops)
  BY <1>0 DEF RamOK, BoundsOK, ControlOK
<1>b. ASSUME UNCHANGED bounds PROVE BoundsOK'
  BY <1>0, <1>b DEF BoundsOK, bounds
<1>h. ASSUME UNCHANGED history PROVE HistoryOK'
  BY <1>0, <1>h DEF HistoryOK, history
<1>r. ASSUME UNCHANGED ram PROVE RamOK'
  BY <1>0, <1>r DEF RamOK, ram
<1>f. ASSUME UNCHANGED files PROVE FilesOK(files')
  BY <1>0, <1>f
<1>2. CASE Boot
  <2>1. /\ phase = "off" /\ phase' = "load" /\ now' = now /\ files' = files
        /\ UNCHANGED <<identityTried, tunnel>> /\ UNCHANGED bounds
        /\ UNCHANGED history /\ edit' \in BOOLEAN /\ wifiReset' \in BOOLEAN
    BY <1>2 DEF Boot
  <2>2. handler' = [name |-> "boot", cfg |-> now] /\ failed' = FALSE
        /\ todo' \in {<<>>, <<RestoreCfg>>, <<Rm("cfgBak")>>}
    BY <1>2 DEF Boot, Begin, When, RestoreCfg
  <2>3. todo' \in Seq(Ops)
    <3>1. Rm("cfgBak") \in Ops /\ RestoreCfg \in Ops
      BY OpSets DEF Names
    <3>2. <<>> \in Seq(Ops) /\ <<RestoreCfg>> \in Seq(Ops)
          /\ <<Rm("cfgBak")>> \in Seq(Ops)
      BY <3>1
    <3> QED BY <2>2, <3>2
  <2>4. ControlOK' /\ handler'.name = "boot" /\ handler'.cfg = now
    BY <1>1, <2>1, <2>2, <2>3 DEF ControlOK, HandlerNames, PhaseNames
  <2>5. RamOK'
    BY <1>0, <2>1 DEF RamOK
  <2>6. PhaseInv'
    BY <1>0, <2>1, <2>4 DEF PhaseInv, Joined
  <2>7. SavesWell(handler'.name, handler'.cfg)
    BY <2>4 DEF SavesWell, Writers
  <2> QED BY <1>f, <1>b, <1>h, <2>1, <2>4, <2>5, <2>6, <2>7 DEF TypeInv
<1>3. CASE FormatStorage
  <2>1. /\ UNCHANGED ram /\ UNCHANGED control
        /\ files' = [f \in Names |-> Absent]
    BY <1>3 DEF FormatStorage
  <2>2. FilesOK(files')
    BY <2>1 DEF FilesOK, Names
  <2>3. BoundsOK'
    BY <1>0, <1>3, StoreAssumption DEF FormatStorage, BoundsOK
  <2>4. HistoryOK'
    BY <1>0, <1>3 DEF FormatStorage, HistoryOK
  <2>5. ControlOK' /\ PhaseInv' /\ SavesWell(handler'.name, handler'.cfg)
    BY <1>0, <2>1 DEF ControlOK, PhaseInv, control, ram
  <2> QED BY <1>r, <2>1, <2>2, <2>3, <2>4, <2>5 DEF TypeInv
<1>4. CASE Load
  <2>1. /\ handler.name = "boot" /\ todo = <<>> /\ handler' = Idle
        /\ now' = LoadedConfig /\ files' = files /\ todo' = <<>>
        /\ phase' \in {IF wifiReset \/ ~Loaded THEN "wifiPortal" ELSE "connect",
                       "halted"}
        /\ UNCHANGED <<failed, edit, wifiReset, identityTried, tunnel>>
        /\ UNCHANGED bounds
    BY <1>4 DEF Load
  <2>2. HistoryOK'
    <3>1. committed' = {BootContent} /\ UNCHANGED <<cfgRisk, identity, keyRisk, forgotten>>
      BY <1>4 DEF Load
    <3>2. BootContent \in CfgFiles \cup {Absent}
      BY <1>0 DEF BootContent, FilesOK
    <3> QED BY <1>0, <3>1, <3>2 DEF HistoryOK
  <2>3. phase' \in {"wifiPortal", "connect", "halted"}
        /\ (phase' = "connect" => Loaded)
    BY <2>1
  <2>4. RamOK'
    BY <1>0, <2>1, LoadedFacts DEF RamOK
  <2>5. ControlOK'
    <3>1. todo' \in Seq(Ops)
      BY <2>1
    <3> QED BY <1>0, <2>1, <2>3, <3>1, ConfigFacts DEF ControlOK, PhaseNames
  <2>6. PhaseInv'
    BY <1>0, <2>1, <2>3, LoadedFacts, ConfigFacts DEF PhaseInv, Joined
  <2>7. SavesWell(handler'.name, handler'.cfg)
    BY <2>1, ConfigFacts DEF SavesWell, Writers
  <2> QED BY <1>f, <1>b, <2>1, <2>2, <2>4, <2>5, <2>6, <2>7 DEF TypeInv
<1>5. CASE ConnectWiFi \/ OpenDevicePortal
  <2>1. /\ handler = Idle /\ phase \in {"connect", "setup", "transition"}
        /\ phase' \in {"setup", "paused", "devicePortal"}
        /\ UNCHANGED <<files, handler, todo, failed>>
        /\ UNCHANGED ram /\ UNCHANGED bounds /\ UNCHANGED history
    BY <1>5 DEF ConnectWiFi, OpenDevicePortal, AtRest
  <2>2. ControlOK'
    BY <1>0, <2>1 DEF ControlOK, PhaseNames
  <2>3. PhaseInv'
    BY <1>0, <2>1, ConfigFacts DEF PhaseInv, Joined, ram
  <2> QED BY <1>0, <1>f, <1>r, <1>b, <1>h, <2>1, <2>2, <2>3 DEF TypeInv
<1>6. CASE StartTunnel
  <2>1. /\ handler = Idle /\ phase = "setup" /\ phase' = "running" /\ now.done
        /\ tunnel' = HandedOver(now)
        /\ now' = [now EXCEPT !.key = Absent, !.pub = Absent]
        /\ UNCHANGED <<files, handler, todo, failed, edit, wifiReset, identityTried>>
        /\ UNCHANGED bounds /\ UNCHANGED history
    BY <1>6 DEF StartTunnel, AtRest
  <2>2. now' \in Configs /\ now'.wifi = now.wifi /\ now'.dev = now.dev
    BY <1>1, <2>1 DEF Configs
  <2>3. tunnel' \in Tunnels
    <3>1. now.auth = "key" => now.key \in PrivateKeys
      BY <1>0, <2>1 DEF PhaseInv
    <3> QED BY <1>1, <2>1, <3>1, FieldFacts DEF HandedOver, Tunnels
  <2>4. RamOK'
    BY <1>0, <2>1, <2>2, <2>3 DEF RamOK
  <2>5. ControlOK'
    BY <1>0, <2>1 DEF ControlOK, PhaseNames
  <2>6. PhaseInv'
    BY <1>0, <2>1, <2>2, ConfigFacts DEF PhaseInv, Joined
  <2> QED BY <1>0, <1>f, <1>b, <1>h, <2>1, <2>4, <2>5, <2>6 DEF TypeInv
<1>7. CASE EnsureIdentity
  <2>1. /\ handler = Idle /\ ~now.done /\ phase' = phase /\ files' = files
        /\ phase \in {"setup", "wifiJoined", "transition", "devicePortal", "paused"}
        /\ identityTried' = TRUE /\ UNCHANGED history
        /\ UNCHANGED <<edit, wifiReset, tunnel, edits, faults, powerLosses>>
    BY <1>7 DEF EnsureIdentity, AtRest, NeedsIdentity
  <2>2. now.wifi \in Wifis
    BY <1>0, <2>1 DEF PhaseInv, Joined
  <2>3. CASE /\ LoadExisting /\ now' = WithKeys(now, files["key"], files["pub"])
             /\ UNCHANGED <<handler, todo, failed, keys>>
    <3>1. files["key"] \in PrivateKeys /\ files["pub"] \in Pairs
      BY <1>0, <2>3 DEF LoadExisting, FilesOK
    <3>2. now' \in Configs /\ ~now'.done /\ now'.wifi \in Wifis
      BY <1>1, <2>1, <2>2, <2>3, <3>1, WithKeysFacts
    <3>3. RamOK' /\ BoundsOK'
      BY <1>0, <2>1, <2>3, <3>2 DEF RamOK, BoundsOK
    <3>4. ControlOK' /\ PhaseInv' /\ SavesWell(handler'.name, handler'.cfg)
      BY <1>0, <2>1, <2>3, <3>2, ConfigFacts DEF ControlOK, PhaseInv
    <3> QED BY <1>f, <1>h, <2>1, <3>3, <3>4 DEF TypeInv
  <2>4. CASE /\ keys < MaxKeys /\ keys' = keys + 1 /\ UNCHANGED now
             /\ Begin("identity", Generated(now, keys'),
                      PersistKeyPair(Generated(now, keys')))
    <3> DEFINE c == Generated(now, keys')
    <3>1. keys' \in Pairs /\ BoundsOK'
      BY <1>0, <2>1, <2>4, StoreAssumption DEF BoundsOK, Pairs
    <3>2. [pair |-> keys', ec |-> TRUE] \in PrivateKeys
      BY <3>1 DEF PrivateKeys
    <3>3. /\ c \in Configs /\ ~c.done /\ c.auth = "key"
          /\ c.key \in PrivateKeys /\ c.pub \in Pairs /\ c.wifi \in Wifis
      BY <1>1, <2>1, <2>2, <3>1, <3>2, WithKeysFacts DEF Generated
    <3> HIDE DEF c
    <3>4. PersistKeyPair(c) \in Seq(QuietOps)
      BY <3>3, PersistPlan
    <3>5. PersistKeyPair(c) \in Seq(Ops)
      BY <3>4, OpSets, SeqWidens
    <3>6. Begin("identity", c, PersistKeyPair(c))
      BY <2>4 DEF c
    <3>7. SavesWell("identity", c)
      BY <3>3 DEF SavesWell, Writers
    <3>8. RamOK' /\ now' = now /\ HistoryOK' /\ FilesOK(files')
      BY <1>0, <1>h, <2>1, <2>4 DEF RamOK
    <3>9. phase' \in PhaseNames /\ phase' \notin {"off", "load"}
      BY <1>0, <2>1 DEF ControlOK
    <3>10. /\ phase' \in Joined => now'.wifi \in Wifis
           /\ now'.done => now'.wifi \in Wifis /\ now'.dev \in Devices
           /\ phase' # "running" /\ now'.done /\ now'.auth = "key"
                => now'.key \in PrivateKeys
      BY <1>0, <2>1, <3>8 DEF PhaseInv
    <3>11. "identity" \in HandlerNames \ {"none", "boot"}
      BY DEF HandlerNames
    <3> QED BY <3>1, <3>3, <3>5, <3>6, <3>7, <3>8, <3>9, <3>10, <3>11, BeginTypes
  <2>5. CASE UNCHANGED <<now, handler, todo, failed, keys>>
    <3>1. RamOK' /\ BoundsOK'
      BY <1>0, <2>1, <2>5 DEF RamOK, BoundsOK
    <3>2. ControlOK' /\ PhaseInv' /\ SavesWell(handler'.name, handler'.cfg)
      BY <1>0, <2>1, <2>5 DEF ControlOK, PhaseInv
    <3> QED BY <1>f, <1>h, <2>1, <3>1, <3>2 DEF TypeInv
  <2> QED BY <1>7, <2>3, <2>4, <2>5 DEF EnsureIdentity
<1>8. ASSUME NEW w \in Wifis, NEW vendorChanged \in BOOLEAN,
             WifiSave(w, vendorChanged)
      PROVE  TypeInv'
  <2> DEFINE c == [now EXCEPT !.wifi = w, !.done = PreserveDeviceConfig]
             n == IF PreserveDeviceConfig \/ vendorChanged THEN "wifiRestart"
                  ELSE "wifi"
             ops == WriteConfig(c) \o When(wifiReset, <<Rm("wifiReset")>>)
  <2>1. /\ handler = Idle /\ phase \in {"wifiPortal", "wifiJoined", "transition"}
        /\ now' = c /\ phase' \in {"transition", "wifiJoined"}
        /\ Save(n, c, ops) /\ UNCHANGED <<keys, identity>>
    BY <1>8 DEF WifiSave, AtRest
  <2>2. c \in Configs /\ c.wifi = w /\ c.done = PreserveDeviceConfig
        /\ c.dev = now.dev /\ c.auth = now.auth /\ c.key = now.key
    <3>1. PreserveDeviceConfig \in BOOLEAN
      BY <1>0, <1>1, FieldFacts DEF PreserveDeviceConfig, RamOK
    <3> QED BY <1>1, <3>1 DEF Configs
  <2>3. c.done => now.done
    BY <2>2 DEF PreserveDeviceConfig
  <2>4. n \in {"wifi", "wifiRestart"}
    OBVIOUS
  <2> HIDE DEF c, n
  <2>5. Storable(c)
    BY <1>0, <2>2, <2>3 DEF Storable, PhaseInv
  <2>6. ops \in Seq(Ops)
    <3>1. When(wifiReset, <<Rm("wifiReset")>>) \in Seq(Ops)
      BY OpSets DEF When, Names
    <3>2. WriteConfig(c) \in Seq(Ops)
      BY <2>5, WriteConfigPlan, OpSets, SeqWidens
    <3> QED BY <3>1, <3>2, ConcatProperties
  <2> HIDE DEF ops
  <2>7. /\ Begin(n, c, ops) /\ committed' = committed \cup {Stored(c)}
        /\ edits < MaxEdits /\ edits' = edits + 1
        /\ UNCHANGED <<files, edit, wifiReset, identityTried, tunnel, faults,
                       powerLosses, cfgRisk, keyRisk, forgotten>>
    BY <2>1 DEF Save, Serve
  <2>8. RamOK' /\ FilesOK(files')
    BY <1>0, <2>1, <2>2, <2>7 DEF RamOK
  <2>9. BoundsOK'
    BY <1>0, <2>1, <2>7, StoreAssumption DEF BoundsOK
  <2>10. HistoryOK'
    BY <1>0, <2>1, <2>5, <2>7, StoredFacts DEF HistoryOK
  <2>11. SavesWell(n, c)
    BY <2>4, <2>5 DEF SavesWell
  <2>12. n \in HandlerNames \ {"none", "boot"} /\ phase' \in PhaseNames
         /\ phase' \notin {"off", "load"} /\ phase' \in {"wifiJoined", "transition"}
    BY <2>1, <2>4 DEF HandlerNames, PhaseNames
  <2>13. /\ phase' \in Joined => now'.wifi \in Wifis
         /\ now'.done => now'.wifi \in Wifis /\ now'.dev \in Devices
         /\ phase' # "running" /\ now'.done /\ now'.auth = "key"
              => now'.key \in PrivateKeys
    BY <1>0, <2>1, <2>2, <2>3 DEF PhaseInv
  <2> QED BY <2>2, <2>6, <2>7, <2>8, <2>9, <2>10, <2>11, <2>12, <2>13, BeginTypes
<1>9. ASSUME NEW n \in {"device", "managed", "request", "factory"}, NEW c \in Configs,
             NEW ops \in Seq(Ops), Serve(n, c, ops), SavesWell(n, c),
             handler = Idle, phase \notin {"off", "load"}, UNCHANGED <<now, phase>>,
             keys' \in 0..MaxKeys, committed' \subseteq CfgFiles \cup {Absent},
             identity' \subseteq Pairs
      PROVE  TypeInv'
  <2>1. /\ Begin(n, c, ops) /\ edits < MaxEdits /\ edits' = edits + 1
        /\ UNCHANGED <<files, edit, wifiReset, identityTried, tunnel, faults,
                       powerLosses, cfgRisk, keyRisk, forgotten>>
    BY <1>9 DEF Serve
  <2>2. RamOK' /\ FilesOK(files')
    BY <1>0, <1>9, <2>1 DEF RamOK
  <2>3. BoundsOK'
    BY <1>0, <1>9, <2>1, StoreAssumption DEF BoundsOK
  <2>4. HistoryOK'
    BY <1>0, <1>9, <2>1 DEF HistoryOK
  <2>5. /\ phase' \in PhaseNames /\ phase' \notin {"off", "load"}
        /\ n \in HandlerNames \ {"none", "boot"} /\ n \notin {"wifi", "wifiRestart"}
    BY <1>0, <1>9 DEF ControlOK, HandlerNames
  <2>6. /\ phase' \in Joined => now'.wifi \in Wifis
        /\ now'.done => now'.wifi \in Wifis /\ now'.dev \in Devices
        /\ phase' # "running" /\ now'.done /\ now'.auth = "key"
             => now'.key \in PrivateKeys
    BY <1>0, <1>9 DEF PhaseInv
  <2> QED BY <1>9, <2>1, <2>2, <2>3, <2>4, <2>5, <2>6, BeginTypes
<1>10. ASSUME NEW d \in Devices, NEW s \in Submissions, DeviceSave(d, s)
       PROVE  TypeInv'
  <2> DEFINE c == [s EXCEPT !.done = TRUE, !.dev = d]
             first == IF c.auth = "key" THEN SaveKeys(c) ELSE <<Rm("key"), Rm("pub")>>
             ops == (first \o WriteConfig(c)) \o <<Rm("edit")>>
  <2>1. /\ handler = Idle /\ phase = "devicePortal"
        /\ Save("device", c, ops) /\ UNCHANGED <<now, phase>>
        /\ keys' = IF c.auth = "key" /\ c.key # now.key THEN keys + 1 ELSE keys
        /\ identity' = IF c.auth = "key" /\ identity # {}
                       THEN identity \cup {c.key.pair} ELSE {}
    BY <1>10 DEF DeviceSave, AtRest
  <2>2. now.wifi \in Wifis
    BY <1>0, <2>1 DEF PhaseInv, Joined
  <2>3. /\ c \in Configs /\ Storable(c) /\ c.done
        /\ c.auth = s.auth /\ c.key = s.key /\ c.pub = s.pub
    BY <1>1, <2>2, DeviceConfigFacts
  <2> HIDE DEF c
  <2>4. \/ c.auth = "password" /\ c.key = Absent /\ c.pub = Absent
        \/ /\ c.auth = "key" /\ keys + 1 \in Pairs
           /\ c.key \in PrivateKeys /\ c.key.pair = keys + 1
           /\ c.pub \in {keys + 1, Absent}
        \/ /\ c.auth = "key" /\ now.auth = "key" /\ c.key = now.key
           /\ now.key \in PrivateKeys /\ c.pub \in {now.pub, now.key.pair}
    BY <1>1, <2>3, SubmissionFacts
  <2>5. keys' \in 0..MaxKeys
    <3>1. CASE keys' = keys
      BY <1>0, <3>1 DEF BoundsOK
    <3>2. CASE keys' = keys + 1 /\ c.auth = "key" /\ c.key # now.key
      <4>1. keys + 1 \in Pairs
        BY <2>4, <3>2
      <4> QED BY <3>2, <4>1, StoreAssumption DEF Pairs
    <3> QED BY <2>1, <3>1, <3>2
  <2>6. c.auth = "key" => c.key \in PrivateKeys
    BY <2>4
  <2>7. identity' \subseteq Pairs
    <3>1. c.auth = "key" => c.key.pair \in Pairs
      BY <2>6, PrivateKeyFacts
    <3> QED BY <1>0, <2>1, <3>1 DEF HistoryOK
  <2>8. ops \in Seq(Ops)
    <3>1. first \in Seq(QuietOps)
      <4>1. CASE c.auth = "key"
        <5>1. c.pub \in Pairs \cup {Absent} /\ c.key \in PrivateKeys
          BY <2>3, <2>6, <4>1, FieldFacts
        <5>2. <<>> \in Seq(Ops)
          OBVIOUS
        <5>3. SaveKeys(c) \in Seq(QuietOps)
          BY <5>1, <5>2, SaveKeysPlan
        <5> QED BY <4>1, <5>3
      <4>2. CASE c.auth # "key"
        BY <4>2, KeyOpFacts, OpSets
      <4> QED BY <4>1, <4>2
    <3>2. first \in Seq(Ops)
      BY <3>1, OpSets, SeqWidens
    <3>3. WriteConfig(c) \in Seq(Ops)
      BY <2>3, WriteConfigPlan, OpSets, SeqWidens
    <3>4. <<Rm("edit")>> \in Seq(Ops)
      BY OpSets DEF Names
    <3> HIDE DEF first
    <3>5. first \o WriteConfig(c) \in Seq(Ops)
      BY <3>2, <3>3, ConcatProperties
    <3> QED BY <3>4, <3>5, ConcatProperties
  <2> HIDE DEF ops
  <2>9. Serve("device", c, ops) /\ committed' \subseteq CfgFiles \cup {Absent}
    BY <1>0, <2>1, <2>3, StoredFacts DEF Save, HistoryOK
  <2>10. SavesWell("device", c)
    BY <2>3, <2>4 DEF SavesWell
  <2> QED BY <1>9, <2>1, <2>3, <2>5, <2>7, <2>8, <2>9, <2>10
<1>11. ASSUME NEW d \in Devices, ManagedSave(d)
       PROVE  TypeInv'
  <2> DEFINE c == [now EXCEPT !.done = TRUE, !.dev = d]
  <2>1. /\ handler = Idle
        /\ phase \in {"running", "paused", "wifiJoined", "transition", "devicePortal"}
        /\ Save("managed", c, WriteConfig(c)) /\ now.auth = "key"
        /\ UNCHANGED <<now, phase, keys, identity>>
    BY <1>11 DEF ManagedSave, AtRest
  <2>2. c \in Configs /\ c.wifi = now.wifi /\ c.dev = d /\ c.done /\ c.auth = now.auth
    BY <1>1 DEF Configs
  <2> HIDE DEF c
  <2>3. Storable(c)
    BY <1>0, <2>1, <2>2 DEF Storable, PhaseInv, Joined
  <2>4. WriteConfig(c) \in Seq(Ops)
    BY <2>3, WriteConfigPlan, OpSets, SeqWidens
  <2>5. Serve("managed", c, WriteConfig(c)) /\ committed' \subseteq CfgFiles \cup {Absent}
    BY <1>0, <2>1, <2>3, StoredFacts DEF Save, HistoryOK
  <2>6. SavesWell("managed", c)
    BY <2>1, <2>2, <2>3 DEF SavesWell
  <2>7. keys' \in 0..MaxKeys /\ identity' \subseteq Pairs
    BY <1>0, <2>1 DEF BoundsOK, HistoryOK
  <2> QED BY <1>9, <2>1, <2>2, <2>4, <2>5, <2>6, <2>7
<1>12. CASE RequestEdit \/ RequestWifiReset
  <2>1. /\ handler = Idle /\ phase \notin {"off", "load"}
        /\ UNCHANGED <<now, phase, keys, committed, identity>>
        /\ \/ Serve("request", now, <<Put("edit", "1", <<>>)>>)
           \/ Serve("request", now, <<Put("wifiReset", "1", <<>>), Rm("edit")>>)
    BY <1>12 DEF RequestEdit, RequestWifiReset, AtRest
  <2>2. Put("edit", "1", <<>>) \in Ops /\ Put("wifiReset", "1", <<>>) \in Ops
    BY DEF Ops, MarkOps, PutOps, Put
  <2>3. /\ <<Put("edit", "1", <<>>)>> \in Seq(Ops)
        /\ <<Put("wifiReset", "1", <<>>), Rm("edit")>> \in Seq(Ops)
    BY <2>2, OpSets DEF Names
  <2>4. SavesWell("request", now)
    BY DEF SavesWell, Writers
  <2>5. /\ keys' \in 0..MaxKeys /\ identity' \subseteq Pairs
        /\ committed' \subseteq CfgFiles \cup {Absent}
    BY <1>0, <2>1 DEF BoundsOK, HistoryOK
  <2> QED BY <1>1, <1>9, <2>1, <2>3, <2>4, <2>5
<1>13. CASE FactoryReset
  <2>1. /\ handler = Idle /\ phase \notin {"off", "load"}
        /\ Serve("factory", now, Wipe) /\ UNCHANGED <<now, phase, keys>>
        /\ committed' = committed \cup {Absent, files["cfgBak"]} /\ identity' = {}
    BY <1>13 DEF FactoryReset, AtRest
  <2>2. Wipe \in Seq(Ops)
    BY WipePlan, OpSets, SeqWidens
  <2>3. SavesWell("factory", now)
    BY DEF SavesWell, Writers
  <2>4. /\ keys' \in 0..MaxKeys /\ identity' \subseteq Pairs
        /\ committed' \subseteq CfgFiles \cup {Absent}
    BY <1>0, <2>1 DEF BoundsOK, HistoryOK, FilesOK
  <2> QED BY <1>1, <1>9, <2>1, <2>2, <2>3, <2>4
<1>14. ASSUME todo # <<>>, UNCHANGED <<phase, handler>>, UNCHANGED ram,
              FilesOK(files'), todo' \in Seq(Ops), failed' \in BOOLEAN,
              BoundsOK', HistoryOK'
       PROVE  TypeInv'
  <2>1. ControlOK' /\ PhaseInv' /\ SavesWell(handler'.name, handler'.cfg)
    BY <1>0, <1>14 DEF ControlOK, PhaseInv, ram
  <2> QED BY <1>r, <1>14, <2>1 DEF TypeInv
<1>15. CASE FileOp
  <2>1. /\ todo # <<>> /\ files' = Done(files, Head(todo)) /\ todo' = Tail(todo)
        /\ UNCHANGED <<phase, handler, failed>>
        /\ UNCHANGED ram /\ UNCHANGED bounds /\ UNCHANGED history
    BY <1>15 DEF FileOp
  <2>2. Head(todo) \in Ops /\ Tail(todo) \in Seq(Ops)
    BY <1>1, <2>1, FirstStep
  <2>3. FilesOK(files')
    BY <1>0, <2>1, <2>2, DoneTyped
  <2>4. failed' \in BOOLEAN
    BY <1>0, <2>1 DEF ControlOK
  <2> QED BY <1>b, <1>h, <1>14, <2>1, <2>2, <2>3, <2>4
<1>16. CASE FileOpFails
  <2> DEFINE o == Head(todo)
  <2>1. /\ todo # <<>> /\ faults < MaxFaults /\ faults' = faults + 1
        /\ todo' = IF o.op \in {"put", "mv"} THEN o.undo ELSE Tail(todo)
        /\ identity' \in {{}, identity}
        /\ UNCHANGED <<files, phase, handler, keys, edits, powerLosses, committed,
                       forgotten>>
        /\ UNCHANGED ram
    BY <1>16 DEF FileOpFails
  <2>2. failed' \in BOOLEAN /\ cfgRisk' \in BOOLEAN /\ keyRisk' \in BOOLEAN
    BY <1>16 DEF FileOpFails
  <2>3. o \in Ops /\ Tail(todo) \in Seq(Ops)
    BY <1>1, <2>1, FirstStep
  <2>4. o.op \in {"put", "mv"} => o.undo \in Seq(UndoOps)
    BY <2>3 DEF Ops, UndoOps, CfgOps, KeyOps, MarkOps, RmOps, PutOps, MvOps,
                RestoreCfg, Restore
  <2> HIDE DEF o
  <2>5. todo' \in Seq(Ops)
    BY <2>1, <2>3, <2>4, OpSets, SeqWidens
  <2>6. BoundsOK'
    BY <1>0, <2>1, StoreAssumption DEF BoundsOK
  <2>7. HistoryOK'
    BY <1>0, <2>1, <2>2 DEF HistoryOK
  <2> QED BY <1>f, <1>14, <2>1, <2>2, <2>5, <2>6, <2>7
<1>17. CASE ShortWrite
  <2>1. /\ todo # <<>> /\ faults < MaxFaults /\ faults' = faults + 1
        /\ Head(todo).file = "cfgTmp" /\ Head(todo).op = "put"
        /\ todo' = Tail(todo) /\ cfgRisk' = TRUE /\ identity' = {}
        /\ UNCHANGED <<phase, handler, failed, keys, edits, powerLosses, committed,
                       keyRisk, forgotten>>
        /\ UNCHANGED ram
    BY <1>17 DEF ShortWrite
  <2>2. Head(todo) \in Ops /\ Tail(todo) \in Seq(Ops)
    BY <1>1, <2>1, FirstStep
  <2>3. Head(todo).content \in CfgFiles
    BY <2>1, <2>2 DEF Ops, UndoOps, CfgOps, KeyOps, MarkOps, RmOps, PutOps, MvOps,
                      RestoreCfg, Restore
  <2>4. PICK x \in ShortWrites(Head(todo).content) :
          files' = [files EXCEPT !["cfgTmp"] = x]
    BY <1>17 DEF ShortWrite
  <2>5. x \in CfgFiles
    <3>1. Head(todo).content.wifi \in Wifis \cup {Absent}
      BY <2>3 DEF CfgFiles
    <3>2. PICK w \in Wifis \cup {Absent} :
            x = [done |-> FALSE, wifi |-> w, dev |-> Absent, auth |-> "password"]
      BY <2>4, <3>1 DEF ShortWrites
    <3> QED BY <3>2 DEF CfgFiles
  <2>6. FilesOK(files')
    BY <1>0, <2>4, <2>5 DEF FilesOK, Names
  <2>7. BoundsOK'
    BY <1>0, <2>1, StoreAssumption DEF BoundsOK
  <2>8. HistoryOK' /\ failed' \in BOOLEAN
    BY <1>0, <2>1 DEF HistoryOK, ControlOK
  <2> QED BY <1>14, <2>1, <2>2, <2>6, <2>7, <2>8
<1>18. ASSUME Returns(Writers), Stores, UNCHANGED forgotten PROVE HistoryOK'
  <2>1. handler.name \in Writers /\ Storable(handler.cfg)
    BY <1>0, <1>18 DEF Returns, SavesWell
  <2>2. committed' \subseteq CfgFiles \cup {Absent}
    BY <1>18, <2>1, StoredFacts DEF Stores
  <2>3. identity' \subseteq Pairs
    <3>1. handler.name = "device" /\ handler.cfg.auth = "key"
            => handler.cfg.key.pair \in Pairs
      BY <1>0, PrivateKeyFacts DEF SavesWell
    <3>2. files["key"] # Absent => files["key"].pair \in Pairs
      BY <1>0, PrivateKeyFacts DEF FilesOK
    <3>3. identity \subseteq Pairs
      BY <1>0 DEF HistoryOK
    <3>4. \/ identity' = {}
          \/ /\ handler.name = "device" /\ handler.cfg.auth = "key"
             /\ identity' = {handler.cfg.key.pair}
          \/ files["key"] # Absent /\ identity' = {files["key"].pair}
          \/ identity' = identity
      BY <1>18 DEF Stores
    <3> QED BY <3>1, <3>2, <3>3, <3>4
  <2>4. cfgRisk' \in BOOLEAN /\ keyRisk' \in BOOLEAN
    BY <1>18 DEF Stores
  <2> QED BY <1>0, <1>18, <2>2, <2>3, <2>4 DEF HistoryOK
<1>19. CASE SavedAndRestart
  <2>1. Returns(Writers) /\ Stores /\ Reset /\ UNCHANGED files /\ UNCHANGED bounds
        /\ UNCHANGED forgotten
    BY <1>19 DEF SavedAndRestart, Returns, Writers
  <2> QED BY <1>f, <1>b, <1>18, <2>1, ResetTypes
<1>20. CASE SavedAndContinue
  <2>1. /\ Returns(Writers) /\ Stores /\ handler.name = "wifi"
        /\ handler' = Idle /\ phase' = "transition" /\ wifiReset' = FALSE
        /\ UNCHANGED <<files, now, todo, failed, edit, identityTried, tunnel, forgotten>>
        /\ UNCHANGED bounds /\ todo = <<>>
    BY <1>20 DEF SavedAndContinue, Returns, Writers
  <2>2. RamOK' /\ HistoryOK'
    BY <1>0, <1>18, <2>1 DEF RamOK
  <2>3. ControlOK'
    BY <1>0, <2>1, ConfigFacts DEF ControlOK, PhaseNames
  <2>4. PhaseInv'
    <3>1. now.wifi \in Wifis
      BY <1>0, <2>1 DEF PhaseInv, Joined
    <3> QED BY <1>0, <2>1, <3>1, ConfigFacts DEF PhaseInv
  <2>5. SavesWell(handler'.name, handler'.cfg)
    BY <2>1, ConfigFacts DEF SavesWell, Writers
  <2> QED BY <1>f, <1>b, <2>1, <2>2, <2>3, <2>4, <2>5 DEF TypeInv
<1>21. CASE SaveFailed
  <2>1. /\ handler.name # "boot" /\ todo = <<>>
        /\ handler' = Idle /\ failed' = FALSE
        /\ UNCHANGED <<files, phase, todo>> /\ UNCHANGED ram
        /\ UNCHANGED bounds /\ UNCHANGED history
    BY <1>21 DEF SaveFailed, Returns
  <2>2. ControlOK'
    BY <1>0, <2>1, ConfigFacts DEF ControlOK
  <2>3. PhaseInv'
    BY <1>0, <2>1, ConfigFacts DEF PhaseInv, ram
  <2>4. SavesWell(handler'.name, handler'.cfg)
    BY <2>1, ConfigFacts DEF SavesWell, Writers
  <2> QED BY <1>f, <1>r, <1>b, <1>h, <2>1, <2>2, <2>3, <2>4 DEF TypeInv
<1>22. CASE IdentityReady
  <2>1. /\ handler.name = "identity" /\ todo = <<>> /\ now' = handler.cfg
        /\ handler' = Idle
        /\ UNCHANGED <<files, edit, wifiReset, identityTried, tunnel, phase, todo,
                       failed>>
        /\ UNCHANGED bounds /\ UNCHANGED history
    BY <1>22 DEF IdentityReady, Returns
  <2>2. RamOK'
    BY <1>0, <1>1, <2>1 DEF RamOK
  <2>3. ControlOK'
    BY <1>0, <2>1, ConfigFacts DEF ControlOK
  <2>4. PhaseInv'
    BY <1>0, <2>1, ConfigFacts DEF PhaseInv, SavesWell
  <2>5. SavesWell(handler'.name, handler'.cfg)
    BY <2>1, ConfigFacts DEF SavesWell, Writers
  <2> QED BY <1>f, <1>b, <1>h, <2>1, <2>2, <2>3, <2>4, <2>5 DEF TypeInv
<1>23. CASE RequestStored
  BY <1>f, <1>b, <1>h, <1>23, ResetTypes DEF RequestStored
<1>24. CASE Wiped
  <2>1. /\ Reset /\ UNCHANGED files /\ UNCHANGED bounds
        /\ forgotten' \in {forgotten, 1..keys}
        /\ UNCHANGED <<committed, cfgRisk, identity, keyRisk>>
    BY <1>24 DEF Wiped
  <2>2. 1..keys \subseteq Pairs
    BY <1>0, StoreAssumption DEF BoundsOK, Pairs
  <2>3. HistoryOK'
    BY <1>0, <2>1, <2>2 DEF HistoryOK
  <2> QED BY <1>f, <1>b, <2>1, <2>3, ResetTypes
<1>25. CASE PowerLoss
  <2>1. /\ Reset /\ UNCHANGED files /\ powerLosses < MaxPowerLoss
        /\ powerLosses' = powerLosses + 1 /\ identity' \in {{}, identity}
        /\ UNCHANGED <<keys, edits, faults, committed, cfgRisk, forgotten>>
    BY <1>25 DEF PowerLoss
  <2>2. keyRisk' \in BOOLEAN
    BY <1>25 DEF PowerLoss
  <2>3. BoundsOK'
    BY <1>0, <2>1, StoreAssumption DEF BoundsOK
  <2>4. HistoryOK'
    BY <1>0, <2>1, <2>2 DEF HistoryOK
  <2> QED BY <1>f, <2>1, <2>3, <2>4, ResetTypes
<1>26. CASE UNCHANGED vars
  <2>1. /\ UNCHANGED files /\ UNCHANGED ram /\ UNCHANGED bounds /\ UNCHANGED history
        /\ UNCHANGED control
    BY <1>26 DEF vars
  <2>2. ControlOK' /\ PhaseInv' /\ SavesWell(handler'.name, handler'.cfg)
    BY <1>0, <2>1 DEF ControlOK, PhaseInv, control, ram
  <2> QED BY <1>f, <1>r, <1>b, <1>h, <2>1, <2>2 DEF TypeInv
<1> QED
  BY <1>2, <1>3, <1>4, <1>5, <1>6, <1>7, <1>8, <1>10, <1>11, <1>12, <1>13, <1>15,
     <1>16, <1>17, <1>19, <1>20, <1>21, <1>22, <1>23, <1>24, <1>25, <1>26 DEF Next

\* Types hold, and every plan consists of the operations of the code.
THEOREM StoreTypeCorrect == Spec => []TypeOK
<1>1. Spec => []TypeInv
  BY InitTypes, TypeStep, PTL DEF Spec
<1> QED BY <1>1, TypeInvTypes, PTL

-----------------------------------------------------------------------------
\* The configuration file: how far writeConfig has come and what a boot finds.

BootOf(fs) == IF fs["cfg"] # Absent THEN fs["cfg"] ELSE fs["cfgBak"]

\* Between two saves there is a file to boot from, and the backup is not it.
Settled(fs, cm) ==
  BootOf(fs) \in cm /\ (fs["cfg"] = Absent => fs["cfgBak"] = Absent)

\* The only copy is the backup.
OnlyBackup(fs, cm) == fs["cfg"] = Absent /\ fs["cfgBak"] \in cm

\* What is left of writeConfig(c) and what the files hold by then, step by step
\* for a device that had a file and for one that had none.
Writing(w, fs, c, cm) ==
  \/ /\ fs["cfg"] # Absent /\ Settled(fs, cm)
     /\ \/ w = <<PutNew(c), RmBak, MvOld, MvNewOver, RmBak>>
        \/ /\ fs["cfgTmp"] = Stored(c)
           /\ w \in {<<RmBak, MvOld, MvNewOver, RmBak>>, <<MvOld, MvNewOver, RmBak>>}
  \/ /\ OnlyBackup(fs, cm) /\ fs["cfgTmp"] = Stored(c)
     /\ w = <<MvNewOver, RmBak>>
  \/ /\ fs["cfg"] = Absent /\ Settled(fs, cm)
     /\ \/ w = <<PutNew(c), RmBak, MvNewFirst, RmBak>>
        \/ /\ fs["cfgTmp"] = Stored(c)
           /\ w \in {<<RmBak, MvNewFirst, RmBak>>, <<MvNewFirst, RmBak>>}
  \/ fs["cfg"] = Stored(c) /\ w \in {<<RmBak>>, <<>>}

\* What is left of a handler that tidies up after a failed write.
TidyOps == QuietOps \cup {Rm("cfgTmp")}
Tidying(td, fs, cm) ==
  \/ td \in Seq(TidyOps) /\ Settled(fs, cm)
  \/ td = <<RestoreCfg, Rm("cfgTmp")>> /\ OnlyBackup(fs, cm)

\* What is left of loadConfig's repair.
Repairing(td, fs, cm) ==
  \/ td = <<RestoreCfg>> /\ OnlyBackup(fs, cm)
  \/ td = <<RmBak>> /\ fs["cfg"] # Absent /\ Settled(fs, cm)
  \/ td = <<>> /\ Settled(fs, cm)

CfgStage ==
  /\ handler.name \in Writers /\ ~failed =>
       \E k \in Seq(QuietOps), w \in Seq(Ops), e \in Seq(QuietOps) :
         /\ todo = k \o (w \o e) /\ Writing(w, files, handler.cfg, committed)
         /\ k # <<>> => Settled(files, committed)
  /\ handler.name \in Writers /\ failed => Tidying(todo, files, committed)
  /\ handler.name = "boot" => Repairing(todo, files, committed)
  /\ handler.name = "factory" =>
       todo \in Seq(RmOps) /\ {Absent, files["cfg"], files["cfgBak"]} \subseteq committed
  /\ handler.name \in {"none", "request", "identity"} =>
       /\ todo \in Seq(QuietOps) /\ BootOf(files) \in committed
       /\ phase # "off" => Settled(files, committed)

CfgInv ==
  /\ cfgRisk \/ CfgStage
  /\ handler.name \in Writers => Stored(handler.cfg) \in committed

LEMMA QuietDone ==
  ASSUME NEW fs, FilesOK(fs), NEW o \in TidyOps
  PROVE  /\ o \in Ops /\ o.op \in {"rm", "put", "mv"}
         /\ Done(fs, o)["cfg"] = fs["cfg"] /\ Done(fs, o)["cfgBak"] = fs["cfgBak"]
         /\ o \in QuietOps => Done(fs, o)["cfgTmp"] = fs["cfgTmp"]
         /\ o \in QuietOps /\ o.op # "rm" => o.undo \in Seq(QuietRm)
         /\ o = Rm("cfgTmp") => o.op = "rm"
<1>0. DOMAIN fs = Names
  BY DEF FilesOK
<1>1. CASE o \in QuietRm \cup {Rm("cfgTmp")}
  <2>1. o \in Ops /\ o.op = "rm" /\ o.file \in Names
    BY <1>1, OpSets DEF QuietRm, Rm, Names
  <2>2. \A g \in Names : Done(fs, o)[g] = IF g = o.file THEN Absent ELSE fs[g]
    BY <1>0, <2>1, DoneFacts
  <2>3. o.file \notin {"cfg", "cfgBak"} /\ (o \in QuietRm => o.file # "cfgTmp")
    BY <1>1 DEF QuietRm, Rm, CfgNames
  <2>4. o \in QuietOps => o \in QuietRm
    BY <1>1, <2>1 DEF QuietOps, KeyOps, MarkOps, PutOps, MvOps
  <2> QED BY <2>1, <2>2, <2>3, <2>4 DEF Names
<1>2. CASE o \in KeyOps \cup MarkOps /\ o.undo \in Seq(QuietRm)
  <2>1. o \in Ops
    BY <1>2 DEF Ops
  <2>2. /\ o.op \in {"put", "mv"} /\ o.file \notin CfgNames /\ o.file \in Names
        /\ o.op = "mv" => o.to \notin CfgNames
    BY <1>2 DEF KeyOps, MarkOps, PutOps, MvOps, CfgNames, Names
  <2>3. \A g \in CfgNames : Done(fs, o)[g] = fs[g]
    <3>1. \A g \in CfgNames : g \in Names
      BY DEF CfgNames, Names
    <3> QED BY <1>0, <2>1, <2>2, <3>1, DoneFacts
  <2>4. o # Rm("cfgTmp")
    BY <2>2 DEF Rm
  <2> QED BY <1>2, <2>1, <2>2, <2>3, <2>4 DEF CfgNames
<1> QED BY <1>1, <1>2 DEF TidyOps, QuietOps

\* The files after each operation of writeConfig and of loadConfig.
LEMMA CfgDone ==
  ASSUME NEW fs, FilesOK(fs), NEW c, Storable(c)
  PROVE  /\ LET gs == Done(fs, PutNew(c))
            IN  /\ gs["cfgTmp"] = Stored(c)
                /\ gs["cfg"] = fs["cfg"] /\ gs["cfgBak"] = fs["cfgBak"]
         /\ LET gs == Done(fs, RmBak)
            IN  /\ gs["cfgBak"] = Absent
                /\ gs["cfg"] = fs["cfg"] /\ gs["cfgTmp"] = fs["cfgTmp"]
         /\ LET gs == Done(fs, MvOld)
            IN  /\ gs["cfg"] = Absent /\ gs["cfgBak"] = fs["cfg"]
                /\ gs["cfgTmp"] = fs["cfgTmp"]
         /\ \A m \in {MvNewOver, MvNewFirst} :
              Done(fs, m)["cfg"] = fs["cfgTmp"] /\ Done(fs, m)["cfgBak"] = fs["cfgBak"]
         /\ LET gs == Done(fs, RestoreCfg)
            IN  gs["cfg"] = fs["cfgBak"] /\ gs["cfgBak"] = Absent
<1>0. DOMAIN fs = Names
  BY DEF FilesOK
<1>1. /\ Done(fs, PutNew(c)) = [fs EXCEPT !["cfgTmp"] = Stored(c)]
      /\ Done(fs, RmBak) = [fs EXCEPT !["cfgBak"] = Absent]
  BY DEF Done, PutNew, Put, RmBak, Rm
<1>2. /\ Done(fs, MvOld) = [fs EXCEPT !["cfgBak"] = fs["cfg"], !["cfg"] = Absent]
      /\ Done(fs, RestoreCfg) = [fs EXCEPT !["cfg"] = fs["cfgBak"], !["cfgBak"] = Absent]
  BY DEF Done, MvOld, Mv, RestoreCfg, Restore
<1>3. /\ Done(fs, MvNewOver) = [fs EXCEPT !["cfg"] = fs["cfgTmp"], !["cfgTmp"] = Absent]
      /\ Done(fs, MvNewFirst) = [fs EXCEPT !["cfg"] = fs["cfgTmp"], !["cfgTmp"] = Absent]
  BY DEF Done, MvNewOver, MvNewFirst, Mv
<1> QED BY <1>0, <1>1, <1>2, <1>3 DEF Names

\* The next operation of writeConfig succeeds.
LEMMA WritingStep ==
  ASSUME NEW fs, FilesOK(fs), NEW c, Storable(c), NEW cm, Stored(c) \in cm,
         NEW w, w # <<>>, Writing(w, fs, c, cm)
  PROVE  Writing(Tail(w), Done(fs, Head(w)), c, cm)
<1> DEFINE gs == Done(fs, Head(w))
<1>0. Stored(c) # Absent
  BY StoredFacts
<1>1. CASE w = <<PutNew(c), RmBak, MvOld, MvNewOver, RmBak>>
           /\ fs["cfg"] # Absent /\ Settled(fs, cm)
  <2>1. Head(w) = PutNew(c) /\ Tail(w) = <<RmBak, MvOld, MvNewOver, RmBak>>
    BY <1>1
  <2>2. gs["cfgTmp"] = Stored(c) /\ gs["cfg"] = fs["cfg"] /\ gs["cfgBak"] = fs["cfgBak"]
    BY <2>1, CfgDone
  <2> QED BY <1>1, <2>1, <2>2 DEF Writing, Settled, BootOf
<1>2. CASE w = <<RmBak, MvOld, MvNewOver, RmBak>>
           /\ fs["cfg"] # Absent /\ Settled(fs, cm) /\ fs["cfgTmp"] = Stored(c)
  <2>1. Head(w) = RmBak /\ Tail(w) = <<MvOld, MvNewOver, RmBak>>
    BY <1>2
  <2>2. gs["cfgBak"] = Absent /\ gs["cfg"] = fs["cfg"] /\ gs["cfgTmp"] = fs["cfgTmp"]
    BY <2>1, CfgDone
  <2> QED BY <1>2, <2>1, <2>2 DEF Writing, Settled, BootOf
<1>3. CASE w = <<MvOld, MvNewOver, RmBak>>
           /\ fs["cfg"] # Absent /\ Settled(fs, cm) /\ fs["cfgTmp"] = Stored(c)
  <2>1. Head(w) = MvOld /\ Tail(w) = <<MvNewOver, RmBak>>
    BY <1>3
  <2>2. gs["cfgBak"] = fs["cfg"] /\ gs["cfg"] = Absent /\ gs["cfgTmp"] = fs["cfgTmp"]
    BY <2>1, CfgDone
  <2> QED BY <1>3, <2>1, <2>2 DEF Writing, Settled, OnlyBackup, BootOf
<1>4. CASE w = <<MvNewOver, RmBak>> /\ OnlyBackup(fs, cm) /\ fs["cfgTmp"] = Stored(c)
  <2>1. Head(w) = MvNewOver /\ Tail(w) = <<RmBak>>
    BY <1>4
  <2>2. gs["cfg"] = fs["cfgTmp"]
    BY <2>1, CfgDone
  <2> QED BY <1>4, <2>1, <2>2 DEF Writing
<1>5. CASE w = <<PutNew(c), RmBak, MvNewFirst, RmBak>>
           /\ fs["cfg"] = Absent /\ Settled(fs, cm)
  <2>1. Head(w) = PutNew(c) /\ Tail(w) = <<RmBak, MvNewFirst, RmBak>>
    BY <1>5
  <2>2. gs["cfgTmp"] = Stored(c) /\ gs["cfg"] = fs["cfg"] /\ gs["cfgBak"] = fs["cfgBak"]
    BY <2>1, CfgDone
  <2> QED BY <1>5, <2>1, <2>2 DEF Writing, Settled, BootOf
<1>6. CASE w = <<RmBak, MvNewFirst, RmBak>>
           /\ fs["cfg"] = Absent /\ Settled(fs, cm) /\ fs["cfgTmp"] = Stored(c)
  <2>1. Head(w) = RmBak /\ Tail(w) = <<MvNewFirst, RmBak>>
    BY <1>6
  <2>2. gs["cfgBak"] = Absent /\ gs["cfg"] = fs["cfg"] /\ gs["cfgTmp"] = fs["cfgTmp"]
    BY <2>1, CfgDone
  <2> QED BY <1>6, <2>1, <2>2 DEF Writing, Settled, BootOf
<1>7. CASE w = <<MvNewFirst, RmBak>>
           /\ fs["cfg"] = Absent /\ Settled(fs, cm) /\ fs["cfgTmp"] = Stored(c)
  <2>1. Head(w) = MvNewFirst /\ Tail(w) = <<RmBak>>
    BY <1>7
  <2>2. gs["cfg"] = fs["cfgTmp"]
    BY <2>1, CfgDone
  <2> QED BY <1>7, <2>1, <2>2 DEF Writing
<1>8. CASE w = <<RmBak>> /\ fs["cfg"] = Stored(c)
  <2>1. Head(w) = RmBak /\ Tail(w) = <<>>
    BY <1>8
  <2>2. gs["cfg"] = fs["cfg"]
    BY <2>1, CfgDone
  <2> QED BY <1>8, <2>1, <2>2 DEF Writing
<1> QED BY <1>1, <1>2, <1>3, <1>4, <1>5, <1>6, <1>7, <1>8 DEF Writing

\* It fails: an unnoticed removal, or the handler ends.
LEMMA WritingFails ==
  ASSUME NEW fs, FilesOK(fs), NEW c, Storable(c), NEW cm, Stored(c) \in cm,
         NEW w, w # <<>>, Writing(w, fs, c, cm)
  PROVE  \/ Head(w).op = "rm" /\ Writing(Tail(w), fs, c, cm)
         \/ Head(w).op \in {"put", "mv"} /\ Tidying(Head(w).undo, fs, cm)
<1>0. /\ RmBak.op = "rm" /\ PutNew(c).op = "put" /\ MvOld.op = "mv"
      /\ MvNewOver.op = "mv" /\ MvNewFirst.op = "mv"
  BY DEF RmBak, Rm, PutNew, Put, MvOld, MvNewOver, MvNewFirst, Mv
<1>1. /\ PutNew(c).undo \in Seq(TidyOps) /\ MvOld.undo \in Seq(TidyOps)
      /\ MvNewFirst.undo \in Seq(TidyOps)
      /\ MvNewOver.undo = <<RestoreCfg, Rm("cfgTmp")>>
  <2>1. Rm("cfgTmp") \in TidyOps
    BY DEF TidyOps
  <2> QED BY <2>1 DEF PutNew, Put, MvOld, MvNewFirst, MvNewOver, Mv
<1>2. CASE w = <<PutNew(c), RmBak, MvOld, MvNewOver, RmBak>>
           /\ fs["cfg"] # Absent /\ Settled(fs, cm)
  BY <1>0, <1>1, <1>2 DEF Tidying
<1>3. CASE w = <<RmBak, MvOld, MvNewOver, RmBak>>
           /\ fs["cfg"] # Absent /\ Settled(fs, cm) /\ fs["cfgTmp"] = Stored(c)
  <2>1. Head(w) = RmBak /\ Tail(w) = <<MvOld, MvNewOver, RmBak>>
    BY <1>3
  <2> QED BY <1>0, <1>3, <2>1 DEF Writing
<1>4. CASE w = <<MvOld, MvNewOver, RmBak>>
           /\ fs["cfg"] # Absent /\ Settled(fs, cm) /\ fs["cfgTmp"] = Stored(c)
  BY <1>0, <1>1, <1>4 DEF Tidying
<1>5. CASE w = <<MvNewOver, RmBak>> /\ OnlyBackup(fs, cm) /\ fs["cfgTmp"] = Stored(c)
  BY <1>0, <1>1, <1>5 DEF Tidying
<1>6. CASE w = <<PutNew(c), RmBak, MvNewFirst, RmBak>>
           /\ fs["cfg"] = Absent /\ Settled(fs, cm)
  BY <1>0, <1>1, <1>6 DEF Tidying
<1>7. CASE w = <<RmBak, MvNewFirst, RmBak>>
           /\ fs["cfg"] = Absent /\ Settled(fs, cm) /\ fs["cfgTmp"] = Stored(c)
  <2>1. Head(w) = RmBak /\ Tail(w) = <<MvNewFirst, RmBak>>
    BY <1>7
  <2> QED BY <1>0, <1>7, <2>1 DEF Writing
<1>8. CASE w = <<MvNewFirst, RmBak>>
           /\ fs["cfg"] = Absent /\ Settled(fs, cm) /\ fs["cfgTmp"] = Stored(c)
  BY <1>0, <1>1, <1>8 DEF Tidying
<1>9. CASE w = <<RmBak>> /\ fs["cfg"] = Stored(c)
  <2>1. Head(w) = RmBak /\ Tail(w) = <<>>
    BY <1>9
  <2> QED BY <1>0, <1>9, <2>1 DEF Writing
<1> QED BY <1>2, <1>3, <1>4, <1>5, <1>6, <1>7, <1>8, <1>9 DEF Writing

\* Wherever writeConfig stands, a boot finds the old or the new file.
LEMMA WritingBoots ==
  ASSUME NEW fs, NEW c, Storable(c), NEW cm, Stored(c) \in cm,
         NEW w, Writing(w, fs, c, cm)
  PROVE  /\ BootOf(fs) \in cm
         /\ w # <<>> \/ fs["cfg"] = Stored(c)
BY StoredFacts DEF Writing, Settled, OnlyBackup, BootOf

\* A handler that leaves the file alone.
LEMMA CfgAtRest ==
  ASSUME handler'.name \in {"none", "request", "identity"},
         cfgRisk' \/ /\ todo' \in Seq(QuietOps) /\ BootOf(files') \in committed'
                     /\ phase' # "off" => Settled(files', committed')
  PROVE  CfgInv'
BY DEF CfgInv, CfgStage, Writers

\* A handler that begins with other files, then writes c, then tidies up.
LEMMA CfgBegins ==
  ASSUME TypeInv, cfgRisk \/ Settled(files, committed),
         NEW n \in Writers, NEW c, Storable(c),
         NEW k \in Seq(QuietOps), NEW e \in Seq(QuietOps),
         Begin(n, c, k \o (WriteConfig(c) \o e)),
         UNCHANGED <<files, cfgRisk>>, committed' = committed \cup {Stored(c)}
  PROVE  CfgInv'
<1>1. /\ handler'.name = n /\ handler'.cfg = c /\ failed' = FALSE
      /\ todo' = k \o (WriteConfig(c) \o e)
  BY DEF Begin
<1>2. ASSUME ~cfgRisk PROVE CfgStage'
  <2>1. Settled(files', committed')
    BY <1>2 DEF Settled
  <2>2. WriteConfig(c) \in Seq(Ops)
    BY WriteConfigPlan, OpSets, SeqWidens
  <2>3. Writing(WriteConfig(c), files', c, committed')
    BY <2>1, WriteConfigPlan DEF Writing
  <2>4. \E kk \in Seq(QuietOps), w \in Seq(Ops), ee \in Seq(QuietOps) :
          /\ todo' = kk \o (w \o ee) /\ Writing(w, files', handler'.cfg, committed')
          /\ kk # <<>> => Settled(files', committed')
    BY <1>1, <2>1, <2>2, <2>3
  <2>5. n \notin {"boot", "factory", "none", "request", "identity"}
    BY DEF Writers
  <2> QED BY <1>1, <2>4, <2>5 DEF CfgStage
<1> QED BY <1>1, <1>2 DEF CfgInv

\* At every moment a boot finds a committed file.
LEMMA CfgBoots ==
  ASSUME TypeInv, CfgInv
  PROVE  /\ cfgRisk \/ BootOf(files) \in committed
         /\ handler.name = "none" /\ phase # "off"
              => cfgRisk \/ Settled(files, committed)
<1> SUFFICES ASSUME ~cfgRisk
             PROVE  /\ BootOf(files) \in committed
                    /\ handler.name = "none" /\ phase # "off"
                         => Settled(files, committed)
  OBVIOUS
<1>0. CfgStage /\ (handler.name \in Writers => Stored(handler.cfg) \in committed)
  BY DEF CfgInv
<1>1. handler.name \in HandlerNames /\ SavesWell(handler.name, handler.cfg)
  BY DEF TypeInv, ControlOK
<1>2. CASE handler.name \in Writers /\ ~failed
  <2>1. PICK k \in Seq(QuietOps), w \in Seq(Ops), e \in Seq(QuietOps) :
          Writing(w, files, handler.cfg, committed)
    BY <1>0, <1>2 DEF CfgStage
  <2> QED BY <1>0, <1>1, <1>2, <2>1, WritingBoots DEF SavesWell, Writers
<1>3. CASE handler.name \in Writers /\ failed
  BY <1>0, <1>3 DEF CfgStage, Tidying, Settled, OnlyBackup, BootOf, Writers
<1>4. CASE handler.name = "boot"
  BY <1>0, <1>4 DEF CfgStage, Repairing, Settled, OnlyBackup, BootOf
<1>5. CASE handler.name = "factory"
  BY <1>0, <1>5 DEF CfgStage, BootOf
<1>6. CASE handler.name \in {"none", "request", "identity"}
  BY <1>0, <1>6 DEF CfgStage
<1> QED BY <1>1, <1>2, <1>3, <1>4, <1>5, <1>6 DEF HandlerNames, Writers

LEMMA InitCfg == Init => CfgInv
<1> SUFFICES ASSUME Init PROVE CfgInv
  OBVIOUS
<1>1. /\ phase = "off" /\ handler = Idle /\ todo = <<>> /\ committed = {files["cfg"]}
  BY DEF Init
<1>2. files["cfgBak"] = Absent
  <2> DEFINE blank == [f \in Names |-> Absent]
  <2>1. CASE files = blank
    BY <2>1 DEF Names
  <2>2. ASSUME NEW x, files = [blank EXCEPT !["cfg"] = x] PROVE files["cfgBak"] = Absent
    BY <2>2 DEF Names
  <2>3. ASSUME NEW x, NEW y, NEW z,
               files = [blank EXCEPT !["cfg"] = x, !["key"] = y, !["pub"] = z]
        PROVE  files["cfgBak"] = Absent
    BY <2>3 DEF Names
  <2> QED BY <2>1, <2>2, <2>3 DEF Init
<1>3. BootOf(files) \in committed
  BY <1>1, <1>2 DEF BootOf
<1>4. todo \in Seq(QuietOps)
  BY <1>1
<1> QED BY <1>1, <1>3, <1>4, ConfigFacts DEF CfgInv, CfgStage, Writers

\* The next operation of a handler succeeds.
LEMMA CfgFileOp ==
  ASSUME TypeInv, CfgInv, ~cfgRisk, FileOp
  PROVE  CfgStage'
<1>0. /\ CfgStage /\ (handler.name \in Writers => Stored(handler.cfg) \in committed)
      /\ FilesOK(files) /\ handler.name \in HandlerNames /\ todo \in Seq(Ops)
      /\ SavesWell(handler.name, handler.cfg) /\ PhaseInv
  BY DEF CfgInv, TypeInv, ControlOK
<1>1. /\ todo # <<>> /\ files' = Done(files, Head(todo)) /\ todo' = Tail(todo)
      /\ UNCHANGED <<phase, handler, failed, committed>>
  BY DEF FileOp, history
<1>2. CASE handler.name \in Writers /\ ~failed
  <2> DEFINE c == handler.cfg
  <2>1. PICK k \in Seq(QuietOps), w \in Seq(Ops), e \in Seq(QuietOps) :
          /\ todo = k \o (w \o e) /\ Writing(w, files, c, committed)
          /\ k # <<>> => Settled(files, committed)
    BY <1>0, <1>2 DEF CfgStage
  <2>2. Storable(c) /\ Stored(c) \in committed
    BY <1>0, <1>2 DEF SavesWell
  <2>3. k \in Seq(Ops) /\ e \in Seq(Ops) /\ w \o e \in Seq(Ops)
    BY OpSets, SeqWidens, ConcatProperties
  <2>4. SUFFICES \E kk \in Seq(QuietOps), ww \in Seq(Ops), ee \in Seq(QuietOps) :
                   /\ todo' = kk \o (ww \o ee) /\ Writing(ww, files', c, committed)
                   /\ kk # <<>> => Settled(files', committed)
    BY <1>1, <1>2 DEF CfgStage, Writers
  <2> HIDE DEF c
  <2>5. CASE k # <<>>
    <3>1. Head(todo) = Head(k) /\ Tail(todo) = Tail(k) \o (w \o e)
      BY <2>1, <2>3, <2>5, CatStep
    <3>2. Head(k) \in QuietOps /\ Tail(k) \in Seq(QuietOps)
      BY <2>5, FirstStep
    <3>3. /\ files'["cfg"] = files["cfg"] /\ files'["cfgBak"] = files["cfgBak"]
          /\ files'["cfgTmp"] = files["cfgTmp"]
      BY <1>0, <1>1, <3>1, <3>2, QuietDone DEF TidyOps
    <3>4. Writing(w, files', c, committed) /\ Settled(files', committed)
      BY <2>1, <2>5, <3>3 DEF Writing, Settled, OnlyBackup, BootOf
    <3> QED BY <1>1, <3>1, <3>2, <3>4
  <2>6. CASE k = <<>> /\ w # <<>>
    <3>1. todo = w \o e
      BY <2>1, <2>3, <2>6, CatStep
    <3>2. /\ Head(todo) = Head(w) /\ Tail(todo) = Tail(w) \o e
          /\ Tail(w) \in Seq(Ops)
      BY <2>3, <2>6, <3>1, CatStep
    <3>3. Writing(Tail(w), files', c, committed)
      BY <1>0, <1>1, <2>1, <2>2, <2>6, <3>2, WritingStep
    <3>4. Tail(w) \o e \in Seq(Ops)
      BY <2>3, <3>2, ConcatProperties
    <3>5. todo' = <<>> \o (Tail(w) \o e) /\ <<>> \in Seq(QuietOps)
      BY <1>1, <3>2, <3>4, ConcatEmptySeq
    <3> QED BY <3>2, <3>3, <3>5
  <2>7. CASE k = <<>> /\ w = <<>>
    <3>1. todo = e
      BY <2>1, <2>3, <2>7, CatStep
    <3>2. Head(e) \in QuietOps /\ Tail(e) \in Seq(QuietOps)
      BY <1>1, <3>1, FirstStep
    <3>3. files'["cfg"] = files["cfg"]
      BY <1>0, <1>1, <3>1, <3>2, QuietDone DEF TidyOps
    <3>4. files["cfg"] = Stored(c)
      BY <2>1, <2>2, <2>7, WritingBoots
    <3>5. Writing(<<>>, files', c, committed)
      BY <3>3, <3>4 DEF Writing
    <3>6. /\ todo' = <<>> \o (<<>> \o Tail(e)) /\ <<>> \in Seq(QuietOps)
          /\ <<>> \in Seq(Ops)
      BY <1>1, <3>1, <3>2, ConcatEmptySeq
    <3> QED BY <3>2, <3>5, <3>6
  <2> QED BY <2>5, <2>6, <2>7
<1>3. CASE handler.name \in Writers /\ failed
  <2>1. Tidying(todo, files, committed)
    BY <1>0, <1>3 DEF CfgStage
  <2>2. CASE todo \in Seq(TidyOps) /\ Settled(files, committed)
    <3>1. Head(todo) \in TidyOps /\ Tail(todo) \in Seq(TidyOps)
      BY <1>1, <2>2, FirstStep
    <3>2. files'["cfg"] = files["cfg"] /\ files'["cfgBak"] = files["cfgBak"]
      BY <1>0, <1>1, <3>1, QuietDone
    <3>3. Tidying(todo', files', committed')
      BY <1>1, <2>2, <3>1, <3>2 DEF Tidying, Settled, BootOf
    <3> QED BY <1>1, <1>3, <3>3 DEF CfgStage, Writers
  <2>3. CASE todo = <<RestoreCfg, Rm("cfgTmp")>> /\ OnlyBackup(files, committed)
    <3>1. Head(todo) = RestoreCfg /\ Tail(todo) = <<Rm("cfgTmp")>>
      BY <2>3
    <3>2. files'["cfg"] = files["cfgBak"] /\ files'["cfgBak"] = Absent
      BY <1>0, <1>1, <1>3, <3>1, CfgDone DEF SavesWell
    <3>3. <<Rm("cfgTmp")>> \in Seq(TidyOps)
      BY DEF TidyOps
    <3>4. Tidying(todo', files', committed')
      BY <1>1, <2>3, <3>1, <3>2, <3>3 DEF Tidying, Settled, OnlyBackup, BootOf
    <3> QED BY <1>1, <1>3, <3>4 DEF CfgStage, Writers
  <2> QED BY <2>1, <2>2, <2>3 DEF Tidying
<1>4. CASE handler.name = "boot"
  <2>1. Repairing(todo, files, committed)
    BY <1>0, <1>4 DEF CfgStage
  <2>2. CASE todo = <<RestoreCfg>> /\ OnlyBackup(files, committed)
    <3>1. Head(todo) = RestoreCfg /\ Tail(todo) = <<>>
      BY <2>2
    <3>2. files' = [files EXCEPT !["cfg"] = files["cfgBak"], !["cfgBak"] = Absent]
      <4>1. files' = Done(files, RestoreCfg)
        BY <1>1, <3>1
      <4> QED BY <4>1 DEF Done, RestoreCfg, Restore
    <3>3. files'["cfg"] = files["cfgBak"] /\ files'["cfgBak"] = Absent
      BY <1>0, <3>2 DEF FilesOK, Names
    <3>4. Repairing(todo', files', committed')
      BY <1>1, <2>2, <3>1, <3>3 DEF Repairing, Settled, OnlyBackup, BootOf
    <3> QED BY <1>1, <1>4, <3>4 DEF CfgStage, Writers
  <2>3. CASE todo = <<RmBak>> /\ files["cfg"] # Absent /\ Settled(files, committed)
    <3>1. Head(todo) = RmBak /\ Tail(todo) = <<>>
      BY <2>3
    <3>2. files' = [files EXCEPT !["cfgBak"] = Absent]
      <4>1. files' = Done(files, RmBak)
        BY <1>1, <3>1
      <4> QED BY <4>1 DEF Done, RmBak, Rm
    <3>3. files'["cfg"] = files["cfg"]
      BY <1>0, <3>2 DEF FilesOK, Names
    <3>4. Repairing(todo', files', committed')
      BY <1>1, <2>3, <3>1, <3>3 DEF Repairing, Settled, BootOf
    <3> QED BY <1>1, <1>4, <3>4 DEF CfgStage, Writers
  <2> QED BY <1>1, <2>1, <2>2, <2>3 DEF Repairing
<1>5. CASE handler.name = "factory"
  <2>1. todo \in Seq(RmOps) /\ {Absent, files["cfg"], files["cfgBak"]} \subseteq committed
    BY <1>0, <1>5 DEF CfgStage
  <2>2. Head(todo) \in RmOps /\ Tail(todo) \in Seq(RmOps)
    BY <1>1, <2>1, FirstStep
  <2>3. files' = [files EXCEPT ![Head(todo).file] = Absent]
    BY <1>1, <2>2 DEF Done, RmOps
  <2>4. files'["cfg"] \in {Absent, files["cfg"]} /\ files'["cfgBak"] \in {Absent, files["cfgBak"]}
    BY <1>0, <2>3 DEF FilesOK, Names
  <2> QED BY <1>1, <1>5, <2>1, <2>2, <2>4 DEF CfgStage, Writers
<1>6. CASE handler.name \in {"none", "request", "identity"}
  <2>1. /\ todo \in Seq(QuietOps) /\ BootOf(files) \in committed
        /\ phase # "off" => Settled(files, committed)
    BY <1>0, <1>6 DEF CfgStage
  <2>2. Head(todo) \in QuietOps /\ Tail(todo) \in Seq(QuietOps)
    BY <1>1, <2>1, FirstStep
  <2>3. files'["cfg"] = files["cfg"] /\ files'["cfgBak"] = files["cfgBak"]
    BY <1>0, <1>1, <2>2, QuietDone DEF TidyOps
  <2>4. /\ todo' \in Seq(QuietOps) /\ BootOf(files') \in committed'
        /\ phase' # "off" => Settled(files', committed')
    BY <1>1, <2>1, <2>2, <2>3 DEF BootOf, Settled
  <2> QED BY <1>1, <1>6, <2>4 DEF CfgStage, Writers
<1> QED BY <1>0, <1>2, <1>3, <1>4, <1>5, <1>6 DEF HandlerNames, Writers

\* It fails.
LEMMA CfgFileOpFails ==
  ASSUME TypeInv, CfgInv, ~cfgRisk, FileOpFails, ~cfgRisk'
  PROVE  CfgStage'
<1> DEFINE o == Head(todo)
<1>0. /\ CfgStage /\ (handler.name \in Writers => Stored(handler.cfg) \in committed)
      /\ FilesOK(files) /\ handler.name \in HandlerNames /\ todo \in Seq(Ops)
      /\ SavesWell(handler.name, handler.cfg) /\ PhaseInv
  BY DEF CfgInv, TypeInv, ControlOK
<1>1. /\ todo # <<>>
      /\ o.op \in {"put", "mv"} => todo' = o.undo /\ failed' = TRUE
      /\ o.op \notin {"put", "mv"} => /\ todo' = Tail(todo)
                                      /\ handler.name # "factory" => failed' = failed
      /\ o.op # "restore"
      /\ UNCHANGED <<files, phase, handler, committed>>
  <2>1. failed \in BOOLEAN
    BY DEF TypeInv, ControlOK
  <2> QED BY <2>1 DEF FileOpFails
<1> HIDE DEF o
<1>2. ASSUME NEW q \in QuietOps, q.op \in {"put", "mv"}, Settled(files, committed)
      PROVE  Tidying(q.undo, files, committed)
  <2>1. q.undo \in Seq(QuietRm)
    BY <1>2 DEF QuietOps, QuietRm
  <2>2. QuietRm \subseteq TidyOps
    BY OpSets DEF TidyOps
  <2>3. q.undo \in Seq(TidyOps)
    BY <2>1, <2>2, SeqWidens
  <2> QED BY <1>2, <2>3 DEF Tidying
<1>3. CASE handler.name \in Writers /\ ~failed
  <2> DEFINE c == handler.cfg
  <2>1. PICK k \in Seq(QuietOps), w \in Seq(Ops), e \in Seq(QuietOps) :
          /\ todo = k \o (w \o e) /\ Writing(w, files, c, committed)
          /\ k # <<>> => Settled(files, committed)
    BY <1>0, <1>3 DEF CfgStage
  <2>2. Storable(c) /\ Stored(c) \in committed
    BY <1>0, <1>3 DEF SavesWell
  <2>3. k \in Seq(Ops) /\ e \in Seq(Ops) /\ w \o e \in Seq(Ops)
    BY OpSets, SeqWidens, ConcatProperties
  <2>4. ASSUME NEW kk \in Seq(QuietOps), NEW ww \in Seq(Ops), NEW ee \in Seq(QuietOps),
               todo' = kk \o (ww \o ee), Writing(ww, files, c, committed), ~failed',
               kk # <<>> => Settled(files, committed)
        PROVE  CfgStage'
    BY <1>1, <1>3, <2>4 DEF CfgStage, Writers
  <2>5. ASSUME Tidying(todo', files, committed), failed'
        PROVE  CfgStage'
    BY <1>1, <1>3, <2>5 DEF CfgStage, Writers
  <2>n. handler.name # "factory"
    BY <1>3 DEF Writers
  <2> HIDE DEF c
  <2>6. CASE k # <<>>
    <3>1. o = Head(k) /\ Tail(todo) = Tail(k) \o (w \o e)
      BY <2>1, <2>3, <2>6, CatStep DEF o
    <3>2. Head(k) \in QuietOps /\ Tail(k) \in Seq(QuietOps)
      BY <2>6, FirstStep
    <3>3. CASE o.op \notin {"put", "mv"}
      <4>1. todo' = Tail(k) \o (w \o e)
        BY <1>1, <3>1, <3>3
      <4>2. failed' = failed
        BY <1>1, <2>n, <3>3
      <4>3. ~failed'
        BY <1>3, <4>2
      <4> QED BY <2>1, <2>4, <2>6, <3>2, <4>1, <4>3
    <3>4. CASE o.op \in {"put", "mv"}
      BY <1>1, <1>2, <2>1, <2>5, <2>6, <3>1, <3>2, <3>4
    <3> QED BY <3>3, <3>4
  <2>7. CASE k = <<>> /\ w # <<>>
    <3>1. todo = w \o e
      BY <2>1, <2>3, <2>7, CatStep
    <3>2. o = Head(w) /\ Tail(todo) = Tail(w) \o e /\ Tail(w) \in Seq(Ops)
      BY <2>3, <2>7, <3>1, CatStep DEF o
    <3>3. \/ o.op = "rm" /\ Writing(Tail(w), files, c, committed)
          \/ o.op \in {"put", "mv"} /\ Tidying(o.undo, files, committed)
      BY <1>0, <2>1, <2>2, <2>7, <3>2, WritingFails
    <3>4. CASE o.op = "rm" /\ Writing(Tail(w), files, c, committed)
      <4>1. Tail(w) \o e \in Seq(Ops)
        BY <2>3, <3>2, ConcatProperties
      <4>o. o.op \notin {"put", "mv"}
        BY <3>4
      <4>2. todo' = <<>> \o (Tail(w) \o e) /\ <<>> \in Seq(QuietOps)
        <5>1. todo' = Tail(w) \o e
          BY <1>1, <3>2, <4>o
        <5>2. <<>> \o (Tail(w) \o e) = Tail(w) \o e
          BY <4>1, ConcatEmptySeq
        <5> QED BY <5>1, <5>2
      <4>f. failed' = failed
        BY <1>1, <2>n, <4>o
      <4>3. ~failed'
        BY <1>3, <4>f
      <4> QED BY <2>4, <3>2, <3>4, <4>2, <4>3
    <3>5. CASE o.op \in {"put", "mv"} /\ Tidying(o.undo, files, committed)
      BY <1>1, <2>5, <3>5
    <3> QED BY <3>3, <3>4, <3>5
  <2>8. CASE k = <<>> /\ w = <<>>
    <3>1. todo = e
      BY <2>1, <2>3, <2>8, CatStep
    <3>2. o \in QuietOps /\ Tail(e) \in Seq(QuietOps)
      BY <1>1, <3>1, FirstStep DEF o
    <3>3. files["cfg"] = Stored(c)
      BY <2>1, <2>2, <2>8, WritingBoots
    <3>4. CASE o.op \notin {"put", "mv"}
      <4>1. Writing(<<>>, files, c, committed)
        BY <3>3 DEF Writing
      <4>2. /\ todo' = <<>> \o (<<>> \o Tail(e)) /\ <<>> \in Seq(QuietOps)
            /\ <<>> \in Seq(Ops)
        BY <1>1, <3>1, <3>2, <3>4, ConcatEmptySeq
      <4>3. ~failed'
        BY <1>1, <1>3, <2>n, <3>4
      <4> QED BY <2>4, <3>2, <4>1, <4>2, <4>3
    <3>5. CASE o.op \in {"put", "mv"}
      <4>1. Settled(files, committed)
        BY <2>2, <3>3, StoredFacts DEF Settled, BootOf
      <4> QED BY <1>1, <1>2, <2>5, <3>2, <3>5, <4>1
    <3> QED BY <3>4, <3>5
  <2> QED BY <2>6, <2>7, <2>8
<1>4. CASE handler.name \in Writers /\ failed
  <2>1. Tidying(todo, files, committed)
    BY <1>0, <1>4 DEF CfgStage
  <2>2. todo \in Seq(TidyOps) /\ Settled(files, committed)
    <3>1. ASSUME todo = <<RestoreCfg, Rm("cfgTmp")>> PROVE FALSE
      <4>1. o = RestoreCfg
        BY <3>1 DEF o
      <4> QED BY <1>1, <4>1 DEF RestoreCfg, Restore
    <3> QED BY <2>1, <3>1 DEF Tidying
  <2>3. o \in TidyOps /\ Tail(todo) \in Seq(TidyOps)
    BY <1>1, <2>2, FirstStep DEF o
  <2>4. Tidying(todo', files, committed) /\ failed'
    <3>1. CASE o.op \in {"put", "mv"}
      <4>1. o \in QuietOps
        BY <2>3, <3>1 DEF TidyOps, Rm
      <4> QED BY <1>1, <1>2, <2>2, <3>1, <4>1
    <3>2. CASE o.op \notin {"put", "mv"}
      <4>1. handler.name # "factory"
        BY <1>4 DEF Writers
      <4> QED BY <1>1, <1>4, <2>2, <2>3, <3>2, <4>1 DEF Tidying
    <3> QED BY <3>1, <3>2
  <2> QED BY <1>1, <1>4, <2>4 DEF CfgStage, Writers
<1>5. CASE handler.name = "boot"
  <2>1. Repairing(todo, files, committed)
    BY <1>0, <1>5 DEF CfgStage
  <2>2. todo = <<RmBak>> /\ Settled(files, committed)
    <3>1. ASSUME todo = <<RestoreCfg>> PROVE FALSE
      <4>1. o = RestoreCfg
        BY <3>1 DEF o
      <4> QED BY <1>1, <4>1 DEF RestoreCfg, Restore
    <3> QED BY <1>1, <2>1, <3>1 DEF Repairing
  <2>3. o = RmBak /\ Tail(todo) = <<>>
    BY <2>2 DEF o
  <2>4. todo' = <<>>
    BY <1>1, <2>3 DEF RmBak, Rm
  <2>5. Repairing(todo', files', committed')
    BY <1>1, <2>2, <2>4 DEF Repairing
  <2> QED BY <1>1, <1>5, <2>5 DEF CfgStage, Writers
<1>6. CASE handler.name = "factory"
  <2>1. todo \in Seq(RmOps) /\ {Absent, files["cfg"], files["cfgBak"]} \subseteq committed
    BY <1>0, <1>6 DEF CfgStage
  <2>2. o \in RmOps /\ Tail(todo) \in Seq(RmOps)
    BY <1>1, <2>1, FirstStep DEF o
  <2>3. todo' = Tail(todo)
    BY <1>1, <2>2 DEF RmOps
  <2> QED BY <1>1, <1>6, <2>1, <2>2, <2>3 DEF CfgStage, Writers
<1>7. CASE handler.name \in {"none", "request", "identity"}
  <2>1. /\ todo \in Seq(QuietOps) /\ BootOf(files) \in committed
        /\ phase # "off" => Settled(files, committed)
    BY <1>0, <1>7 DEF CfgStage
  <2>2. o \in QuietOps /\ Tail(todo) \in Seq(QuietOps)
    BY <1>1, <2>1, FirstStep DEF o
  <2>3. todo' \in Seq(QuietOps)
    <3>1. CASE o.op \in {"put", "mv"}
      <4>1. o.undo \in Seq(QuietRm)
        BY <2>2, <3>1 DEF QuietOps, QuietRm
      <4> QED BY <1>1, <3>1, <4>1, OpSets, SeqWidens
    <3>2. CASE o.op \notin {"put", "mv"}
      BY <1>1, <2>2, <3>2
    <3> QED BY <3>1, <3>2
  <2> QED BY <1>1, <1>7, <2>1, <2>3 DEF CfgStage, Writers
<1> QED BY <1>0, <1>3, <1>4, <1>5, <1>6, <1>7 DEF HandlerNames, Writers

\* The requests and the plans that leave the configuration file alone.
LEMMA QuietPlans ==
  /\ <<>> \in Seq(QuietOps) /\ <<Rm("edit")>> \in Seq(QuietOps)
  /\ <<Rm("key"), Rm("pub")>> \in Seq(QuietOps)
  /\ \A b \in BOOLEAN : When(b, <<Rm("wifiReset")>>) \in Seq(QuietOps)
  /\ <<Put("edit", "1", <<>>)>> \in Seq(QuietOps)
  /\ <<Put("wifiReset", "1", <<>>), Rm("edit")>> \in Seq(QuietOps)
<1>1. {Rm("edit"), Rm("key"), Rm("pub"), Rm("wifiReset")} \subseteq QuietOps
  BY OpSets DEF Names, CfgNames
<1>2. <<>> \in Seq(QuietRm) /\ <<>> \in Seq(UndoOps)
  OBVIOUS
<1>3. Put("edit", "1", <<>>) \in QuietOps /\ Put("wifiReset", "1", <<>>) \in QuietOps
  BY <1>2 DEF Put, QuietOps, MarkOps, PutOps
<1>4. <<Rm("wifiReset")>> \in Seq(QuietOps) /\ <<>> \in Seq(QuietOps)
  BY <1>1
<1>5. \A b \in BOOLEAN : When(b, <<Rm("wifiReset")>>) \in Seq(QuietOps)
  BY <1>4 DEF When
<1> QED BY <1>1, <1>3, <1>5

\* The configuration that handleWifiSave forms.
LEMMA WifiConfigFacts ==
  ASSUME now \in Configs, wifiReset \in BOOLEAN, NEW w \in Wifis,
         now.done => now.dev \in Devices,
         now' = [now EXCEPT !.wifi = w, !.done = PreserveDeviceConfig]
  PROVE  /\ now' \in Configs /\ Storable(now') /\ now'.wifi = w
         /\ now'.done <=> wifiReset /\ now.done
         /\ now'.dev = now.dev /\ now'.auth = now.auth
         /\ now'.key = now.key /\ now'.pub = now.pub
<1>1. PreserveDeviceConfig \in BOOLEAN
  BY FieldFacts DEF PreserveDeviceConfig
<1>2. /\ now' \in Configs /\ now'.wifi = w /\ now'.done = PreserveDeviceConfig
      /\ now'.dev = now.dev /\ now'.auth = now.auth
      /\ now'.key = now.key /\ now'.pub = now.pub
  BY <1>1 DEF Configs
<1>3. now'.done <=> wifiReset /\ now.done
  BY <1>2 DEF PreserveDeviceConfig
<1> QED BY <1>2, <1>3 DEF Storable

LEMMA CfgStep == TypeInv /\ CfgInv /\ [Next]_vars => CfgInv'
<1> SUFFICES ASSUME TypeInv, CfgInv, [Next]_vars PROVE CfgInv'
  OBVIOUS
<1>0. /\ FilesOK(files) /\ RamOK /\ ControlOK /\ BoundsOK /\ HistoryOK
      /\ PhaseInv /\ SavesWell(handler.name, handler.cfg)
  BY DEF TypeInv
<1>1. /\ now \in Configs /\ keys \in Nat /\ wifiReset \in BOOLEAN
      /\ handler \in [name : HandlerNames, cfg : Configs] /\ todo \in Seq(Ops)
  BY <1>0 DEF RamOK, BoundsOK, ControlOK
<1>2. /\ cfgRisk \/ BootOf(files) \in committed
      /\ handler.name = "none" /\ phase # "off" => cfgRisk \/ Settled(files, committed)
  BY CfgBoots
<1>i. handler = Idle => handler.name = "none" /\ todo = <<>>
  BY <1>0, ConfigFacts DEF PhaseInv
<1>3. ASSUME Reset, UNCHANGED <<files, cfgRisk, committed>> PROVE CfgInv'
  <2>1. handler'.name = "none" /\ phase' = "off" /\ todo' = <<>>
    BY <1>3, ConfigFacts DEF Reset
  <2>2. todo' \in Seq(QuietOps)
    BY <2>1
  <2> QED BY <1>2, <1>3, <2>1, <2>2, CfgAtRest
<1>4. CASE Boot
  <2>1. /\ phase = "off" /\ UNCHANGED <<files, committed, cfgRisk>>
        /\ handler'.name = "boot"
        /\ todo' = IF files["cfg"] = Absent
                   THEN When(files["cfgBak"] # Absent, <<RestoreCfg>>)
                   ELSE When(files["cfgBak"] # Absent, <<RmBak>>)
    BY <1>4 DEF Boot, Begin, history, RestoreCfg, RmBak
  <2>2. ASSUME BootOf(files) \in committed PROVE Repairing(todo', files, committed)
    <3>1. CASE files["cfg"] = Absent /\ files["cfgBak"] # Absent
      BY <2>1, <2>2, <3>1 DEF When, Repairing, OnlyBackup, BootOf
    <3>2. CASE files["cfg"] = Absent /\ files["cfgBak"] = Absent
      BY <2>1, <2>2, <3>2 DEF When, Repairing, Settled, BootOf
    <3>3. CASE files["cfg"] # Absent /\ files["cfgBak"] # Absent
      BY <2>1, <2>2, <3>3 DEF When, Repairing, Settled, BootOf
    <3>4. CASE files["cfg"] # Absent /\ files["cfgBak"] = Absent
      BY <2>1, <2>2, <3>4 DEF When, Repairing, Settled, BootOf
    <3> QED BY <3>1, <3>2, <3>3, <3>4
  <2>3. cfgRisk \/ Repairing(todo', files', committed')
    BY <1>2, <2>1, <2>2
  <2> QED BY <2>1, <2>3 DEF CfgInv, CfgStage, Writers
<1>5. CASE FormatStorage
  <2>1. /\ phase = "off" /\ phase' = "off" /\ handler' = handler /\ todo' = todo
        /\ committed' = {Absent} /\ files' = [f \in Names |-> Absent]
    BY <1>5 DEF FormatStorage, control
  <2>2. handler'.name = "none" /\ todo' = <<>>
    BY <1>0, <1>i, <2>1 DEF PhaseInv
  <2>3. BootOf(files') \in committed'
    BY <2>1 DEF BootOf, Names
  <2>4. todo' \in Seq(QuietOps)
    BY <2>2
  <2> QED BY <2>1, <2>2, <2>3, <2>4, CfgAtRest
<1>6. CASE Load
  <2>1. /\ handler.name = "boot" /\ todo = <<>> /\ todo' = <<>>
        /\ UNCHANGED <<files, cfgRisk>> /\ committed' = {BootContent}
        /\ handler'.name = "none"
    BY <1>6, ConfigFacts DEF Load
  <2>2. cfgRisk \/ Settled(files, committed)
    <3>1. ASSUME ~cfgRisk PROVE Settled(files, committed)
      <4>1. Repairing(todo, files, committed)
        BY <2>1, <3>1 DEF CfgInv, CfgStage
      <4> QED BY <2>1, <4>1 DEF Repairing
    <3> QED BY <3>1
  <2>3. cfgRisk' \/ (BootOf(files') \in committed' /\ Settled(files', committed'))
    BY <2>1, <2>2 DEF Settled, BootOf, BootContent
  <2>4. todo' \in Seq(QuietOps)
    BY <2>1
  <2> QED BY <2>1, <2>3, <2>4, CfgAtRest
<1>7. ASSUME handler = Idle, phase \notin {"off", "load"}, phase' # "off",
             UNCHANGED <<files, cfgRisk, committed>>, todo' \in Seq(QuietOps),
             handler'.name \in {"none", "request", "identity"}
      PROVE  CfgInv'
  BY <1>2, <1>i, <1>7, CfgAtRest
<1>8. CASE ConnectWiFi \/ OpenDevicePortal \/ StartTunnel
  <2>1. /\ handler = Idle /\ phase \notin {"off", "load"} /\ phase' # "off"
        /\ UNCHANGED <<files, cfgRisk, committed>> /\ UNCHANGED <<handler, todo>>
    BY <1>8 DEF ConnectWiFi, OpenDevicePortal, StartTunnel, AtRest, history
  <2>2. handler'.name = "none" /\ todo' = <<>>
    BY <1>i, <2>1
  <2>3. todo' \in Seq(QuietOps)
    BY <2>2
  <2> QED BY <1>7, <2>1, <2>2, <2>3
<1>9. CASE EnsureIdentity
  <2>1. /\ handler = Idle /\ phase \notin {"off", "load"} /\ phase' = phase
        /\ UNCHANGED <<files, cfgRisk, committed>>
        /\ \/ UNCHANGED <<handler, todo>>
           \/ /\ keys < MaxKeys /\ keys' = keys + 1
              /\ Begin("identity", Generated(now, keys'),
                       PersistKeyPair(Generated(now, keys')))
    BY <1>9 DEF EnsureIdentity, AtRest, history
  <2>2. CASE UNCHANGED <<handler, todo>>
    <3>1. handler'.name = "none" /\ todo' = <<>>
      BY <1>i, <2>1, <2>2
    <3>2. todo' \in Seq(QuietOps)
      BY <3>1
    <3> QED BY <1>7, <2>1, <3>1, <3>2
  <2>3. CASE /\ keys < MaxKeys /\ keys' = keys + 1
             /\ Begin("identity", Generated(now, keys'),
                      PersistKeyPair(Generated(now, keys')))
    <3> DEFINE c == Generated(now, keys')
    <3>1. keys' \in Pairs
      BY <1>1, <2>3, StoreAssumption DEF Pairs
    <3>2. c.key \in PrivateKeys /\ c.pub \in Pairs
      <4>1. [pair |-> keys', ec |-> TRUE] \in PrivateKeys
        BY <3>1 DEF PrivateKeys
      <4> QED BY <1>1, <3>1, <4>1, WithKeysFacts DEF Generated
    <3>3. handler'.name = "identity" /\ todo' = PersistKeyPair(c)
      BY <2>3 DEF Begin
    <3> HIDE DEF c
    <3>4. todo' \in Seq(QuietOps)
      BY <3>2, <3>3, PersistPlan
    <3> QED BY <1>7, <2>1, <3>3, <3>4
  <2> QED BY <2>1, <2>2, <2>3
<1>10. ASSUME NEW n \in Writers, NEW c, Storable(c),
              NEW k \in Seq(QuietOps), NEW e \in Seq(QuietOps),
              Save(n, c, k \o (WriteConfig(c) \o e)),
              handler = Idle, phase # "off"
       PROVE  CfgInv'
  <2>1. /\ Begin(n, c, k \o (WriteConfig(c) \o e)) /\ UNCHANGED <<files, cfgRisk>>
        /\ committed' = committed \cup {Stored(c)}
    BY <1>10 DEF Save, Serve
  <2>2. cfgRisk \/ Settled(files, committed)
    BY <1>2, <1>i, <1>10
  <2> QED BY <1>10, <2>1, <2>2, CfgBegins
<1>11. ASSUME NEW w \in Wifis, NEW vendorChanged \in BOOLEAN, WifiSave(w, vendorChanged)
       PROVE  CfgInv'
  <2> DEFINE n == IF PreserveDeviceConfig \/ vendorChanged THEN "wifiRestart" ELSE "wifi"
             e == When(wifiReset, <<Rm("wifiReset")>>)
  <2>1. /\ handler = Idle /\ phase # "off"
        /\ now' = [now EXCEPT !.wifi = w, !.done = PreserveDeviceConfig]
        /\ Save(n, now', WriteConfig(now') \o e)
    BY <1>11 DEF WifiSave, AtRest
  <2>2. now.done => now.dev \in Devices
    BY <1>0 DEF PhaseInv
  <2>3. Storable(now')
    BY <1>1, <2>1, <2>2, WifiConfigFacts
  <2>4. n \in Writers /\ e \in Seq(QuietOps) /\ <<>> \in Seq(QuietOps)
    BY <1>1, QuietPlans DEF Writers
  <2> HIDE DEF n, e
  <2>5. WriteConfig(now') \in Seq(Ops) /\ e \in Seq(Ops)
    BY <2>3, <2>4, WriteConfigPlan, OpSets, SeqWidens
  <2>6. WriteConfig(now') \o e \in Seq(Ops)
    BY <2>5, ConcatProperties
  <2>7. <<>> \o (WriteConfig(now') \o e) = WriteConfig(now') \o e
    BY <2>6, ConcatEmptySeq
  <2>8. Save(n, now', <<>> \o (WriteConfig(now') \o e))
    BY <2>1, <2>7
  <2> QED BY <1>10, <2>1, <2>3, <2>4, <2>8
<1>12. ASSUME NEW d \in Devices, NEW s \in Submissions, DeviceSave(d, s)
       PROVE  CfgInv'
  <2> DEFINE c == [s EXCEPT !.done = TRUE, !.dev = d]
             first == IF c.auth = "key" THEN SaveKeys(c) ELSE <<Rm("key"), Rm("pub")>>
             W == WriteConfig(c)
             e == <<Rm("edit")>>
  <2>1. /\ handler = Idle /\ phase = "devicePortal"
        /\ Save("device", c, (first \o W) \o e)
    BY <1>12 DEF DeviceSave, AtRest
  <2>2. now.wifi \in Wifis
    BY <1>0, <2>1 DEF PhaseInv, Joined
  <2>3. /\ Storable(c) /\ c \in Configs
        /\ c.auth = s.auth /\ c.key = s.key /\ c.pub = s.pub
    BY <1>1, <2>2, DeviceConfigFacts
  <2> HIDE DEF c
  <2>4. c.auth = "key" => c.key \in PrivateKeys
    BY <1>1, <2>3, SubmissionFacts
  <2>5. first \in Seq(QuietOps)
    <3>1. CASE c.auth = "key"
      <4>1. c.pub \in Pairs \cup {Absent} /\ c.key \in PrivateKeys
        BY <2>3, <2>4, <3>1, FieldFacts
      <4>2. <<>> \in Seq(Ops)
        OBVIOUS
      <4>3. SaveKeys(c) \in Seq(QuietOps)
        BY <4>1, <4>2, SaveKeysPlan
      <4> QED BY <3>1, <4>3
    <3>2. CASE c.auth # "key"
      BY <3>2, QuietPlans
    <3> QED BY <3>1, <3>2
  <2>6. e \in Seq(QuietOps)
    BY QuietPlans
  <2> HIDE DEF first, e
  <2>7. first \in Seq(Ops) /\ e \in Seq(Ops)
    BY <2>5, <2>6, OpSets, SeqWidens
  <2>8. W \in Seq(Ops)
    BY <2>3, WriteConfigPlan, OpSets, SeqWidens
  <2> HIDE DEF W
  <2>9. (first \o W) \o e = first \o (W \o e)
    BY <2>7, <2>8, ConcatAssociative
  <2>10. Save("device", c, first \o (W \o e)) /\ "device" \in Writers
    BY <2>1, <2>9 DEF Writers
  <2> QED BY <1>10, <2>1, <2>3, <2>5, <2>6, <2>10 DEF W
<1>13. ASSUME NEW d \in Devices, ManagedSave(d)
       PROVE  CfgInv'
  <2> DEFINE c == [now EXCEPT !.done = TRUE, !.dev = d]
  <2>1. /\ handler = Idle
        /\ phase \in {"running", "paused", "wifiJoined", "transition", "devicePortal"}
        /\ Save("managed", c, WriteConfig(c))
    BY <1>13 DEF ManagedSave, AtRest
  <2>2. c \in Configs /\ c.wifi = now.wifi /\ c.dev = d /\ c.done
    BY <1>1 DEF Configs
  <2> HIDE DEF c
  <2>3. Storable(c)
    BY <1>0, <2>1, <2>2 DEF Storable, PhaseInv, Joined
  <2>4. WriteConfig(c) \in Seq(Ops)
    BY <2>3, WriteConfigPlan, OpSets, SeqWidens
  <2>5. <<>> \o (WriteConfig(c) \o <<>>) = WriteConfig(c)
    BY <2>4, ConcatEmptySeq
  <2>6. Save("managed", c, <<>> \o (WriteConfig(c) \o <<>>)) /\ "managed" \in Writers
    BY <2>1, <2>5 DEF Writers
  <2>7. <<>> \in Seq(QuietOps)
    BY QuietPlans
  <2> QED BY <1>10, <2>1, <2>3, <2>6, <2>7
<1>14. CASE RequestEdit \/ RequestWifiReset
  <2>1. /\ handler = Idle /\ phase \notin {"off", "load"} /\ phase' = phase
        /\ UNCHANGED <<files, cfgRisk, committed>> /\ handler'.name = "request"
        /\ todo' \in {<<Put("edit", "1", <<>>)>>,
                      <<Put("wifiReset", "1", <<>>), Rm("edit")>>}
    BY <1>14 DEF RequestEdit, RequestWifiReset, AtRest, Serve, Begin
  <2>2. todo' \in Seq(QuietOps)
    BY <2>1, QuietPlans
  <2> QED BY <1>7, <2>1, <2>2
<1>15. CASE FactoryReset
  <2>1. /\ handler = Idle /\ phase # "off" /\ handler'.name = "factory" /\ todo' = Wipe
        /\ UNCHANGED <<files, cfgRisk>>
        /\ committed' = committed \cup {Absent, files["cfgBak"]}
    BY <1>15 DEF FactoryReset, AtRest, Serve, Begin
  <2>2. ASSUME ~cfgRisk PROVE {Absent, files["cfg"], files["cfgBak"]} \subseteq committed'
    BY <1>2, <1>i, <2>1, <2>2 DEF Settled, BootOf
  <2>3. cfgRisk' \/ CfgStage'
    BY <2>1, <2>2, WipePlan DEF CfgStage, Writers
  <2> QED BY <2>1, <2>3 DEF CfgInv, Writers
<1>16. CASE FileOp
  <2>1. UNCHANGED <<handler, committed, cfgRisk>>
    BY <1>16 DEF FileOp, history
  <2>2. cfgRisk' \/ CfgStage'
    BY <1>16, <2>1, CfgFileOp
  <2> QED BY <2>1, <2>2 DEF CfgInv
<1>17. CASE FileOpFails
  <2>1. UNCHANGED <<handler, committed>> /\ (cfgRisk => cfgRisk')
    BY <1>17 DEF FileOpFails
  <2>2. cfgRisk' \/ CfgStage'
    BY <1>17, <2>1, CfgFileOpFails
  <2> QED BY <2>1, <2>2 DEF CfgInv
<1>18. CASE ShortWrite
  <2>1. UNCHANGED <<handler, committed>> /\ cfgRisk'
    BY <1>18 DEF ShortWrite
  <2> QED BY <2>1 DEF CfgInv
<1>19. ASSUME Returns(Writers), ~failed, Stores, UNCHANGED files, handler' = Idle,
              todo' = <<>>
       PROVE  CfgInv'
  <2> DEFINE S == Stored(handler.cfg)
  <2>1. /\ handler.name \in Writers /\ todo = <<>> /\ committed' = {S}
        /\ cfgRisk' = (cfgRisk /\ files["cfg"] # S)
    BY <1>19 DEF Returns, Stores
  <2>2. Storable(handler.cfg) /\ S \in committed
    BY <1>0, <2>1 DEF SavesWell, CfgInv
  <2>3. S # Absent
    BY <2>2, StoredFacts
  <2>4. cfgRisk \/ files["cfg"] = S
    <3>1. ASSUME ~cfgRisk PROVE files["cfg"] = S
      <4>1. PICK k \in Seq(QuietOps), w \in Seq(Ops), e \in Seq(QuietOps) :
              todo = k \o (w \o e) /\ Writing(w, files, handler.cfg, committed)
        BY <1>19, <2>1, <3>1 DEF CfgInv, CfgStage
      <4>2. k \in Seq(Ops) /\ e \in Seq(Ops) /\ w \o e \in Seq(Ops)
        BY OpSets, SeqWidens, ConcatProperties
      <4>3. k = <<>>
        BY <2>1, <4>1, <4>2, CatStep
      <4>4. w \o e = <<>>
        BY <2>1, <4>1, <4>2, <4>3, CatStep
      <4>5. w = <<>>
        BY <4>2, <4>4, CatStep
      <4> QED BY <2>2, <4>1, <4>5, WritingBoots
    <3> QED BY <3>1
  <2> HIDE DEF S
  <2>5. cfgRisk' \/ files["cfg"] = S
    BY <2>1, <2>4
  <2>6. cfgRisk' \/ (BootOf(files') \in committed' /\ Settled(files', committed'))
    BY <1>19, <2>1, <2>3, <2>5 DEF BootOf, Settled
  <2>7. todo' \in Seq(QuietOps) /\ handler'.name = "none"
    BY <1>19, ConfigFacts, QuietPlans
  <2> QED BY <2>6, <2>7, CfgAtRest
<1>20. CASE SavedAndRestart
  <2>1. Returns(Writers) /\ ~failed /\ Stores /\ Reset /\ UNCHANGED files
    BY <1>20 DEF SavedAndRestart, Returns, Writers
  <2> QED BY <1>19, <2>1 DEF Reset
<1>21. CASE SavedAndContinue
  <2>1. /\ Returns(Writers) /\ ~failed /\ Stores /\ UNCHANGED files /\ handler' = Idle
        /\ todo' = <<>>
    BY <1>21 DEF SavedAndContinue, Returns, Writers
  <2> QED BY <1>19, <2>1
<1>22. CASE SaveFailed
  <2>1. /\ handler.name \in Writers \cup {"request", "identity"} /\ failed /\ todo = <<>>
        /\ todo' = <<>> /\ handler'.name = "none" /\ phase' = phase
        /\ UNCHANGED <<files, cfgRisk, committed>>
    BY <1>22, ConfigFacts DEF SaveFailed, Returns, Writers, history
  <2>2. phase # "off"
    BY <1>0, <2>1, ConfigFacts DEF PhaseInv, Writers
  <2>3. cfgRisk \/ Settled(files, committed)
    <3>1. ASSUME ~cfgRisk PROVE Settled(files, committed)
      <4>1. CASE handler.name \in Writers
        <5>1. Tidying(todo, files, committed)
          BY <2>1, <3>1, <4>1 DEF CfgInv, CfgStage
        <5> QED BY <2>1, <5>1 DEF Tidying
      <4>2. CASE handler.name \in {"request", "identity"}
        BY <2>2, <3>1, <4>2 DEF CfgInv, CfgStage
      <4> QED BY <2>1, <4>1, <4>2
    <3> QED BY <3>1
  <2>4. cfgRisk' \/ (BootOf(files') \in committed' /\ Settled(files', committed'))
    BY <2>1, <2>3 DEF Settled
  <2>5. todo' \in Seq(QuietOps)
    BY <2>1
  <2> QED BY <2>1, <2>4, <2>5, CfgAtRest
<1>23. CASE IdentityReady
  <2>1. /\ handler.name = "identity" /\ todo = <<>> /\ todo' = <<>> /\ phase' = phase
        /\ handler'.name = "none" /\ UNCHANGED <<files, cfgRisk, committed>>
    BY <1>23, ConfigFacts DEF IdentityReady, Returns, history
  <2>2. cfgRisk' \/ /\ BootOf(files') \in committed'
                    /\ phase' # "off" => Settled(files', committed')
    BY <2>1 DEF CfgInv, CfgStage
  <2>3. todo' \in Seq(QuietOps)
    BY <2>1
  <2> QED BY <2>1, <2>2, <2>3, CfgAtRest
<1>24. CASE RequestStored \/ Wiped \/ PowerLoss
  BY <1>3, <1>24 DEF RequestStored, Wiped, PowerLoss, history
<1>25. CASE UNCHANGED vars
  BY <1>25 DEF vars, control, history, CfgInv, CfgStage
<1> QED
  BY <1>4, <1>5, <1>6, <1>8, <1>9, <1>11, <1>12, <1>13, <1>14, <1>15, <1>16, <1>17,
     <1>18, <1>20, <1>21, <1>22, <1>23, <1>24, <1>25 DEF Next

\* A boot finds the configuration from before a save or the saved one, wherever
\* the power was cut or an operation failed.
THEOREM StoreOldOrNew == Spec => []OldOrNew
<1>1. Spec => [](TypeInv /\ CfgInv)
  BY InitTypes, InitCfg, TypeStep, CfgStep, PTL DEF Spec
<1>2. TypeInv /\ CfgInv => OldOrNew
  BY CfgBoots DEF OldOrNew, BootContent, BootOf
<1> QED BY <1>1, <1>2, PTL

-----------------------------------------------------------------------------
\* The key files: how far an exchange has come, and which keys belong together.

\* A private and a public key that do not come from two pairs, unless an
\* exchange was cut.
Paired(kr, k, p) == kr \/ p = Absent \/ k = Absent \/ p = k.pair

\* Operations that leave the keys alone, and those that at most remove them.
KeepOps == NonKeyOps \cup TmpRm
OtherOps == NonKeyOps \cup RmOps

\* What is left of saveKeys(c), and of the operations r that follow it.
Submitted(td, fs, c, kr) ==
  LET pubReady == c.pub # Absent => fs["pubTmp"] = c.pub
  IN  \E r \in Seq(NonKeyOps) :
        \/ \E p \in Seq(PrepOps) :
             /\ td = p \o (<<Rm("key"), SaveMvKey, Rm("pub")>> \o (LastMv(c) \o r))
             /\ Arrives(fs, p, "keyTmp", c.key)
             /\ c.pub # Absent => Arrives(fs, p, "pubTmp", c.pub)
             /\ Paired(kr, fs["key"], fs["pub"])
        \/ /\ td = <<SaveMvKey, Rm("pub")>> \o (LastMv(c) \o r)
           /\ fs["keyTmp"] = c.key /\ pubReady
        \/ td = <<Rm("pub")>> \o (LastMv(c) \o r) /\ fs["key"] = c.key /\ pubReady
        \/ /\ td = LastMv(c) \o r /\ fs["key"] = c.key /\ pubReady
           /\ kr \/ fs["pub"] = Absent
        \/ td = r /\ fs["key"] = c.key /\ (kr \/ fs["pub"] = c.pub)

\* What is left of persistKeyPair(c).
Made(td, fs, c, kr) ==
  \/ \E p \in Seq(PrepOps) :
       /\ td = p \o <<Rm("key"), Rm("pub"), MadeMvKey, MadeMvPub>>
       /\ Arrives(fs, p, "keyTmp", c.key) /\ Arrives(fs, p, "pubTmp", c.pub)
       /\ Paired(kr, fs["key"], fs["pub"])
  \/ /\ td \in {<<Rm("pub"), MadeMvKey, MadeMvPub>>, <<MadeMvKey, MadeMvPub>>}
     /\ fs["keyTmp"] = c.key /\ fs["pubTmp"] = c.pub
  \/ td = <<MadeMvPub>> /\ fs["key"] = c.key /\ fs["pubTmp"] = c.pub
  \/ td = <<>> /\ fs["key"] = c.key /\ fs["pub"] = c.pub

\* The exchange has begun: the next operation is one of it.
Exchanging(td) ==
  /\ td \in Seq(Ops \ {Rm("key")}) /\ td # <<>>
  /\ Head(td) \in {Rm("pub"), SaveMvKey, SaveMvPub, MadeMvKey, MadeMvPub}

\* A handler that never touches the keys.
Keeping(n, c, fd) ==
  \/ n \in {"none", "boot", "wifi", "wifiRestart", "managed", "request"}
  \/ n = "device" /\ c.auth = "key" /\ fd

Submits(n, c, fd) == n = "device" /\ c.auth = "key" /\ ~fd
Makes(n, fd) == n = "identity" /\ ~fd

KeyStage(h, td, fd, fs, kr) ==
  /\ Submits(h.name, h.cfg, fd) => Submitted(td, fs, h.cfg, kr)
  /\ Makes(h.name, fd) => Made(td, fs, h.cfg, kr)
  /\ ~Submits(h.name, h.cfg, fd) /\ ~Makes(h.name, fd) =>
       td \in Seq(OtherOps) /\ Paired(kr, fs["key"], fs["pub"])
  /\ Keeping(h.name, h.cfg, fd) => td \in Seq(KeepOps)

PairInv ==
  /\ KeyStage(handler, todo, failed, files, keyRisk)
  /\ Paired(keyRisk, now.key, now.pub)
  /\ Paired(keyRisk, handler.cfg.key, handler.cfg.pub)
  /\ PairMatches

LEMMA KeySets ==
  /\ NonKeyOps \subseteq KeepOps /\ TmpRm \subseteq KeepOps
  /\ KeepOps \subseteq OtherOps /\ OtherOps \subseteq Ops
  /\ CfgUndo \subseteq NonKeyOps /\ UndoOps \subseteq OtherOps
  /\ RmOps \subseteq OtherOps /\ KeepOps \subseteq Ops \ {Rm("key")}
<1>1. TmpRm \subseteq RmOps
  BY KeyOpFacts, OpSets
<1>2. \A o \in UndoOps : o.op \in {"rm", "restore"}
  BY DEF UndoOps, RmOps, RestoreCfg, Restore
<1>3. CfgUndo \subseteq NonKeyOps
  BY <1>2, OpSets DEF CfgUndo, NonKeyOps
<1>4. RestoreCfg \in CfgUndo
  BY DEF CfgUndo, UndoOps, RestoreCfg, Restore, KeyNames
<1>5. UndoOps \subseteq OtherOps
  BY <1>3, <1>4 DEF UndoOps, OtherOps
<1>6. Rm("key") \notin KeepOps
  BY DEF KeepOps, NonKeyOps, TmpRm, Rm, KeyNames
<1>7. KeepOps \subseteq OtherOps /\ OtherOps \subseteq Ops /\ RmOps \subseteq OtherOps
      /\ NonKeyOps \subseteq KeepOps /\ TmpRm \subseteq KeepOps
  BY <1>1, OpSets DEF KeepOps, OtherOps
<1> QED BY <1>3, <1>5, <1>6, <1>7

\* The key files after each operation.
LEMMA KeyDone ==
  ASSUME NEW fs, FilesOK(fs)
  PROVE  /\ LET gs == Done(fs, Rm("key"))
            IN  /\ gs["key"] = Absent /\ gs["keyTmp"] = fs["keyTmp"]
                /\ gs["pub"] = fs["pub"] /\ gs["pubTmp"] = fs["pubTmp"]
         /\ LET gs == Done(fs, Rm("pub"))
            IN  /\ gs["pub"] = Absent /\ gs["keyTmp"] = fs["keyTmp"]
                /\ gs["key"] = fs["key"] /\ gs["pubTmp"] = fs["pubTmp"]
         /\ \A m \in {SaveMvKey, MadeMvKey} :
              /\ Done(fs, m)["key"] = fs["keyTmp"] /\ Done(fs, m)["pub"] = fs["pub"]
              /\ Done(fs, m)["pubTmp"] = fs["pubTmp"]
         /\ \A m \in {SaveMvPub, MadeMvPub} :
              Done(fs, m)["pub"] = fs["pubTmp"] /\ Done(fs, m)["key"] = fs["key"]
<1>0. DOMAIN fs = Names
  BY DEF FilesOK
<1>1. /\ Done(fs, Rm("key")) = [fs EXCEPT !["key"] = Absent]
      /\ Done(fs, Rm("pub")) = [fs EXCEPT !["pub"] = Absent]
  BY DEF Done, Rm
<1>2. /\ Done(fs, SaveMvKey) = [fs EXCEPT !["key"] = fs["keyTmp"], !["keyTmp"] = Absent]
      /\ Done(fs, MadeMvKey) = [fs EXCEPT !["key"] = fs["keyTmp"], !["keyTmp"] = Absent]
  BY DEF Done, SaveMvKey, MadeMvKey, Mv
<1>3. /\ Done(fs, SaveMvPub) = [fs EXCEPT !["pub"] = fs["pubTmp"], !["pubTmp"] = Absent]
      /\ Done(fs, MadeMvPub) = [fs EXCEPT !["pub"] = fs["pubTmp"], !["pubTmp"] = Absent]
  BY DEF Done, SaveMvPub, MadeMvPub, Mv
<1> QED BY <1>0, <1>1, <1>2, <1>3 DEF Names

\* An operation that names no key file changes none, whatever it moves where.
LEMMA NonKeyDone ==
  ASSUME NEW fs, FilesOK(fs), NEW o \in NonKeyOps
  PROVE  /\ \A g \in KeyNames : Done(fs, o)[g] = fs[g]
         /\ o.op \in {"put", "mv"} => o.undo \in Seq(NonKeyOps)
<1>0. DOMAIN fs = Names /\ o \in Ops /\ o.file \notin KeyNames
  BY DEF FilesOK, NonKeyOps
<1>1. o.op \in {"rm", "put", "mv", "restore"}
      /\ (o.op \in {"mv", "restore"} => o.to \notin KeyNames)
  BY <1>0 DEF Ops, UndoOps, CfgOps, KeyOps, MarkOps, RmOps, PutOps, MvOps,
              RestoreCfg, Restore, KeyNames
<1>2. \A g \in KeyNames : Done(fs, o)[g] = fs[g]
  <2>1. \A g \in KeyNames : g \in Names
    BY DEF KeyNames, Names
  <2> QED BY <1>0, <1>1, <2>1, DoneFacts
<1>3. o.op \in {"put", "mv"} => o.undo \in Seq(NonKeyOps)
  <2>1. o.op \in {"put", "mv"} => o.undo \in Seq(CfgUndo)
    BY DEF NonKeyOps
  <2> QED BY <2>1, KeySets, SeqWidens
<1> QED BY <1>2, <1>3

\* The operations on the temporaries leave the keys in use alone.
LEMMA PrepDone ==
  ASSUME NEW fs, FilesOK(fs), NEW o \in PrepOps
  PROVE  /\ Done(fs, o)["key"] = fs["key"] /\ Done(fs, o)["pub"] = fs["pub"]
         /\ o \in Ops /\ o.op \in {"rm", "put"} /\ o.file \in {"keyTmp", "pubTmp"}
         /\ \A g \in {"keyTmp", "pubTmp"} :
              Done(fs, o)[g] = IF g # o.file THEN fs[g]
                               ELSE IF o.op = "put" THEN o.content ELSE Absent
         /\ o.op = "put" => o.undo \in Seq(TmpRm)
<1>0. DOMAIN fs = Names /\ o \in Ops
  BY KeyOpFacts, OpSets DEF FilesOK
<1>1. o.op \in {"rm", "put"} /\ o.file \in {"keyTmp", "pubTmp"}
      /\ (o.op = "put" => o.undo \in Seq(TmpRm))
  BY DEF PrepOps, TmpRm, PutOps
<1>2. {"key", "pub", "keyTmp", "pubTmp"} \subseteq Names
  BY DEF Names
<1>3. \A g \in Names : Done(fs, o)[g] =
        IF g # o.file THEN fs[g] ELSE IF o.op = "put" THEN o.content ELSE Absent
  BY <1>0, <1>1, DoneFacts
<1> QED BY <1>0, <1>1, <1>2, <1>3

LEMMA ArrivesEnd ==
  ASSUME NEW fs, NEW f, NEW v, Arrives(fs, <<>>, f, v)
  PROVE  fs[f] = v
BY DEF Arrives

LEMMA ArrivesStep ==
  ASSUME NEW fs, FilesOK(fs), NEW p \in Seq(PrepOps), p # <<>>,
         NEW f \in {"keyTmp", "pubTmp"}, NEW v, Arrives(fs, p, f, v)
  PROVE  /\ Arrives(Done(fs, Head(p)), Tail(p), f, v)
         /\ Head(p).op = "rm" => Arrives(fs, Tail(p), f, v)
<1> DEFINE o == Head(p)
           q == Tail(p)
           gs == Done(fs, o)
<1>1. /\ Len(p) \in Nat /\ Len(p) >= 1 /\ DOMAIN p = 1..Len(p)
      /\ q \in Seq(PrepOps) /\ DOMAIN q = 1..(Len(p) - 1)
      /\ \A i \in DOMAIN q : i + 1 \in DOMAIN p /\ q[i] = p[i + 1]
      /\ o = p[1] /\ o \in PrepOps /\ 1 \in DOMAIN p
      /\ \A i \in DOMAIN p : i \in Nat /\ (i # 1 => i - 1 \in DOMAIN q /\ q[i - 1] = p[i])
  <2>1. Len(p) \in Nat /\ Len(p) >= 1 /\ DOMAIN p = 1..Len(p)
    BY LenProperties, EmptySeq
  <2>2. q \in Seq(PrepOps) /\ Len(q) = Len(p) - 1 /\ DOMAIN q = 1..Len(q)
        /\ \A i \in 1..Len(q) : q[i] = p[i + 1]
    BY <2>1, HeadTailProperties
  <2>3. o \in PrepOps /\ o = p[1]
    BY FirstStep
  <2> QED BY <2>1, <2>2, <2>3
<1>2. o.op \in {"rm", "put"} /\ gs[f] = IF f # o.file THEN fs[f]
                                         ELSE IF o.op = "put" THEN o.content ELSE Absent
  BY <1>1, PrepDone
<1> HIDE DEF o, q, gs
<1> SUFFICES Arrives(gs, q, f, v) /\ (o.op = "rm" => Arrives(fs, q, f, v))
  BY DEF o, q, gs
<1>3. CASE fs[f] = v /\ \A i \in DOMAIN p : p[i].file # f
  <2>1. \A i \in DOMAIN q : q[i].file # f
    BY <1>1, <1>3
  <2>2. gs[f] = v
    BY <1>1, <1>2, <1>3
  <2> QED BY <1>3, <2>1, <2>2 DEF Arrives
<1>4. ASSUME NEW i \in DOMAIN p, p[i].op = "put", p[i].file = f, p[i].content = v,
             \A j \in DOMAIN p : j > i => p[j].file # f
      PROVE  Arrives(gs, q, f, v) /\ (o.op = "rm" => Arrives(fs, q, f, v))
  <2>1. CASE i = 1
    <3>1. o.op = "put" /\ gs[f] = v
      BY <1>1, <1>2, <1>4, <2>1
    <3>2. \A j \in DOMAIN q : q[j].file # f
      <4>1. ASSUME NEW j \in DOMAIN q PROVE q[j].file # f
        <5>1. j + 1 > 1 /\ j + 1 \in DOMAIN p /\ q[j] = p[j + 1]
          BY <1>1, <4>1
        <5> QED BY <1>4, <2>1, <5>1
      <4> QED BY <4>1
    <3> QED BY <3>1, <3>2 DEF Arrives
  <2>2. CASE i # 1
    <3>1. i - 1 \in DOMAIN q /\ q[i - 1] = p[i]
      BY <1>1, <2>2
    <3>2. ASSUME NEW j \in DOMAIN q, j > i - 1 PROVE q[j].file # f
      <4>1. j + 1 > i /\ j + 1 \in DOMAIN p /\ q[j] = p[j + 1]
        BY <1>1, <3>2
      <4> QED BY <1>4, <4>1
    <3>3. /\ q[i - 1].op = "put" /\ q[i - 1].file = f /\ q[i - 1].content = v
          /\ \A j \in DOMAIN q : j > i - 1 => q[j].file # f
      BY <1>4, <3>1, <3>2
    <3> QED BY <3>1, <3>3 DEF Arrives
  <2> QED BY <2>1, <2>2
<1> QED BY <1>3, <1>4 DEF Arrives

\* Where an exchange has begun, a failure or a power cut counts as a risk.
LEMMA ExchangeSeen ==
  ASSUME handler.name \in {"device", "identity"}, Exchanging(todo)
  PROVE  KeysInFlux
<1> DEFINE left == {todo[i] : i \in DOMAIN todo}
           targets == {o.file : o \in {l \in left : l.op = "rm"}}
                      \cup {o.to : o \in {l \in left : l.op = "mv"}}
           h == Head(todo)
<1>1. h \in left /\ Rm("key") \notin left
  <2>1. todo \in Seq(Ops \ {Rm("key")}) /\ todo # <<>>
    BY DEF Exchanging
  <2>2. \A i \in DOMAIN todo : todo[i] # Rm("key")
    BY <2>1
  <2>3. 1 \in DOMAIN todo /\ h = todo[1]
    BY <2>1, HeadTailProperties, LenProperties, EmptySeq
  <2> QED BY <2>2, <2>3
<1>2. \/ h.op = "rm" /\ h.file = "pub"
      \/ h.op = "mv" /\ h.to \in {"key", "pub"}
  BY DEF Exchanging, Rm, SaveMvKey, SaveMvPub, MadeMvKey, MadeMvPub, Mv
<1>3. targets \cap {"key", "pub"} # {}
  <2> HIDE DEF h, left
  <2>1. CASE h.op = "rm" /\ h.file = "pub"
    <3>1. "pub" \in targets
      BY <1>1, <2>1
    <3> QED BY <3>1
  <2>2. CASE h.op = "mv" /\ h.to \in {"key", "pub"}
    <3>1. h.to \in targets
      BY <1>1, <2>2
    <3> QED BY <2>2, <3>1
  <2> QED BY <1>2, <2>1, <2>2
<1> QED BY <1>1, <1>3 DEF KeysInFlux

LEMMA ExchangeOps ==
  /\ {SaveMvKey, SaveMvPub, MadeMvKey, MadeMvPub, Rm("pub")} \subseteq Ops \ {Rm("key")}
  /\ Rm("key") \in Ops
  /\ Rm("key").op = "rm" /\ Rm("pub").op = "rm"
  /\ SaveMvKey.op = "mv" /\ SaveMvPub.op = "mv" /\ MadeMvKey.op = "mv"
  /\ MadeMvPub.op = "mv"
  /\ \A c : LastMv(c) \in Seq(Ops \ {Rm("key")}) /\ LastMv(c) \in Seq(Ops)
  /\ \A r \in Seq(NonKeyOps) : r \in Seq(Ops \ {Rm("key")}) /\ r \in Seq(Ops)
  /\ \A p \in Seq(PrepOps) : p \in Seq(Ops)
<1>1. {SaveMvKey, SaveMvPub, MadeMvKey, MadeMvPub, Rm("pub"), Rm("key")} \subseteq Ops
  BY KeyOpFacts, OpSets
<1>2. /\ Rm("key").op = "rm" /\ Rm("pub").op = "rm" /\ Rm("pub").file # Rm("key").file
      /\ SaveMvKey.op = "mv" /\ SaveMvPub.op = "mv" /\ MadeMvKey.op = "mv"
      /\ MadeMvPub.op = "mv"
  BY DEF Rm, SaveMvKey, SaveMvPub, MadeMvKey, MadeMvPub, Mv
<1>3. {SaveMvKey, SaveMvPub, MadeMvKey, MadeMvPub, Rm("pub")} \subseteq Ops \ {Rm("key")}
  BY <1>1, <1>2
<1>4. ASSUME NEW c
      PROVE  LastMv(c) \in Seq(Ops \ {Rm("key")}) /\ LastMv(c) \in Seq(Ops)
  <2>1. <<SaveMvPub>> \in Seq(Ops \ {Rm("key")}) /\ <<>> \in Seq(Ops \ {Rm("key")})
        /\ <<SaveMvPub>> \in Seq(Ops) /\ <<>> \in Seq(Ops)
    BY <1>1, <1>3
  <2> QED BY <2>1, LastMvFacts
<1>5. NonKeyOps \subseteq Ops \ {Rm("key")} /\ NonKeyOps \subseteq Ops
      /\ PrepOps \subseteq Ops
  BY KeySets, OpSets, KeyOpFacts
<1>6. \A r \in Seq(NonKeyOps) : r \in Seq(Ops \ {Rm("key")}) /\ r \in Seq(Ops)
  BY <1>5, SeqWidens
<1>7. \A p \in Seq(PrepOps) : p \in Seq(Ops)
  BY <1>5, SeqWidens
<1> QED BY <1>1, <1>2, <1>3, <1>4, <1>6, <1>7

Pending(td, o) == \E i \in DOMAIN td : td[i] = o

LEMMA PendingBehind ==
  ASSUME NEW S, NEW p \in Seq(S), NEW x \in Seq(S), x # <<>>
  PROVE  Pending(p \o x, Head(x))
<1>1. /\ Len(p) \in Nat /\ Len(x) \in Nat /\ Len(x) >= 1
      /\ p \o x \in Seq(S) /\ Len(p \o x) = Len(p) + Len(x)
      /\ Head(x) = x[1]
  BY LenProperties, EmptySeq, ConcatProperties, HeadTailProperties
<1>2. DOMAIN (p \o x) = 1..(Len(p) + Len(x))
  BY <1>1, LenProperties
<1>3. Len(p) + 1 \in 1..(Len(p) + Len(x))
  BY <1>1
<1>4. (p \o x)[Len(p) + 1] = x[1]
  <2>1. (p \o x)[Len(p) + 1] =
          IF Len(p) + 1 <= Len(p) THEN p[Len(p) + 1] ELSE x[(Len(p) + 1) - Len(p)]
    BY <1>3, ConcatProperties
  <2>2. ~(Len(p) + 1 <= Len(p)) /\ (Len(p) + 1) - Len(p) = 1
    BY <1>1
  <2> QED BY <2>1, <2>2
<1> QED BY <1>1, <1>2, <1>3, <1>4 DEF Pending

LEMMA ConsPlan ==
  ASSUME NEW S, NEW k \in Seq(S), k # <<>>, NEW r \in Seq(S)
  PROVE  /\ k \o r \in Seq(S) /\ k \o r # <<>>
         /\ Head(k \o r) = Head(k) /\ Tail(k \o r) = Tail(k) \o r
<1>1. k \o r \in Seq(S)
  BY ConcatProperties
<1> QED BY <1>1, CatStep

\* saveKeys goes on: the next operation succeeds, or it fails unnoticed, or it
\* fails and the temporaries are removed.  The private key on flash is the old
\* one until its removal, then the new one.
LEMMA SubmittedStep ==
  ASSUME NEW fs, FilesOK(fs), NEW c, c.key \in PrivateKeys,
         c.pub \in Pairs \cup {Absent}, NEW kr, NEW td, td # <<>>,
         Submitted(td, fs, c, kr)
  PROVE  /\ Submitted(Tail(td), Done(fs, Head(td)), c, kr)
         /\ Head(td).op \notin {"put", "mv"} =>
              \/ Submitted(Tail(td), fs, c, kr)
              \/ Exchanging(td) /\ Submitted(Tail(td), fs, c, TRUE)
         /\ Head(td).op \in {"put", "mv"} => Head(td).undo \in Seq(KeepOps)
         /\ \/ Exchanging(Tail(td)) \/ Done(fs, Head(td))["key"] = c.key
            \/ Done(fs, Head(td))["key"] = fs["key"] /\ Pending(td, Rm("key"))
<1> DEFINE Ex == Ops \ {Rm("key")}
           M == <<Rm("key"), SaveMvKey, Rm("pub")>>
           M2 == <<SaveMvKey, Rm("pub")>>
           M3 == <<Rm("pub")>>
           o == Head(td)
           gs == Done(fs, o)
           ready(f) == c.pub # Absent => f["pubTmp"] = c.pub
<1>0. PICK r \in Seq(NonKeyOps) :
        \/ \E p \in Seq(PrepOps) :
             /\ td = p \o (M \o (LastMv(c) \o r))
             /\ Arrives(fs, p, "keyTmp", c.key)
             /\ c.pub # Absent => Arrives(fs, p, "pubTmp", c.pub)
             /\ Paired(kr, fs["key"], fs["pub"])
        \/ td = M2 \o (LastMv(c) \o r) /\ fs["keyTmp"] = c.key /\ ready(fs)
        \/ td = M3 \o (LastMv(c) \o r) /\ fs["key"] = c.key /\ ready(fs)
        \/ /\ td = LastMv(c) \o r /\ fs["key"] = c.key /\ ready(fs)
           /\ kr \/ fs["pub"] = Absent
        \/ td = r /\ fs["key"] = c.key /\ (kr \/ fs["pub"] = c.pub)
  BY DEF Submitted
<1> DEFINE L == LastMv(c) \o r
<1>1. /\ r \in Seq(Ex) /\ r \in Seq(Ops) /\ L \in Seq(Ops) /\ L \in Seq(Ex)
      /\ LastMv(c) \in Seq(Ops) /\ LastMv(c) \in Seq(Ex)
  <2>1. r \in Seq(Ex) /\ r \in Seq(Ops) /\ LastMv(c) \in Seq(Ops) /\ LastMv(c) \in Seq(Ex)
    BY ExchangeOps
  <2> QED BY <2>1, ConcatProperties
<1>2. /\ M \in Seq(Ops) /\ M2 \in Seq(Ex) /\ M3 \in Seq(Ex)
      /\ M # <<>> /\ M2 # <<>> /\ M3 # <<>>
      /\ Head(M) = Rm("key") /\ Tail(M) = M2 /\ Head(M2) = SaveMvKey /\ Tail(M2) = M3
      /\ Head(M3) = Rm("pub") /\ Tail(M3) = <<>>
  BY ExchangeOps
\* How each stage is recognised.
<1>a. ASSUME NEW p \in Seq(PrepOps), NEW t, NEW f, t = p \o (M \o L),
             Arrives(f, p, "keyTmp", c.key),
             c.pub # Absent => Arrives(f, p, "pubTmp", c.pub),
             Paired(kr, f["key"], f["pub"])
      PROVE  Submitted(t, f, c, kr)
  BY <1>a DEF Submitted
<1>b. ASSUME NEW t, NEW f, t = M2 \o L, f["keyTmp"] = c.key, ready(f)
      PROVE  Submitted(t, f, c, kr)
  BY <1>b DEF Submitted
<1>c. ASSUME NEW t, NEW f, t = M3 \o L, f["key"] = c.key, ready(f)
      PROVE  Submitted(t, f, c, kr)
  BY <1>c DEF Submitted
<1>d. ASSUME NEW t, NEW f, NEW kk, t = L, f["key"] = c.key, ready(f),
             kk \/ f["pub"] = Absent
      PROVE  Submitted(t, f, c, kk)
  BY <1>d DEF Submitted
<1>e. ASSUME NEW t \in Seq(NonKeyOps), NEW f, f["key"] = c.key, kr \/ f["pub"] = c.pub
      PROVE  Submitted(t, f, c, kr)
  BY <1>e DEF Submitted
<1> HIDE DEF Ex, M, M2, M3, L, o, gs
<1> SUFFICES /\ Submitted(Tail(td), gs, c, kr)
             /\ o.op \notin {"put", "mv"} =>
                  \/ Submitted(Tail(td), fs, c, kr)
                  \/ Exchanging(td) /\ Submitted(Tail(td), fs, c, TRUE)
             /\ o.op \in {"put", "mv"} => o.undo \in Seq(KeepOps)
             /\ \/ Exchanging(Tail(td)) \/ gs["key"] = c.key
                \/ gs["key"] = fs["key"] /\ Pending(td, Rm("key"))
  BY DEF o, gs
<1>m. M \o L \in Seq(Ops) /\ M2 \o L \in Seq(Ex) /\ M3 \o L \in Seq(Ex)
      /\ Exchanging(M2 \o L) /\ Exchanging(M3 \o L)
      /\ M \o L # <<>> /\ Head(M \o L) = Rm("key") /\ Tail(M \o L) = M2 \o L
      /\ Head(M2 \o L) = SaveMvKey /\ Tail(M2 \o L) = M3 \o L
      /\ Head(M3 \o L) = Rm("pub") /\ Tail(M3 \o L) = L
  <2>1. /\ M \o L \in Seq(Ops) /\ M \o L # <<>> /\ Head(M \o L) = Rm("key")
        /\ Tail(M \o L) = M2 \o L
    <3>1. M \in Seq(Ops) /\ M # <<>> /\ L \in Seq(Ops)
      BY <1>1, <1>2
    <3>2. /\ M \o L \in Seq(Ops) /\ M \o L # <<>> /\ Head(M \o L) = Head(M)
          /\ Tail(M \o L) = Tail(M) \o L
      BY <3>1, ConsPlan
    <3> QED BY <1>2, <3>2
  <2>2. /\ M2 \o L \in Seq(Ex) /\ M2 \o L # <<>> /\ Head(M2 \o L) = SaveMvKey
        /\ Tail(M2 \o L) = M3 \o L
    <3>1. M2 \in Seq(Ex) /\ M2 # <<>> /\ L \in Seq(Ex)
      BY <1>1, <1>2
    <3>2. /\ M2 \o L \in Seq(Ex) /\ M2 \o L # <<>> /\ Head(M2 \o L) = Head(M2)
          /\ Tail(M2 \o L) = Tail(M2) \o L
      BY <3>1, ConsPlan
    <3> QED BY <1>2, <3>2
  <2>3. /\ M3 \o L \in Seq(Ex) /\ M3 \o L # <<>> /\ Head(M3 \o L) = Rm("pub")
        /\ Tail(M3 \o L) = <<>> \o L
    <3>1. M3 \in Seq(Ex) /\ M3 # <<>> /\ L \in Seq(Ex)
      BY <1>1, <1>2
    <3>2. /\ M3 \o L \in Seq(Ex) /\ M3 \o L # <<>> /\ Head(M3 \o L) = Head(M3)
          /\ Tail(M3 \o L) = Tail(M3) \o L
      BY <3>1, ConsPlan
    <3> QED BY <1>2, <3>2
  <2>4. <<>> \o L = L
    BY <1>1, ConcatEmptySeq
  <2>5. Exchanging(M2 \o L)
    BY <2>2 DEF Exchanging, Ex
  <2>6. Exchanging(M3 \o L)
    BY <2>3 DEF Exchanging, Ex
  <2> QED BY <2>1, <2>2, <2>3, <2>4, <2>5, <2>6
<1>k. <<Rm("pubTmp")>> \in Seq(KeepOps) /\ <<>> \in Seq(KeepOps)
  BY KeyOpFacts, KeySets
<1>3. ASSUME NEW p \in Seq(PrepOps), p # <<>>, td = p \o (M \o L),
             Arrives(fs, p, "keyTmp", c.key),
             c.pub # Absent => Arrives(fs, p, "pubTmp", c.pub),
             Paired(kr, fs["key"], fs["pub"])
      PROVE  /\ Submitted(Tail(td), gs, c, kr)
             /\ o.op \notin {"put", "mv"} => Submitted(Tail(td), fs, c, kr)
             /\ o.op \in {"put", "mv"} => o.undo \in Seq(KeepOps)
             /\ gs["key"] = fs["key"] /\ Pending(td, Rm("key"))
  <2>1. p \in Seq(Ops)
    BY ExchangeOps
  <2>2. o = Head(p) /\ Tail(td) = Tail(p) \o (M \o L)
    <3>1. M \o L \in Seq(Ops)
      BY <1>m
    <3> HIDE DEF M, L
    <3>2. /\ Head(p \o (M \o L)) = Head(p)
          /\ Tail(p \o (M \o L)) = Tail(p) \o (M \o L)
      BY <1>3, <2>1, <3>1, ConsPlan
    <3> QED BY <1>3, <3>2 DEF o
  <2>3. o \in PrepOps /\ Tail(p) \in Seq(PrepOps)
    BY <1>3, <2>2, FirstStep
  <2>4. /\ gs["key"] = fs["key"] /\ gs["pub"] = fs["pub"] /\ o.op \in {"rm", "put"}
        /\ o.op = "put" => o.undo \in Seq(TmpRm)
    BY <2>3, PrepDone DEF gs
  <2>5. /\ Arrives(gs, Tail(p), "keyTmp", c.key)
        /\ o.op = "rm" => Arrives(fs, Tail(p), "keyTmp", c.key)
    BY <1>3, <2>2, ArrivesStep DEF gs
  <2>6. /\ c.pub # Absent => Arrives(gs, Tail(p), "pubTmp", c.pub)
        /\ c.pub # Absent /\ o.op = "rm" => Arrives(fs, Tail(p), "pubTmp", c.pub)
    BY <1>3, <2>2, ArrivesStep DEF gs
  <2>7. Submitted(Tail(td), gs, c, kr)
    BY <1>3, <1>a, <2>2, <2>3, <2>4, <2>5, <2>6
  <2>8. o.op \notin {"put", "mv"} => Submitted(Tail(td), fs, c, kr)
    BY <1>3, <1>a, <2>2, <2>3, <2>4, <2>5, <2>6
  <2>9. o.op \in {"put", "mv"} => o.undo \in Seq(KeepOps)
    BY <2>4, KeySets, SeqWidens
  <2>10. Pending(td, Rm("key"))
    BY <1>3, <1>m, <2>1, PendingBehind
  <2> QED BY <2>4, <2>7, <2>8, <2>9, <2>10
<1>4. ASSUME NEW p \in Seq(PrepOps), p = <<>>, td = p \o (M \o L),
             Arrives(fs, p, "keyTmp", c.key),
             c.pub # Absent => Arrives(fs, p, "pubTmp", c.pub)
      PROVE  /\ Submitted(Tail(td), gs, c, kr) /\ Submitted(Tail(td), fs, c, kr)
             /\ o.op \notin {"put", "mv"} /\ Exchanging(Tail(td))
  <2>1. td = M \o L
    BY <1>4, <1>m, ConcatEmptySeq
  <2>2. o = Rm("key") /\ Tail(td) = M2 \o L /\ o.op = "rm"
    BY <1>m, <2>1, ExchangeOps DEF o
  <2>3. fs["keyTmp"] = c.key /\ ready(fs)
    BY <1>4, ArrivesEnd
  <2>4. gs["keyTmp"] = fs["keyTmp"] /\ gs["pubTmp"] = fs["pubTmp"]
    BY <2>2, KeyDone DEF gs
  <2> QED BY <1>b, <1>m, <2>2, <2>3, <2>4
<1>5. ASSUME td = M2 \o L, fs["keyTmp"] = c.key, ready(fs)
      PROVE  /\ Submitted(Tail(td), gs, c, kr) /\ o.op = "mv"
             /\ o.undo \in Seq(KeepOps) /\ Exchanging(Tail(td))
  <2>1. o = SaveMvKey /\ Tail(td) = M3 \o L
    BY <1>5, <1>m DEF o
  <2>2. gs["key"] = fs["keyTmp"] /\ gs["pubTmp"] = fs["pubTmp"]
    BY <2>1, KeyDone DEF gs
  <2>3. o.op = "mv" /\ o.undo = <<Rm("pubTmp")>>
    BY <2>1 DEF SaveMvKey, Mv
  <2> QED BY <1>c, <1>k, <1>m, <1>5, <2>1, <2>2, <2>3
<1>6. ASSUME td = M3 \o L, fs["key"] = c.key, ready(fs)
      PROVE  /\ Submitted(Tail(td), gs, c, kr) /\ o.op = "rm"
             /\ Exchanging(td) /\ Submitted(Tail(td), fs, c, TRUE)
             /\ gs["key"] = c.key
  <2>1. o = Rm("pub") /\ Tail(td) = L /\ o.op = "rm"
    BY <1>6, <1>m, ExchangeOps DEF o
  <2>2. gs["pub"] = Absent /\ gs["key"] = fs["key"] /\ gs["pubTmp"] = fs["pubTmp"]
    BY <2>1, KeyDone DEF gs
  <2> QED BY <1>d, <1>m, <1>6, <2>1, <2>2
<1>7. ASSUME td = r, fs["key"] = c.key, kr \/ fs["pub"] = c.pub
      PROVE  /\ Submitted(Tail(td), gs, c, kr) /\ Submitted(Tail(td), fs, c, kr)
             /\ o.op \in {"put", "mv"} => o.undo \in Seq(KeepOps)
             /\ gs["key"] = c.key
  <2>1. o \in NonKeyOps /\ Tail(td) \in Seq(NonKeyOps)
    BY <1>7, FirstStep DEF o
  <2>2. gs["key"] = fs["key"] /\ gs["pub"] = fs["pub"]
        /\ (o.op \in {"put", "mv"} => o.undo \in Seq(NonKeyOps))
    BY <2>1, NonKeyDone DEF gs, KeyNames
  <2>3. o.op \in {"put", "mv"} => o.undo \in Seq(KeepOps)
    BY <2>2, KeySets, SeqWidens
  <2> QED BY <1>e, <1>7, <2>1, <2>2, <2>3
<1>8. ASSUME td = L, fs["key"] = c.key, ready(fs), kr \/ fs["pub"] = Absent, c.pub # Absent
      PROVE  /\ Submitted(Tail(td), gs, c, kr) /\ o.op = "mv"
             /\ o.undo \in Seq(KeepOps) /\ gs["key"] = c.key
  <2>1. L = <<SaveMvPub>> \o r /\ <<SaveMvPub>> \in Seq(Ops)
    BY <1>8, LastMvFacts, ExchangeOps DEF L
  <2>2. Head(<<SaveMvPub>>) = SaveMvPub /\ Tail(<<SaveMvPub>>) = <<>>
        /\ <<SaveMvPub>> # <<>>
    OBVIOUS
  <2>3. o = SaveMvPub /\ Tail(td) = <<>> \o r
    BY <1>1, <1>8, <2>1, <2>2, CatStep DEF o
  <2>4. Tail(td) = r
    BY <1>1, <2>3, ConcatEmptySeq
  <2>5. gs["pub"] = fs["pubTmp"] /\ gs["key"] = fs["key"]
    BY <2>3, KeyDone DEF gs
  <2>6. o.op = "mv" /\ o.undo = <<>>
    BY <2>3 DEF SaveMvPub, Mv
  <2> QED BY <1>e, <1>k, <1>8, <2>4, <2>5, <2>6
<1>9. ASSUME td = L, fs["key"] = c.key, kr \/ fs["pub"] = Absent, c.pub = Absent
      PROVE  td = r /\ (kr \/ fs["pub"] = c.pub)
  BY <1>1, <1>9, LastMvFacts, ConcatEmptySeq DEF L
<1> QED
  <2>1. CASE \E p \in Seq(PrepOps) :
             /\ td = p \o (M \o L)
             /\ Arrives(fs, p, "keyTmp", c.key)
             /\ c.pub # Absent => Arrives(fs, p, "pubTmp", c.pub)
             /\ Paired(kr, fs["key"], fs["pub"])
    BY <1>3, <1>4, <2>1
  <2>2. CASE td = M2 \o L /\ fs["keyTmp"] = c.key /\ ready(fs)
    BY <1>5, <2>2
  <2>3. CASE td = M3 \o L /\ fs["key"] = c.key /\ ready(fs)
    BY <1>6, <2>3
  <2>4. CASE td = L /\ fs["key"] = c.key /\ ready(fs) /\ (kr \/ fs["pub"] = Absent)
    <3>1. CASE c.pub # Absent
      BY <1>8, <2>4, <3>1
    <3>2. CASE c.pub = Absent
      BY <1>7, <1>9, <2>4, <3>2
    <3> QED BY <3>1, <3>2
  <2>5. CASE td = r /\ fs["key"] = c.key /\ (kr \/ fs["pub"] = c.pub)
    BY <1>7, <2>5
  <2> QED BY <1>0, <2>1, <2>2, <2>3, <2>4, <2>5 DEF M, M2, M3, L

\* Where saveKeys is cut, the keys belong together or the exchange has begun.
LEMMA SubmittedCut ==
  ASSUME NEW fs, NEW c, c.key \in PrivateKeys, c.pub \in Pairs \cup {Absent}, NEW kr,
         Paired(kr, c.key, c.pub), NEW td, Submitted(td, fs, c, kr)
  PROVE  /\ Exchanging(td) \/ Paired(kr, fs["key"], fs["pub"])
         /\ td = <<>> => fs["key"] = c.key /\ (kr \/ fs["pub"] = c.pub)
<1> DEFINE Ex == Ops \ {Rm("key")}
           M == <<Rm("key"), SaveMvKey, Rm("pub")>>
           M2 == <<SaveMvKey, Rm("pub")>>
           M3 == <<Rm("pub")>>
           M4 == <<SaveMvPub>>
           ready(f) == c.pub # Absent => f["pubTmp"] = c.pub
<1>0. PICK r \in Seq(NonKeyOps) :
        \/ \E p \in Seq(PrepOps) :
             /\ td = p \o (M \o (LastMv(c) \o r))
             /\ Arrives(fs, p, "keyTmp", c.key)
             /\ c.pub # Absent => Arrives(fs, p, "pubTmp", c.pub)
             /\ Paired(kr, fs["key"], fs["pub"])
        \/ td = M2 \o (LastMv(c) \o r) /\ fs["keyTmp"] = c.key /\ ready(fs)
        \/ td = M3 \o (LastMv(c) \o r) /\ fs["key"] = c.key /\ ready(fs)
        \/ /\ td = LastMv(c) \o r /\ fs["key"] = c.key /\ ready(fs)
           /\ kr \/ fs["pub"] = Absent
        \/ td = r /\ fs["key"] = c.key /\ (kr \/ fs["pub"] = c.pub)
  BY DEF Submitted
<1> DEFINE L == LastMv(c) \o r
<1>1. /\ r \in Seq(Ex) /\ r \in Seq(Ops) /\ L \in Seq(Ops) /\ L \in Seq(Ex)
  <2>1. r \in Seq(Ex) /\ r \in Seq(Ops) /\ LastMv(c) \in Seq(Ops) /\ LastMv(c) \in Seq(Ex)
    BY ExchangeOps
  <2> QED BY <2>1, ConcatProperties
<1>2. /\ M \in Seq(Ops) /\ M2 \in Seq(Ex) /\ M3 \in Seq(Ex) /\ M4 \in Seq(Ex)
      /\ M # <<>> /\ M2 # <<>> /\ M3 # <<>> /\ M4 # <<>>
      /\ Head(M2) = SaveMvKey /\ Head(M3) = Rm("pub") /\ Head(M4) = SaveMvPub
  BY ExchangeOps
<1>3. ASSUME NEW m \in Seq(Ex), m # <<>>, NEW s \in Seq(Ex),
             Head(m) \in {Rm("pub"), SaveMvKey, SaveMvPub}
      PROVE  Exchanging(m \o s) /\ m \o s # <<>>
  <2>1. m \o s \in Seq(Ex) /\ m \o s # <<>> /\ Head(m \o s) = Head(m)
    BY <1>3, ConsPlan
  <2> QED BY <1>3, <2>1 DEF Exchanging
<1> HIDE DEF Ex, M, M2, M3, M4
<1>4. CASE \E p \in Seq(PrepOps) : /\ td = p \o (M \o L)
                                   /\ Paired(kr, fs["key"], fs["pub"])
  <2>1. PICK p \in Seq(PrepOps) : td = p \o (M \o L)
    BY <1>4
  <2> HIDE DEF L
  <2>2. M \o L \in Seq(Ops) /\ M \o L # <<>> /\ p \in Seq(Ops)
    BY <1>1, <1>2, ConsPlan, ExchangeOps
  <2>3. td # <<>>
    <3>1. CASE p = <<>>
      BY <2>1, <2>2, <3>1, ConcatEmptySeq
    <3>2. CASE p # <<>>
      <4> DEFINE s == M \o L
      <4>1. s \in Seq(Ops)
        BY <2>2
      <4> HIDE DEF s
      <4>2. p \o s # <<>>
        BY <2>2, <3>2, <4>1, ConsPlan
      <4> QED BY <2>1, <4>2 DEF s
    <3> QED BY <3>1, <3>2
  <2> QED BY <1>4, <2>3
<1>5. CASE td = M2 \o L
  <2> HIDE DEF L
  <2> QED BY <1>1, <1>2, <1>3, <1>5
<1>6. CASE td = M3 \o L
  <2> HIDE DEF L
  <2> QED BY <1>1, <1>2, <1>3, <1>6
<1>7. CASE td = r /\ fs["key"] = c.key /\ (kr \/ fs["pub"] = c.pub)
  BY <1>7 DEF Paired
<1>8. CASE td = L /\ fs["key"] = c.key /\ (kr \/ fs["pub"] = Absent)
  <2>1. CASE c.pub # Absent
    <3>1. L = M4 \o r
      BY <2>1, LastMvFacts DEF M4
    <3> HIDE DEF L
    <3> QED BY <1>1, <1>2, <1>3, <1>8, <3>1
  <2>2. CASE c.pub = Absent
    BY <1>7, <1>8, <2>2 DEF Paired
  <2> QED BY <2>1, <2>2
<1> QED BY <1>0, <1>4, <1>5, <1>6, <1>7, <1>8

\* The same two facts for persistKeyPair, whose cleanup may remove the new key.
LEMMA MadeStep ==
  ASSUME NEW fs, FilesOK(fs), NEW c, c.key \in PrivateKeys, c.pub \in Pairs,
         NEW kr, NEW td, td # <<>>, Made(td, fs, c, kr)
  PROVE  /\ Made(Tail(td), Done(fs, Head(td)), c, kr)
         /\ Head(td).op \notin {"put", "mv"} => Made(Tail(td), fs, c, kr)
         /\ Head(td).op \in {"put", "mv"} => Head(td).undo \in Seq(RmOps)
<1> DEFINE M == <<Rm("key"), Rm("pub"), MadeMvKey, MadeMvPub>>
           M2 == <<Rm("pub"), MadeMvKey, MadeMvPub>>
           M3 == <<MadeMvKey, MadeMvPub>>
           M4 == <<MadeMvPub>>
           o == Head(td)
           gs == Done(fs, o)
<1>1. /\ M \in Seq(Ops) /\ M # <<>>
      /\ Head(M) = Rm("key") /\ Tail(M) = M2 /\ Head(M2) = Rm("pub") /\ Tail(M2) = M3
      /\ Head(M3) = MadeMvKey /\ Tail(M3) = M4 /\ Head(M4) = MadeMvPub /\ Tail(M4) = <<>>
  BY ExchangeOps
<1>a. ASSUME NEW p \in Seq(PrepOps), NEW t, NEW f, t = p \o M,
             Arrives(f, p, "keyTmp", c.key), Arrives(f, p, "pubTmp", c.pub),
             Paired(kr, f["key"], f["pub"])
      PROVE  Made(t, f, c, kr)
  BY <1>a DEF Made
<1>b. ASSUME NEW t \in {M2, M3}, NEW f, f["keyTmp"] = c.key, f["pubTmp"] = c.pub
      PROVE  Made(t, f, c, kr)
  BY <1>b DEF Made
<1>c. ASSUME NEW f, f["key"] = c.key, f["pubTmp"] = c.pub
      PROVE  Made(M4, f, c, kr)
  BY <1>c DEF Made
<1>d. ASSUME NEW f, f["key"] = c.key, f["pub"] = c.pub
      PROVE  Made(<<>>, f, c, kr)
  BY <1>d DEF Made
<1>0. \/ \E p \in Seq(PrepOps) :
           /\ td = p \o M
           /\ Arrives(fs, p, "keyTmp", c.key) /\ Arrives(fs, p, "pubTmp", c.pub)
           /\ Paired(kr, fs["key"], fs["pub"])
      \/ td \in {M2, M3} /\ fs["keyTmp"] = c.key /\ fs["pubTmp"] = c.pub
      \/ td = M4 /\ fs["key"] = c.key /\ fs["pubTmp"] = c.pub
  BY DEF Made
<1> HIDE DEF M, M2, M3, M4, o, gs
<1> SUFFICES /\ Made(Tail(td), gs, c, kr)
             /\ o.op \notin {"put", "mv"} => Made(Tail(td), fs, c, kr)
             /\ o.op \in {"put", "mv"} => o.undo \in Seq(RmOps)
  BY DEF o, gs
<1>u. /\ MadeMvKey.undo \in Seq(RmOps) /\ MadeMvPub.undo \in Seq(RmOps)
      /\ \A s \in Seq(TmpRm) : s \in Seq(RmOps)
  <2>1. Rm("keyTmp") \in RmOps /\ Rm("pubTmp") \in RmOps /\ Rm("key") \in RmOps
    BY OpSets DEF Names
  <2>2. TmpRm \subseteq RmOps
    BY KeyOpFacts, OpSets
  <2>3. MadeMvKey.undo \in Seq(RmOps) /\ MadeMvPub.undo \in Seq(RmOps)
    BY <2>1 DEF MadeMvKey, MadeMvPub, Mv
  <2>4. \A s \in Seq(TmpRm) : s \in Seq(RmOps)
    BY <2>2, SeqWidens
  <2> QED BY <2>3, <2>4
<1>2. ASSUME NEW p \in Seq(PrepOps), p # <<>>, td = p \o M,
             Arrives(fs, p, "keyTmp", c.key), Arrives(fs, p, "pubTmp", c.pub),
             Paired(kr, fs["key"], fs["pub"])
      PROVE  /\ Made(Tail(td), gs, c, kr)
             /\ o.op \notin {"put", "mv"} => Made(Tail(td), fs, c, kr)
             /\ o.op \in {"put", "mv"} => o.undo \in Seq(RmOps)
  <2>1. p \in Seq(Ops)
    BY ExchangeOps
  <2>2. o = Head(p) /\ Tail(td) = Tail(p) \o M
    BY <1>1, <1>2, <2>1, ConsPlan DEF o
  <2>3. o \in PrepOps /\ Tail(p) \in Seq(PrepOps)
    BY <1>2, <2>2, FirstStep
  <2>4. /\ gs["key"] = fs["key"] /\ gs["pub"] = fs["pub"] /\ o.op \in {"rm", "put"}
        /\ o.op = "put" => o.undo \in Seq(TmpRm)
    BY <2>3, PrepDone DEF gs
  <2>5. /\ Arrives(gs, Tail(p), "keyTmp", c.key)
        /\ o.op = "rm" => Arrives(fs, Tail(p), "keyTmp", c.key)
    BY <1>2, <2>2, ArrivesStep DEF gs
  <2>6. /\ Arrives(gs, Tail(p), "pubTmp", c.pub)
        /\ o.op = "rm" => Arrives(fs, Tail(p), "pubTmp", c.pub)
    BY <1>2, <2>2, ArrivesStep DEF gs
  <2>7. Made(Tail(td), gs, c, kr)
    BY <1>2, <1>a, <2>2, <2>3, <2>4, <2>5, <2>6
  <2>8. o.op \notin {"put", "mv"} => Made(Tail(td), fs, c, kr)
    BY <1>2, <1>a, <2>2, <2>3, <2>4, <2>5, <2>6
  <2> QED BY <1>u, <2>4, <2>7, <2>8
<1>3. ASSUME NEW p \in Seq(PrepOps), p = <<>>, td = p \o M,
             Arrives(fs, p, "keyTmp", c.key), Arrives(fs, p, "pubTmp", c.pub)
      PROVE  /\ Made(Tail(td), gs, c, kr) /\ Made(Tail(td), fs, c, kr) /\ o.op = "rm"
  <2>1. td = M
    BY <1>1, <1>3, ConcatEmptySeq
  <2>2. o = Rm("key") /\ Tail(td) = M2 /\ o.op = "rm"
    BY <1>1, <2>1, ExchangeOps DEF o
  <2>3. fs["keyTmp"] = c.key /\ fs["pubTmp"] = c.pub
    BY <1>3, ArrivesEnd
  <2>4. gs["keyTmp"] = fs["keyTmp"] /\ gs["pubTmp"] = fs["pubTmp"]
    BY <2>2, KeyDone DEF gs
  <2> QED BY <1>b, <2>2, <2>3, <2>4
<1>4. CASE td = M2 /\ fs["keyTmp"] = c.key /\ fs["pubTmp"] = c.pub
  <2>1. o = Rm("pub") /\ Tail(td) = M3 /\ o.op = "rm"
    BY <1>1, <1>4, ExchangeOps DEF o
  <2>2. gs["keyTmp"] = fs["keyTmp"] /\ gs["pubTmp"] = fs["pubTmp"]
    BY <2>1, KeyDone DEF gs
  <2> QED BY <1>b, <1>4, <2>1, <2>2
<1>5. CASE td = M3 /\ fs["keyTmp"] = c.key /\ fs["pubTmp"] = c.pub
  <2>1. o = MadeMvKey /\ Tail(td) = M4 /\ o.op = "mv"
    BY <1>1, <1>5, ExchangeOps DEF o
  <2>2. gs["key"] = fs["keyTmp"] /\ gs["pubTmp"] = fs["pubTmp"]
    BY <2>1, KeyDone DEF gs
  <2> QED BY <1>c, <1>u, <1>5, <2>1, <2>2
<1>6. CASE td = M4 /\ fs["key"] = c.key /\ fs["pubTmp"] = c.pub
  <2>1. o = MadeMvPub /\ Tail(td) = <<>> /\ o.op = "mv"
    BY <1>1, <1>6, ExchangeOps DEF o
  <2>2. gs["pub"] = fs["pubTmp"] /\ gs["key"] = fs["key"]
    BY <2>1, KeyDone DEF gs
  <2> QED BY <1>d, <1>u, <1>6, <2>1, <2>2
<1> QED BY <1>0, <1>2, <1>3, <1>4, <1>5, <1>6

LEMMA MadeCut ==
  ASSUME NEW fs, NEW c, c.key \in PrivateKeys, c.pub \in Pairs, NEW kr,
         Paired(kr, c.key, c.pub), NEW td, Made(td, fs, c, kr)
  PROVE  /\ Exchanging(td) \/ Paired(kr, fs["key"], fs["pub"])
         /\ td = <<>> => fs["key"] = c.key /\ fs["pub"] = c.pub
<1> DEFINE M == <<Rm("key"), Rm("pub"), MadeMvKey, MadeMvPub>>
           M2 == <<Rm("pub"), MadeMvKey, MadeMvPub>>
           M3 == <<MadeMvKey, MadeMvPub>>
           M4 == <<MadeMvPub>>
<1>1. /\ M \in Seq(Ops) /\ M # <<>> /\ M2 # <<>> /\ M3 # <<>> /\ M4 # <<>>
      /\ Head(M2) = Rm("pub") /\ Head(M3) = MadeMvKey /\ Head(M4) = MadeMvPub
  BY ExchangeOps
<1>2. Exchanging(M2) /\ Exchanging(M3) /\ Exchanging(M4)
  <2>1. LET Ex == Ops \ {Rm("key")} IN M2 \in Seq(Ex) /\ M3 \in Seq(Ex) /\ M4 \in Seq(Ex)
    BY ExchangeOps
  <2> QED BY <1>1, <2>1 DEF Exchanging
<1>3. CASE \E p \in Seq(PrepOps) : td = p \o M /\ Paired(kr, fs["key"], fs["pub"])
  <2>1. PICK p \in Seq(PrepOps) : td = p \o M
    BY <1>3
  <2> HIDE DEF M
  <2>2. p \in Seq(Ops)
    BY ExchangeOps
  <2>3. td # <<>>
    <3>1. CASE p = <<>>
      BY <1>1, <2>1, <3>1, ConcatEmptySeq
    <3>2. CASE p # <<>>
      BY <1>1, <2>1, <2>2, <3>2, ConsPlan
    <3> QED BY <3>1, <3>2
  <2> QED BY <1>3, <2>3
<1>4. CASE td \in {M2, M3} \/ td = M4
  BY <1>1, <1>2, <1>4
<1>5. CASE td = <<>> /\ fs["key"] = c.key /\ fs["pub"] = c.pub
  BY <1>5 DEF Paired
<1> QED BY <1>3, <1>4, <1>5 DEF Made

LEMMA PairedMore ==
  ASSUME NEW kr, NEW kk, kr => kk
  PROVE  /\ \A k, p : Paired(kr, k, p) => Paired(kk, k, p)
         /\ \A td, fs, c : Submitted(td, fs, c, kr) => Submitted(td, fs, c, kk)
         /\ \A td, fs, c : Made(td, fs, c, kr) => Made(td, fs, c, kk)
<1>1. \A k, p : Paired(kr, k, p) => Paired(kk, k, p)
  BY DEF Paired
<1>2. ASSUME NEW td, NEW fs, NEW c, Submitted(td, fs, c, kr)
      PROVE  Submitted(td, fs, c, kk)
  <2>1. PICK r \in Seq(NonKeyOps) :
        \/ \E p \in Seq(PrepOps) :
             /\ td = p \o (<<Rm("key"), SaveMvKey, Rm("pub")>> \o (LastMv(c) \o r))
             /\ Arrives(fs, p, "keyTmp", c.key)
             /\ c.pub # Absent => Arrives(fs, p, "pubTmp", c.pub)
             /\ Paired(kk, fs["key"], fs["pub"])
        \/ /\ td = <<SaveMvKey, Rm("pub")>> \o (LastMv(c) \o r)
           /\ fs["keyTmp"] = c.key /\ (c.pub # Absent => fs["pubTmp"] = c.pub)
        \/ /\ td = <<Rm("pub")>> \o (LastMv(c) \o r) /\ fs["key"] = c.key
           /\ c.pub # Absent => fs["pubTmp"] = c.pub
        \/ /\ td = LastMv(c) \o r /\ fs["key"] = c.key
           /\ c.pub # Absent => fs["pubTmp"] = c.pub
           /\ kk \/ fs["pub"] = Absent
        \/ td = r /\ fs["key"] = c.key /\ (kk \/ fs["pub"] = c.pub)
    BY <1>1, <1>2 DEF Submitted
  <2> QED BY <2>1 DEF Submitted
<1>3. ASSUME NEW td, NEW fs, NEW c, Made(td, fs, c, kr)
      PROVE  Made(td, fs, c, kk)
  BY <1>1, <1>3 DEF Made
<1> QED BY <1>1, <1>2, <1>3

\* Only the key files matter to it.
LEMMA KeyStageSame ==
  ASSUME NEW fs, NEW gs, \A g \in KeyNames : gs[g] = fs[g], NEW kr, NEW td, NEW h, NEW fd,
         KeyStage(h, td, fd, fs, kr)
  PROVE  KeyStage(h, td, fd, gs, kr)
<1>0. /\ gs["key"] = fs["key"] /\ gs["keyTmp"] = fs["keyTmp"]
      /\ gs["pub"] = fs["pub"] /\ gs["pubTmp"] = fs["pubTmp"]
  BY DEF KeyNames
<1>1. ASSUME NEW p, NEW f \in {"keyTmp", "pubTmp"}, NEW v, Arrives(fs, p, f, v)
      PROVE  Arrives(gs, p, f, v)
  <2>1. gs[f] = fs[f]
    BY <1>0
  <2> QED BY <1>1, <2>1 DEF Arrives
<1>2. ASSUME NEW c, Submitted(td, fs, c, kr) PROVE Submitted(td, gs, c, kr)
  <2>1. PICK r \in Seq(NonKeyOps) :
        \/ \E p \in Seq(PrepOps) :
             /\ td = p \o (<<Rm("key"), SaveMvKey, Rm("pub")>> \o (LastMv(c) \o r))
             /\ Arrives(gs, p, "keyTmp", c.key)
             /\ c.pub # Absent => Arrives(gs, p, "pubTmp", c.pub)
             /\ Paired(kr, gs["key"], gs["pub"])
        \/ /\ td = <<SaveMvKey, Rm("pub")>> \o (LastMv(c) \o r)
           /\ gs["keyTmp"] = c.key /\ (c.pub # Absent => gs["pubTmp"] = c.pub)
        \/ /\ td = <<Rm("pub")>> \o (LastMv(c) \o r) /\ gs["key"] = c.key
           /\ c.pub # Absent => gs["pubTmp"] = c.pub
        \/ /\ td = LastMv(c) \o r /\ gs["key"] = c.key
           /\ c.pub # Absent => gs["pubTmp"] = c.pub
           /\ kr \/ gs["pub"] = Absent
        \/ td = r /\ gs["key"] = c.key /\ (kr \/ gs["pub"] = c.pub)
    BY <1>0, <1>1, <1>2 DEF Submitted
  <2> QED BY <2>1 DEF Submitted
<1>3. ASSUME NEW c, Made(td, fs, c, kr) PROVE Made(td, gs, c, kr)
  BY <1>0, <1>1, <1>3 DEF Made
<1> QED BY <1>0, <1>2, <1>3 DEF KeyStage

\* An operation that at most removes keys does not mix two pairs.
LEMMA OtherDone ==
  ASSUME NEW fs, FilesOK(fs), NEW o \in OtherOps, NEW kr
  PROVE  /\ Paired(kr, fs["key"], fs["pub"]) =>
              Paired(kr, Done(fs, o)["key"], Done(fs, o)["pub"])
         /\ o.op \in {"put", "mv"} => o.undo \in Seq(OtherOps)
         /\ o \in KeepOps => /\ Done(fs, o)["key"] = fs["key"]
                             /\ o.op \in {"put", "mv"} => o.undo \in Seq(KeepOps)
<1>1. CASE o \in NonKeyOps
  <2>1. /\ Done(fs, o)["key"] = fs["key"] /\ Done(fs, o)["pub"] = fs["pub"]
        /\ o.op \in {"put", "mv"} => o.undo \in Seq(NonKeyOps)
    BY <1>1, NonKeyDone DEF KeyNames
  <2>2. NonKeyOps \subseteq OtherOps /\ NonKeyOps \subseteq KeepOps
    BY KeySets
  <2>3. o.op \in {"put", "mv"} => o.undo \in Seq(OtherOps) /\ o.undo \in Seq(KeepOps)
    BY <2>1, <2>2, SeqWidens
  <2> QED BY <2>1, <2>3
<1>2. CASE o \in RmOps
  <2>1. o \in Ops /\ o.op = "rm" /\ DOMAIN fs = Names
    BY <1>2, OpSets DEF RmOps, FilesOK
  <2>2. /\ Done(fs, o)["key"] \in {fs["key"], Absent}
        /\ Done(fs, o)["pub"] \in {fs["pub"], Absent}
        /\ o.file # "key" => Done(fs, o)["key"] = fs["key"]
    <3>1. "key" \in Names /\ "pub" \in Names
      BY DEF Names
    <3> QED BY <2>1, <3>1, DoneFacts
  <2>3. o \in KeepOps => o.file # "key"
    BY DEF KeepOps, NonKeyOps, TmpRm, KeyNames
  <2> QED BY <2>1, <2>2, <2>3 DEF Paired
<1> QED BY <1>1, <1>2 DEF OtherOps

\* The next operation of a handler succeeds.
LEMMA KeyFileOp ==
  ASSUME TypeInv, PairInv, todo # <<>>
  PROVE  KeyStage(handler, Tail(todo), failed, Done(files, Head(todo)), keyRisk)
<1> DEFINE o == Head(todo)
           t == Tail(todo)
           gs == Done(files, o)
           n == handler.name
           c == handler.cfg
<1>0. /\ FilesOK(files) /\ SavesWell(n, c) /\ c \in Configs
      /\ KeyStage(handler, todo, failed, files, keyRisk)
  BY DEF TypeInv, ControlOK, PairInv
<1>1. Submits(n, c, failed) => Submitted(t, gs, c, keyRisk)
  <2>1. ASSUME Submits(n, c, failed) PROVE Submitted(t, gs, c, keyRisk)
    <3>1. c.key \in PrivateKeys /\ c.pub \in Pairs \cup {Absent}
      BY <1>0, <2>1, FieldFacts DEF SavesWell, Submits
    <3>2. Submitted(todo, files, c, keyRisk)
      BY <1>0, <2>1 DEF KeyStage
    <3> QED BY <1>0, <3>1, <3>2, SubmittedStep
  <2> QED BY <2>1
<1>2. Makes(n, failed) => Made(t, gs, c, keyRisk)
  <2>1. ASSUME Makes(n, failed) PROVE Made(t, gs, c, keyRisk)
    <3>1. c.key \in PrivateKeys /\ c.pub \in Pairs
      BY <1>0, <2>1 DEF SavesWell, Makes
    <3>2. Made(todo, files, c, keyRisk)
      BY <1>0, <2>1 DEF KeyStage
    <3> QED BY <1>0, <3>1, <3>2, MadeStep
  <2> QED BY <2>1
<1>3. ~Submits(n, c, failed) /\ ~Makes(n, failed) =>
        t \in Seq(OtherOps) /\ Paired(keyRisk, gs["key"], gs["pub"])
  <2>1. ASSUME ~Submits(n, c, failed), ~Makes(n, failed)
        PROVE  t \in Seq(OtherOps) /\ Paired(keyRisk, gs["key"], gs["pub"])
    <3>1. todo \in Seq(OtherOps) /\ Paired(keyRisk, files["key"], files["pub"])
      BY <1>0, <2>1 DEF KeyStage
    <3>2. o \in OtherOps /\ t \in Seq(OtherOps)
      BY <3>1, FirstStep
    <3> QED BY <1>0, <3>1, <3>2, OtherDone
  <2> QED BY <2>1
<1>4. Keeping(n, c, failed) => t \in Seq(KeepOps)
  BY <1>0, FirstStep DEF KeyStage
<1> QED BY <1>1, <1>2, <1>3, <1>4 DEF KeyStage

\* Where a handler is cut, the keys on flash belong together or it is a risk.
LEMMA KeysCut ==
  ASSUME TypeInv, PairInv
  PROVE  Paired(keyRisk \/ KeysInFlux, files["key"], files["pub"])
<1> DEFINE n == handler.name
           c == handler.cfg
           kk == keyRisk \/ KeysInFlux
<1>0. /\ SavesWell(n, c) /\ c \in Configs /\ Paired(keyRisk, c.key, c.pub)
      /\ KeyStage(handler, todo, failed, files, keyRisk)
  BY DEF TypeInv, ControlOK, PairInv
<1>1. ASSUME n \in {"device", "identity"},
             Exchanging(todo) \/ Paired(keyRisk, files["key"], files["pub"])
      PROVE  Paired(kk, files["key"], files["pub"])
  <2>1. CASE Exchanging(todo)
    <3>1. KeysInFlux
      BY <1>1, <2>1, ExchangeSeen
    <3> QED BY <3>1 DEF Paired
  <2>2. CASE Paired(keyRisk, files["key"], files["pub"])
    BY <2>2 DEF Paired
  <2> QED BY <1>1, <2>1, <2>2
<1>2. CASE Submits(n, c, failed)
  <2>1. n = "device" /\ c.key \in PrivateKeys /\ c.pub \in Pairs \cup {Absent}
    BY <1>0, <1>2, FieldFacts DEF SavesWell, Submits
  <2>2. Submitted(todo, files, c, keyRisk)
    BY <1>0, <1>2 DEF KeyStage
  <2> QED BY <1>0, <1>1, <2>1, <2>2, SubmittedCut
<1>3. CASE Makes(n, failed)
  <2>1. n = "identity" /\ c.key \in PrivateKeys /\ c.pub \in Pairs
    BY <1>0, <1>3 DEF SavesWell, Makes
  <2>2. Made(todo, files, c, keyRisk)
    BY <1>0, <1>3 DEF KeyStage
  <2> QED BY <1>0, <1>1, <2>1, <2>2, MadeCut
<1>4. CASE ~Submits(n, c, failed) /\ ~Makes(n, failed)
  BY <1>0, <1>4 DEF KeyStage, Paired
<1> QED BY <1>2, <1>3, <1>4

\* It fails.
LEMMA KeyFileOpFails ==
  ASSUME TypeInv, PairInv, FileOpFails
  PROVE  KeyStage(handler, todo', failed', files, keyRisk')
<1> DEFINE o == Head(todo)
           t == Tail(todo)
           n == handler.name
           c == handler.cfg
<1>0. /\ FilesOK(files) /\ SavesWell(n, c) /\ c \in Configs /\ todo \in Seq(Ops)
      /\ KeyStage(handler, todo, failed, files, keyRisk) /\ failed \in BOOLEAN
  BY DEF TypeInv, ControlOK, PairInv
<1>1. /\ todo # <<>> /\ (keyRisk => keyRisk') /\ (KeysInFlux => keyRisk')
      /\ o.op \in {"put", "mv"} => todo' = o.undo /\ failed'
      /\ o.op \notin {"put", "mv"} => todo' = t /\ (n # "factory" => failed' = failed)
  BY <1>0 DEF FileOpFails
<1>2. Paired(keyRisk', files["key"], files["pub"])
  <2>1. Paired(keyRisk \/ KeysInFlux, files["key"], files["pub"])
    BY KeysCut
  <2> QED BY <1>1, <2>1 DEF Paired
<1>3. o \in Ops /\ t \in Seq(Ops)
  BY <1>0, <1>1, FirstStep
<1>s. ASSUME Submits(n, c, failed)
      PROVE  /\ o.op \notin {"put", "mv"} => Submitted(t, files, c, keyRisk')
             /\ o.op \in {"put", "mv"} => o.undo \in Seq(KeepOps)
  <2>1. n = "device" /\ c.key \in PrivateKeys /\ c.pub \in Pairs \cup {Absent}
    BY <1>0, <1>s, FieldFacts DEF SavesWell, Submits
  <2>2. Submitted(todo, files, c, keyRisk)
    BY <1>0, <1>s DEF KeyStage
  <2>3. /\ o.op \notin {"put", "mv"} =>
              \/ Submitted(t, files, c, keyRisk)
              \/ Exchanging(todo) /\ Submitted(t, files, c, TRUE)
        /\ o.op \in {"put", "mv"} => o.undo \in Seq(KeepOps)
    BY <1>0, <1>1, <2>1, <2>2, SubmittedStep
  <2>4. ASSUME Submitted(t, files, c, keyRisk) PROVE Submitted(t, files, c, keyRisk')
    BY <1>1, <2>4, PairedMore
  <2>5. ASSUME Exchanging(todo), Submitted(t, files, c, TRUE)
        PROVE  Submitted(t, files, c, keyRisk')
    <3>1. keyRisk'
      BY <1>1, <2>1, <2>5, ExchangeSeen
    <3> QED BY <2>5, <3>1, PairedMore
  <2> QED BY <2>3, <2>4, <2>5
<1>k. ASSUME Keeping(n, c, failed)
      PROVE  t \in Seq(KeepOps) /\ (o.op \in {"put", "mv"} => o.undo \in Seq(KeepOps))
  <2>1. todo \in Seq(KeepOps)
    BY <1>0, <1>k DEF KeyStage
  <2>2. o \in KeepOps /\ t \in Seq(KeepOps)
    BY <1>1, <2>1, FirstStep
  <2>3. o \in OtherOps
    BY <2>2, KeySets
  <2> QED BY <1>0, <2>2, <2>3, OtherDone
<1>4. CASE o.op \in {"put", "mv"}
  <2>1. todo' = o.undo /\ failed'
    BY <1>1, <1>4
  <2>2. ~Submits(n, c, failed') /\ ~Makes(n, failed')
    BY <2>1 DEF Submits, Makes
  <2>3. o.undo \in Seq(UndoOps)
    BY <1>3, <1>4 DEF Ops, UndoOps, CfgOps, KeyOps, MarkOps, RmOps, PutOps, MvOps,
                      RestoreCfg, Restore
  <2>4. todo' \in Seq(OtherOps)
    BY <2>1, <2>3, KeySets, SeqWidens
  <2>5. Keeping(n, c, failed') => todo' \in Seq(KeepOps)
    <3>1. Keeping(n, c, failed') => Keeping(n, c, failed) \/ Submits(n, c, failed)
      BY DEF Keeping, Submits
    <3> QED BY <1>4, <1>k, <1>s, <2>1, <3>1
  <2> QED BY <1>2, <2>2, <2>4, <2>5 DEF KeyStage
<1>5. CASE o.op \notin {"put", "mv"}
  <2>1. todo' = t
    BY <1>1, <1>5
  <2>2. /\ Submits(n, c, failed') <=> Submits(n, c, failed)
        /\ Makes(n, failed') <=> Makes(n, failed)
        /\ Keeping(n, c, failed') <=> Keeping(n, c, failed)
    <3>1. CASE n = "factory"
      BY <3>1 DEF Submits, Makes, Keeping
    <3>2. CASE n # "factory"
      <4>1. failed' = failed
        BY <1>1, <1>5, <3>2
      <4> QED BY <4>1
    <3> QED BY <3>1, <3>2
  <2>3. ASSUME Makes(n, failed) PROVE Made(t, files, c, keyRisk')
    <3>1. c.key \in PrivateKeys /\ c.pub \in Pairs
      BY <1>0, <2>3 DEF SavesWell, Makes
    <3>2. Made(todo, files, c, keyRisk)
      BY <1>0, <2>3 DEF KeyStage
    <3>3. Made(t, files, c, keyRisk)
      BY <1>0, <1>1, <1>5, <3>1, <3>2, MadeStep
    <3> QED BY <1>1, <3>3, PairedMore
  <2>4. ASSUME ~Submits(n, c, failed), ~Makes(n, failed) PROVE t \in Seq(OtherOps)
    <3>1. todo \in Seq(OtherOps)
      BY <1>0, <2>4 DEF KeyStage
    <3> QED BY <1>1, <3>1, FirstStep
  <2> QED BY <1>2, <1>5, <1>k, <1>s, <2>1, <2>2, <2>3, <2>4 DEF KeyStage
<1> QED BY <1>4, <1>5

\* Plans that name no key file.
LEMMA NonKeyPlans ==
  /\ <<>> \in Seq(NonKeyOps) /\ <<Rm("edit")>> \in Seq(NonKeyOps)
  /\ \A b \in BOOLEAN : When(b, <<Rm("wifiReset")>>) \in Seq(NonKeyOps)
  /\ <<Put("edit", "1", <<>>)>> \in Seq(NonKeyOps)
  /\ <<Put("wifiReset", "1", <<>>), Rm("edit")>> \in Seq(NonKeyOps)
  /\ <<RestoreCfg>> \in Seq(NonKeyOps) /\ <<RmBak>> \in Seq(NonKeyOps)
<1>1. {Rm("edit"), Rm("wifiReset"), RmBak, RestoreCfg} \subseteq NonKeyOps
  BY OpSets DEF Names, NonKeyOps, KeyNames, Rm, RmBak, RestoreCfg, Restore
<1>2. <<>> \in Seq(CfgUndo) /\ <<>> \in Seq(UndoOps)
  OBVIOUS
<1>3. Put("edit", "1", <<>>) \in NonKeyOps /\ Put("wifiReset", "1", <<>>) \in NonKeyOps
  BY <1>2 DEF Put, NonKeyOps, KeyNames, Ops, MarkOps, PutOps
<1>4. <<Rm("wifiReset")>> \in Seq(NonKeyOps) /\ <<>> \in Seq(NonKeyOps)
  BY <1>1
<1>5. \A b \in BOOLEAN : When(b, <<Rm("wifiReset")>>) \in Seq(NonKeyOps)
  BY <1>4 DEF When
<1> QED BY <1>1, <1>3, <1>5

\* A handler that leaves the key files alone.
LEMMA PairPlain ==
  ASSUME handler'.name \in {"none", "boot", "wifi", "wifiRestart", "managed", "request"},
         todo' \in Seq(NonKeyOps),
         Paired(keyRisk', files'["key"], files'["pub"]),
         Paired(keyRisk', now'.key, now'.pub),
         Paired(keyRisk', handler'.cfg.key, handler'.cfg.pub), PairMatches'
  PROVE  PairInv'
<1>1. todo' \in Seq(KeepOps)
  BY KeySets, SeqWidens
<1>2. todo' \in Seq(OtherOps)
  BY <1>1, KeySets, SeqWidens
<1>3. ~Submits(handler'.name, handler'.cfg, failed') /\ ~Makes(handler'.name, failed')
  BY DEF Submits, Makes
<1>4. KeyStage(handler', todo', failed', files', keyRisk')
  BY <1>1, <1>2, <1>3 DEF KeyStage
<1> QED BY <1>4 DEF PairInv

LEMMA InitPair == Init => PairInv
<1> SUFFICES ASSUME Init PROVE PairInv
  OBVIOUS
<1>1. /\ handler = Idle /\ todo = <<>> /\ now = Defaults /\ tunnel = Absent
  BY DEF Init
<1>2. Paired(keyRisk, files["key"], files["pub"])
  <2> DEFINE blank == [f \in Names |-> Absent]
  <2>1. CASE files = blank
    BY <2>1 DEF Names, Paired
  <2>2. ASSUME NEW x, files = [blank EXCEPT !["cfg"] = x]
        PROVE  Paired(keyRisk, files["key"], files["pub"])
    BY <2>2 DEF Names, Paired
  <2>3. ASSUME NEW x, NEW ec, NEW z \in {1, Absent},
               files = [blank EXCEPT !["cfg"] = x, !["key"] = [pair |-> 1, ec |-> ec],
                                     !["pub"] = z]
        PROVE  Paired(keyRisk, files["key"], files["pub"])
    BY <2>3 DEF Names, Paired
  <2> QED BY <2>1, <2>2, <2>3 DEF Init
<1>3. /\ Paired(keyRisk, now.key, now.pub)
      /\ Paired(keyRisk, handler.cfg.key, handler.cfg.pub)
  BY <1>1, ConfigFacts DEF Paired
<1>4. todo \in Seq(KeepOps) /\ todo \in Seq(OtherOps)
  BY <1>1
<1>5. ~Submits(handler.name, handler.cfg, failed) /\ ~Makes(handler.name, failed)
  BY <1>1, ConfigFacts DEF Submits, Makes
<1>6. KeyStage(handler, todo, failed, files, keyRisk)
  BY <1>2, <1>4, <1>5 DEF KeyStage
<1> QED BY <1>1, <1>3, <1>6 DEF PairInv, PairMatches

LEMMA PairStep == TypeInv /\ PairInv /\ [Next]_vars => PairInv'
<1> SUFFICES ASSUME TypeInv, PairInv, [Next]_vars PROVE PairInv'
  OBVIOUS
<1>0. /\ FilesOK(files) /\ RamOK /\ ControlOK /\ BoundsOK /\ HistoryOK
      /\ PhaseInv /\ SavesWell(handler.name, handler.cfg)
  BY DEF TypeInv
<1>1. /\ now \in Configs /\ keys \in Nat /\ wifiReset \in BOOLEAN
      /\ handler \in [name : HandlerNames, cfg : Configs] /\ todo \in Seq(Ops)
      /\ handler.cfg \in Configs
  BY <1>0 DEF RamOK, BoundsOK, ControlOK
<1>2. /\ KeyStage(handler, todo, failed, files, keyRisk)
      /\ Paired(keyRisk, now.key, now.pub)
      /\ Paired(keyRisk, handler.cfg.key, handler.cfg.pub) /\ PairMatches
  BY DEF PairInv
<1>i. handler = Idle => handler.name = "none" /\ todo = <<>>
  BY <1>0, ConfigFacts DEF PhaseInv
<1>n. <<>> \in Seq(NonKeyOps)
  BY NonKeyPlans
\* Outside an exchange the keys on flash belong together.
<1>3. ASSUME handler.name \notin {"device", "identity"} \/ failed
      PROVE  Paired(keyRisk, files["key"], files["pub"])
  BY <1>2, <1>3 DEF KeyStage, Submits, Makes
<1>4. ASSUME UNCHANGED <<tunnel, keyRisk>> PROVE PairMatches'
  BY <1>2, <1>4 DEF PairMatches
<1>5. ASSUME Reset, Paired(keyRisk', files'["key"], files'["pub"]) PROVE PairInv'
  <2>1. /\ handler' = Idle /\ todo' = <<>> /\ now' = Defaults /\ tunnel' = Absent
    BY <1>5 DEF Reset
  <2>2. /\ Paired(keyRisk', now'.key, now'.pub) /\ handler'.name = "none"
        /\ Paired(keyRisk', handler'.cfg.key, handler'.cfg.pub) /\ PairMatches'
    BY <2>1, ConfigFacts DEF Paired, PairMatches
  <2> QED BY <1>5, <1>n, <2>1, <2>2, PairPlain
<1>6. CASE Boot
  <2>1. /\ phase = "off" /\ UNCHANGED <<files, now, tunnel, keyRisk>>
        /\ handler'.name = "boot" /\ handler'.cfg = now
        /\ todo' \in {<<>>, <<RestoreCfg>>, <<RmBak>>}
    BY <1>6 DEF Boot, Begin, history, When, RestoreCfg, RmBak
  <2>2. handler.name = "none"
    BY <1>0, <1>i, <2>1 DEF PhaseInv
  <2>3. todo' \in Seq(NonKeyOps)
    BY <2>1, NonKeyPlans
  <2>4. Paired(keyRisk, files["key"], files["pub"])
    BY <1>3, <2>2
  <2> QED BY <1>2, <1>4, <2>1, <2>3, <2>4, PairPlain
<1>7. CASE FormatStorage
  <2>1. /\ phase = "off" /\ UNCHANGED <<handler, todo, now, tunnel, keyRisk>>
        /\ files' = [f \in Names |-> Absent]
    BY <1>7 DEF FormatStorage, control, ram
  <2>2. handler'.name = "none" /\ todo' = <<>>
    BY <1>0, <1>i, <2>1 DEF PhaseInv
  <2>3. Paired(keyRisk', files'["key"], files'["pub"])
    BY <2>1 DEF Paired, Names
  <2> QED BY <1>2, <1>4, <1>n, <2>1, <2>2, <2>3, PairPlain
<1>8. CASE Load
  <2>1. /\ handler.name = "boot" /\ todo' = todo /\ todo = <<>> /\ handler' = Idle
        /\ now' = LoadedConfig /\ UNCHANGED <<files, tunnel, keyRisk>>
    BY <1>8 DEF Load
  <2>2. Paired(keyRisk, files["key"], files["pub"])
    BY <1>3, <2>1
  <2>3. Paired(keyRisk, LoadedConfig.key, LoadedConfig.pub)
    <3>1. \/ LoadedConfig.pub = Absent
          \/ LoadedConfig.key = files["key"] /\ LoadedConfig.pub = files["pub"]
      <4>1. CASE ~Loaded
        BY <4>1, ConfigFacts DEF LoadedConfig
      <4>2. CASE Loaded /\ ~files["cfg"].done
        BY <4>2 DEF LoadedConfig, Defaults
      <4>3. CASE Loaded /\ files["cfg"].done
        BY <4>3 DEF LoadedConfig
      <4> QED BY <4>1, <4>2, <4>3
    <3> QED BY <2>2, <3>1 DEF Paired
  <2>4. handler'.name = "none" /\ Paired(keyRisk', handler'.cfg.key, handler'.cfg.pub)
    BY <2>1, ConfigFacts DEF Paired
  <2> QED BY <1>4, <1>n, <2>1, <2>2, <2>3, <2>4, PairPlain
<1>9. CASE ConnectWiFi \/ OpenDevicePortal
  <2>1. /\ handler = Idle /\ UNCHANGED <<files, now, handler, todo, tunnel, keyRisk>>
    BY <1>9 DEF ConnectWiFi, OpenDevicePortal, AtRest, history, ram
  <2>2. handler'.name = "none" /\ todo' = <<>> /\ handler.name = "none"
    BY <1>i, <2>1
  <2> QED BY <1>2, <1>3, <1>4, <1>n, <2>1, <2>2, PairPlain
<1>10. CASE StartTunnel
  <2>1. /\ handler = Idle /\ phase = "setup" /\ now.done
        /\ tunnel' = HandedOver(now)
        /\ now' = [now EXCEPT !.key = Absent, !.pub = Absent]
        /\ UNCHANGED <<files, handler, todo, keyRisk>>
    BY <1>10 DEF StartTunnel, AtRest, history
  <2>2. handler'.name = "none" /\ todo' = <<>> /\ handler.name = "none"
    BY <1>i, <2>1
  <2>3. now'.pub = Absent
    BY <1>1, <2>1 DEF Configs
  <2>4. PairMatches'
    <3>1. CASE now.auth # "key"
      BY <2>1, <3>1 DEF HandedOver, PairMatches
    <3>2. CASE now.auth = "key"
      <4>1. now.key \in PrivateKeys
        BY <1>0, <2>1, <3>2 DEF PhaseInv
      <4>2. tunnel'.key = now.key /\ tunnel'.pub = now.pub
        BY <2>1, <3>2 DEF HandedOver
      <4>3. now.pub \in {now.key.pair, Absent} \/ keyRisk
        BY <1>2, <4>1, PrivateKeyFacts DEF Paired
      <4> QED BY <2>1, <4>2, <4>3 DEF PairMatches
    <3> QED BY <3>1, <3>2
  <2>5. Paired(keyRisk', now'.key, now'.pub)
    BY <2>3 DEF Paired
  <2> QED BY <1>2, <1>3, <1>n, <2>1, <2>2, <2>4, <2>5, PairPlain
<1>11. CASE EnsureIdentity
  <2>1. /\ handler = Idle /\ UNCHANGED <<files, tunnel, keyRisk>>
        /\ \/ /\ UNCHANGED <<handler, todo>>
              /\ now' = now \/ now' = WithKeys(now, files["key"], files["pub"])
           \/ /\ keys < MaxKeys /\ keys' = keys + 1 /\ now' = now
              /\ Begin("identity", Generated(now, keys'),
                       PersistKeyPair(Generated(now, keys')))
    BY <1>11 DEF EnsureIdentity, AtRest, history
  <2>2. Paired(keyRisk, files["key"], files["pub"])
    BY <1>3, <1>i, <2>1
  <2>3. CASE /\ UNCHANGED <<handler, todo>>
             /\ now' = now \/ now' = WithKeys(now, files["key"], files["pub"])
    <3>1. handler'.name = "none" /\ todo' = <<>>
      BY <1>i, <2>1, <2>3
    <3>2. /\ WithKeys(now, files["key"], files["pub"]).key = files["key"]
          /\ WithKeys(now, files["key"], files["pub"]).pub = files["pub"]
      BY <1>0, <1>1, WithKeysFacts DEF FilesOK
    <3>3. Paired(keyRisk', now'.key, now'.pub)
      BY <1>2, <2>1, <2>2, <2>3, <3>2
    <3> QED BY <1>2, <1>4, <1>n, <2>1, <2>2, <2>3, <3>1, <3>3, PairPlain
  <2>4. CASE /\ keys < MaxKeys /\ keys' = keys + 1 /\ now' = now
             /\ Begin("identity", Generated(now, keys'),
                      PersistKeyPair(Generated(now, keys')))
    <3> DEFINE c == Generated(now, keys')
    <3>1. keys' \in Pairs
      BY <1>1, <2>4, StoreAssumption DEF Pairs
    <3>2. c.key \in PrivateKeys /\ c.key.pair = keys' /\ c.pub = keys'
      <4>1. [pair |-> keys', ec |-> TRUE] \in PrivateKeys
        BY <3>1 DEF PrivateKeys
      <4> QED BY <1>1, <3>1, <4>1, WithKeysFacts DEF Generated
    <3>3. /\ handler'.name = "identity" /\ handler'.cfg = c
          /\ todo' = PersistKeyPair(c) /\ failed' = FALSE
      BY <2>4 DEF Begin
    <3> HIDE DEF c
    <3>4. PICK p \in Seq(PrepOps) :
             /\ PersistKeyPair(c) = p \o <<Rm("key"), Rm("pub"), MadeMvKey, MadeMvPub>>
             /\ Arrives(files, p, "keyTmp", c.key) /\ Arrives(files, p, "pubTmp", c.pub)
      BY <3>1, <3>2, PersistPlan
    <3>5. Made(todo', files', c, keyRisk')
      BY <2>1, <2>2, <3>3, <3>4 DEF Made
    <3>6. KeyStage(handler', todo', failed', files', keyRisk')
      BY <3>3, <3>5 DEF KeyStage, Submits, Makes, Keeping
    <3>7. Paired(keyRisk', handler'.cfg.key, handler'.cfg.pub)
      BY <3>2, <3>3 DEF Paired
    <3> QED BY <1>2, <1>4, <2>1, <2>4, <3>6, <3>7 DEF PairInv
  <2> QED BY <2>1, <2>3, <2>4
\* A handler begins.
<1>12. ASSUME NEW n, NEW c, NEW ops, Serve(n, c, ops), handler = Idle,
              Paired(keyRisk, now'.key, now'.pub), Paired(keyRisk, c.key, c.pub),
              \/ n \in {"wifi", "wifiRestart", "managed", "request"} /\ ops \in Seq(NonKeyOps)
              \/ n = "factory" /\ ops \in Seq(RmOps)
              \/ n = "device" /\ c.auth # "key" /\ ops \in Seq(OtherOps)
              \/ n = "device" /\ c.auth = "key" /\ Submitted(ops, files, c, keyRisk)
       PROVE  PairInv'
  <2>1. /\ handler'.name = n /\ handler'.cfg = c /\ todo' = ops /\ failed' = FALSE
        /\ UNCHANGED <<files, tunnel, keyRisk>>
    BY <1>12 DEF Serve, Begin
  <2>2. Paired(keyRisk, files["key"], files["pub"])
    BY <1>3, <1>i, <1>12
  <2>3. CASE n \in {"wifi", "wifiRestart", "managed", "request"} /\ ops \in Seq(NonKeyOps)
    BY <1>4, <1>12, <2>1, <2>2, <2>3, PairPlain
  <2>4. CASE n = "factory" /\ ops \in Seq(RmOps)
    <3>1. todo' \in Seq(OtherOps)
      BY <2>1, <2>4, KeySets, SeqWidens
    <3>2. KeyStage(handler', todo', failed', files', keyRisk')
      BY <2>1, <2>2, <2>4, <3>1 DEF KeyStage, Submits, Makes, Keeping
    <3> QED BY <1>4, <1>12, <2>1, <3>2 DEF PairInv
  <2>5. CASE n = "device" /\ c.auth # "key" /\ ops \in Seq(OtherOps)
    <3>1. KeyStage(handler', todo', failed', files', keyRisk')
      BY <2>1, <2>2, <2>5 DEF KeyStage, Submits, Makes, Keeping
    <3> QED BY <1>4, <1>12, <2>1, <3>1 DEF PairInv
  <2>6. CASE n = "device" /\ c.auth = "key" /\ Submitted(ops, files, c, keyRisk)
    <3>1. KeyStage(handler', todo', failed', files', keyRisk')
      BY <2>1, <2>2, <2>6 DEF KeyStage, Submits, Makes, Keeping
    <3> QED BY <1>4, <1>12, <2>1, <3>1 DEF PairInv
  <2> QED BY <1>12, <2>3, <2>4, <2>5, <2>6
<1>13. ASSUME NEW w \in Wifis, NEW vendorChanged \in BOOLEAN, WifiSave(w, vendorChanged)
       PROVE  PairInv'
  <2> DEFINE n == IF PreserveDeviceConfig \/ vendorChanged THEN "wifiRestart" ELSE "wifi"
             e == When(wifiReset, <<Rm("wifiReset")>>)
             ops == WriteConfig(now') \o e
  <2>1. /\ handler = Idle
        /\ now' = [now EXCEPT !.wifi = w, !.done = PreserveDeviceConfig]
        /\ Serve(n, now', ops)
    BY <1>13 DEF WifiSave, AtRest, Save
  <2>2. now.done => now.dev \in Devices
    BY <1>0 DEF PhaseInv
  <2>3. Storable(now') /\ now'.key = now.key /\ now'.pub = now.pub
    BY <1>1, <2>1, <2>2, WifiConfigFacts
  <2>4. n \in {"wifi", "wifiRestart"} /\ e \in Seq(NonKeyOps)
    BY <1>1, NonKeyPlans
  <2>5. WriteConfig(now') \in Seq(NonKeyOps)
    BY <2>3, WriteConfigPlan
  <2> HIDE DEF n, e
  <2>6. ops \in Seq(NonKeyOps)
    BY <2>4, <2>5, ConcatProperties
  <2> HIDE DEF ops
  <2>7. Paired(keyRisk, now'.key, now'.pub)
    BY <1>2, <2>3
  <2>8. n \in {"wifi", "wifiRestart", "managed", "request"} /\ ops \in Seq(NonKeyOps)
    BY <2>4, <2>6
  <2> QED BY <1>12, <2>1, <2>7, <2>8
<1>14. ASSUME NEW d \in Devices, NEW s \in Submissions, DeviceSave(d, s)
       PROVE  PairInv'
  <2> DEFINE c == [s EXCEPT !.done = TRUE, !.dev = d]
             first == IF c.auth = "key" THEN SaveKeys(c) ELSE <<Rm("key"), Rm("pub")>>
             W == WriteConfig(c)
             e == <<Rm("edit")>>
  <2>1. /\ handler = Idle /\ phase = "devicePortal" /\ now' = now
        /\ Serve("device", c, (first \o W) \o e)
    BY <1>14 DEF DeviceSave, AtRest, Save
  <2>2. now.wifi \in Wifis
    BY <1>0, <2>1 DEF PhaseInv, Joined
  <2>3. /\ Storable(c) /\ c \in Configs
        /\ c.auth = s.auth /\ c.key = s.key /\ c.pub = s.pub
    BY <1>1, <2>2, DeviceConfigFacts
  <2> HIDE DEF c
  <2>4. \/ c.auth = "password" /\ c.key = Absent /\ c.pub = Absent
        \/ /\ c.auth = "key" /\ c.key \in PrivateKeys /\ c.key.pair = keys + 1
           /\ c.pub \in {keys + 1, Absent}
        \/ /\ c.auth = "key" /\ c.key = now.key
           /\ now.key \in PrivateKeys /\ c.pub \in {now.pub, now.key.pair}
    BY <1>1, <2>3, SubmissionFacts
  <2>5. Paired(keyRisk, c.key, c.pub)
    <3>1. CASE c.auth = "password" /\ c.key = Absent /\ c.pub = Absent
      BY <3>1 DEF Paired
    <3>2. CASE /\ c.auth = "key" /\ c.key \in PrivateKeys /\ c.key.pair = keys + 1
               /\ c.pub \in {keys + 1, Absent}
      BY <3>2 DEF Paired
    <3>3. CASE /\ c.auth = "key" /\ c.key = now.key
               /\ now.key \in PrivateKeys /\ c.pub \in {now.pub, now.key.pair}
      BY <1>2, <3>3 DEF Paired
    <3> QED BY <2>4, <3>1, <3>2, <3>3
  <2>6. e \in Seq(NonKeyOps) /\ W \in Seq(NonKeyOps)
    BY <2>3, NonKeyPlans, WriteConfigPlan
  <2>7. first \in Seq(Ops) /\ (c.auth # "key" => first \in Seq(OtherOps))
        /\ (c.auth = "key" => c.key \in PrivateKeys /\ c.pub \in Pairs \cup {Absent})
    <3>1. CASE c.auth = "key"
      <4>1. c.pub \in Pairs \cup {Absent} /\ c.key \in PrivateKeys
        BY <2>3, <2>4, <3>1, FieldFacts
      <4>2. <<>> \in Seq(Ops)
        OBVIOUS
      <4>3. SaveKeys(c) \in Seq(QuietOps)
        BY <4>1, <4>2, SaveKeysPlan
      <4> QED BY <3>1, <4>1, <4>3, OpSets, SeqWidens
    <3>2. CASE c.auth # "key"
      <4>1. Rm("key") \in OtherOps /\ Rm("pub") \in OtherOps
        BY OpSets, KeySets DEF Names
      <4>2. <<Rm("key"), Rm("pub")>> \in Seq(OtherOps)
        BY <4>1
      <4>3. first \in Seq(OtherOps)
        BY <3>2, <4>2
      <4> QED BY <3>2, <4>3, KeySets, SeqWidens
    <3> QED BY <3>1, <3>2
  <2>f. c.auth = "key" => first = SaveKeys(c)
    OBVIOUS
  <2> HIDE DEF first, e, W
  <2>8. W \o e \in Seq(NonKeyOps)
    BY <2>6, ConcatProperties
  <2>9. W \in Seq(Ops) /\ e \in Seq(Ops) /\ W \o e \in Seq(Ops)
    BY <2>6, <2>8, ExchangeOps
  <2>10. (first \o W) \o e = first \o (W \o e)
    BY <2>7, <2>9, ConcatAssociative
  <2> DEFINE R == W \o e
             ops == first \o R
  <2>11. R \in Seq(NonKeyOps) /\ R \in Seq(Ops)
    BY <2>8, <2>9
  <2>12. Serve("device", c, ops)
    BY <2>1, <2>10
  <2>13. Paired(keyRisk, now'.key, now'.pub)
    BY <1>2, <2>1
  <2> HIDE DEF R
  <2>14. CASE c.auth # "key"
    <3>1. R \in Seq(OtherOps)
      <4>1. NonKeyOps \subseteq OtherOps
        BY KeySets
      <4> QED BY <2>11, <4>1, SeqWidens
    <3>2. ops \in Seq(OtherOps)
      BY <2>7, <2>14, <3>1, ConcatProperties
    <3> QED BY <1>12, <2>1, <2>5, <2>12, <2>13, <2>14, <3>2
  <2>15. CASE c.auth = "key"
    <3>1. PICK p \in Seq(PrepOps) :
            /\ SaveKeys(c) \o R =
                 p \o (<<Rm("key"), SaveMvKey, Rm("pub")>> \o (LastMv(c) \o R))
            /\ Arrives(files, p, "keyTmp", c.key)
            /\ c.pub # Absent => Arrives(files, p, "pubTmp", c.pub)
      BY <2>7, <2>11, <2>15, SaveKeysPlan
    <3>2. Paired(keyRisk, files["key"], files["pub"])
      BY <1>3, <1>i, <2>1
    <3>3. ops = p \o (<<Rm("key"), SaveMvKey, Rm("pub")>> \o (LastMv(c) \o R))
      BY <2>f, <2>15, <3>1
    <3> HIDE DEF ops
    <3>4. Submitted(ops, files, c, keyRisk)
      BY <2>11, <3>1, <3>2, <3>3 DEF Submitted
    <3> QED BY <1>12, <2>1, <2>5, <2>12, <2>13, <2>15, <3>4
  <2> QED BY <2>14, <2>15
<1>15. ASSUME NEW d \in Devices, ManagedSave(d)
       PROVE  PairInv'
  <2> DEFINE c == [now EXCEPT !.done = TRUE, !.dev = d]
  <2>1. /\ handler = Idle /\ now' = now
        /\ phase \in {"running", "paused", "wifiJoined", "transition", "devicePortal"}
        /\ Serve("managed", c, WriteConfig(c))
    BY <1>15 DEF ManagedSave, AtRest, Save
  <2>2. /\ c \in Configs /\ c.wifi = now.wifi /\ c.dev = d
        /\ c.key = now.key /\ c.pub = now.pub
    BY <1>1 DEF Configs
  <2> HIDE DEF c
  <2>3. Storable(c)
    BY <1>0, <2>1, <2>2 DEF Storable, PhaseInv, Joined
  <2>4. WriteConfig(c) \in Seq(NonKeyOps)
    BY <2>3, WriteConfigPlan
  <2>5. Paired(keyRisk, now'.key, now'.pub) /\ Paired(keyRisk, c.key, c.pub)
    BY <1>2, <2>1, <2>2
  <2> QED BY <1>12, <2>1, <2>4, <2>5
<1>16. CASE RequestEdit \/ RequestWifiReset
  <2>1. /\ handler = Idle /\ now' = now
        /\ \/ Serve("request", now, <<Put("edit", "1", <<>>)>>)
           \/ Serve("request", now, <<Put("wifiReset", "1", <<>>), Rm("edit")>>)
    BY <1>16 DEF RequestEdit, RequestWifiReset, AtRest
  <2>2. PICK ops \in Seq(NonKeyOps) : Serve("request", now, ops)
    BY <2>1, NonKeyPlans
  <2> QED BY <1>2, <1>12, <2>1, <2>2
<1>17. CASE FactoryReset
  <2>1. handler = Idle /\ now' = now /\ Serve("factory", now, Wipe)
    BY <1>17 DEF FactoryReset, AtRest
  <2> QED BY <1>2, <1>12, <2>1, WipePlan
<1>18. CASE FileOp
  <2>1. /\ todo # <<>> /\ files' = Done(files, Head(todo)) /\ todo' = Tail(todo)
        /\ UNCHANGED <<handler, failed, now, tunnel, keyRisk>>
    BY <1>18 DEF FileOp, history, ram
  <2>2. KeyStage(handler, Tail(todo), failed, Done(files, Head(todo)), keyRisk)
    BY <2>1, KeyFileOp
  <2>3. KeyStage(handler', todo', failed', files', keyRisk')
    BY <2>1, <2>2
  <2> QED BY <1>2, <1>4, <2>1, <2>3 DEF PairInv
<1>19. CASE FileOpFails
  <2>1. UNCHANGED <<files, handler, now, tunnel>> /\ (keyRisk => keyRisk')
    BY <1>19 DEF FileOpFails, ram
  <2>2. KeyStage(handler, todo', failed', files, keyRisk')
    BY <1>19, KeyFileOpFails
  <2>3. KeyStage(handler', todo', failed', files', keyRisk')
    BY <2>1, <2>2
  <2>4. /\ Paired(keyRisk', now'.key, now'.pub)
        /\ Paired(keyRisk', handler'.cfg.key, handler'.cfg.pub) /\ PairMatches'
    BY <1>2, <2>1 DEF Paired, PairMatches
  <2> QED BY <2>3, <2>4 DEF PairInv
<1>20. CASE ShortWrite
  <2>1. /\ todo # <<>> /\ todo' = Tail(todo)
        /\ Head(todo).file = "cfgTmp" /\ Head(todo).op = "put"
        /\ UNCHANGED <<handler, failed, now, tunnel, keyRisk>>
    BY <1>20 DEF ShortWrite, ram
  <2>2. PICK x : files' = [files EXCEPT !["cfgTmp"] = x]
    BY <1>20 DEF ShortWrite
  <2>3. KeyStage(handler, Tail(todo), failed, Done(files, Head(todo)), keyRisk)
    BY <2>1, KeyFileOp
  <2>4. \A g \in KeyNames : files'[g] = Done(files, Head(todo))[g]
    <3>1. DOMAIN files = Names /\ Head(todo) \in Ops
      BY <1>0, <1>1, <2>1, FirstStep DEF FilesOK
    <3>2. \A g \in KeyNames : g \in Names /\ g # "cfgTmp"
      BY DEF KeyNames, Names
    <3>3. \A g \in KeyNames : Done(files, Head(todo))[g] = files[g]
      BY <2>1, <3>1, <3>2, DoneFacts
    <3>4. \A g \in KeyNames : files'[g] = files[g]
      BY <2>2, <3>1, <3>2
    <3> QED BY <3>3, <3>4
  <2>5. KeyStage(handler, Tail(todo), failed, files', keyRisk)
    BY <2>3, <2>4, KeyStageSame
  <2>6. KeyStage(handler', todo', failed', files', keyRisk')
    BY <2>1, <2>5
  <2> QED BY <1>2, <1>4, <2>1, <2>6 DEF PairInv
<1>21. CASE SavedAndRestart
  <2> DEFINE n == handler.name
             c == handler.cfg
  <2>1. /\ n \in {"wifiRestart", "device", "managed"} /\ todo = <<>> /\ ~failed
        /\ Stores /\ Reset /\ files' = files
    BY <1>21 DEF SavedAndRestart, Returns
  <2>2. keyRisk' = (keyRisk /\ (n = "device" => ~WellPaired(c)))
    BY <2>1 DEF Stores
  <2>3. CASE n # "device"
    <3>1. Paired(keyRisk, files["key"], files["pub"])
      BY <1>3, <2>1, <2>3
    <3>2. keyRisk => keyRisk'
      BY <2>2, <2>3
    <3>3. Paired(keyRisk', files'["key"], files'["pub"])
      BY <2>1, <3>1, <3>2, PairedMore
    <3> QED BY <1>5, <2>1, <3>3
  <2>4. CASE n = "device"
    <3>1. ASSUME c.auth = "key"
          PROVE  files["key"] = c.key /\ Paired(keyRisk, files["key"], files["pub"])
      <4>1. Submitted(todo, files, c, keyRisk)
        BY <1>2, <2>1, <2>4, <3>1 DEF KeyStage, Submits
      <4>2. c.key \in PrivateKeys /\ c.pub \in Pairs \cup {Absent}
        BY <1>0, <1>1, <2>4, <3>1, FieldFacts DEF SavesWell
      <4>3. ~Exchanging(todo)
        BY <2>1 DEF Exchanging
      <4> QED BY <1>2, <2>1, <4>1, <4>2, <4>3, SubmittedCut
    <3>2. ASSUME c.auth # "key"
          PROVE  c.pub = Absent /\ Paired(keyRisk, files["key"], files["pub"])
      <4>1. c.auth = "password"
        BY <1>1, <3>2, FieldFacts
      <4>2. c.pub = Absent
        BY <1>0, <2>4, <4>1 DEF SavesWell
      <4>3. ~Submits(n, c, failed) /\ ~Makes(n, failed)
        BY <2>4, <3>2 DEF Submits, Makes
      <4> QED BY <1>2, <4>2, <4>3 DEF KeyStage
    <3>3. Paired(keyRisk', files["key"], files["pub"])
      <4>1. CASE WellPaired(c)
        BY <3>1, <3>2, <4>1 DEF WellPaired, Paired
      <4>2. CASE ~WellPaired(c)
        <5>1. keyRisk => keyRisk'
          BY <2>2, <4>2
        <5>2. Paired(keyRisk, files["key"], files["pub"])
          BY <3>1, <3>2
        <5> QED BY <5>1, <5>2, PairedMore
      <4> QED BY <4>1, <4>2
    <3> QED BY <1>5, <2>1, <3>3
  <2> QED BY <2>3, <2>4
<1>22. CASE SavedAndContinue
  <2>1. /\ handler.name = "wifi" /\ todo = <<>> /\ Stores /\ handler' = Idle
        /\ UNCHANGED <<files, now, todo, tunnel>>
    BY <1>22 DEF SavedAndContinue, Returns
  <2>2. keyRisk => keyRisk'
    BY <2>1 DEF Stores
  <2>3. /\ Paired(keyRisk', files'["key"], files'["pub"])
        /\ Paired(keyRisk', now'.key, now'.pub)
    BY <1>2, <1>3, <2>1, <2>2, PairedMore
  <2>4. PairMatches'
    BY <1>2, <2>1, <2>2 DEF PairMatches
  <2>5. handler'.name = "none" /\ Paired(keyRisk', handler'.cfg.key, handler'.cfg.pub)
    BY <2>1, ConfigFacts DEF Paired
  <2> QED BY <1>n, <2>1, <2>3, <2>4, <2>5, PairPlain
<1>23. CASE SaveFailed
  <2>1. /\ failed /\ todo = <<>> /\ handler' = Idle
        /\ UNCHANGED <<files, now, todo, tunnel, keyRisk>>
    BY <1>23 DEF SaveFailed, Returns, ram, history
  <2>2. handler'.name = "none" /\ Paired(keyRisk', handler'.cfg.key, handler'.cfg.pub)
    BY <2>1, ConfigFacts DEF Paired
  <2>3. Paired(keyRisk', files'["key"], files'["pub"])
    BY <1>3, <2>1
  <2> QED BY <1>2, <1>4, <1>n, <2>1, <2>2, <2>3, PairPlain
<1>24. CASE IdentityReady
  <2>1. /\ handler.name = "identity" /\ ~failed /\ todo = <<>> /\ handler' = Idle
        /\ now' = handler.cfg /\ UNCHANGED <<files, todo, tunnel, keyRisk>>
    BY <1>24 DEF IdentityReady, Returns, history
  <2>2. handler'.name = "none" /\ Paired(keyRisk', handler'.cfg.key, handler'.cfg.pub)
    BY <2>1, ConfigFacts DEF Paired
  <2>3. Paired(keyRisk, files["key"], files["pub"])
    <3>1. handler.cfg.key \in PrivateKeys /\ handler.cfg.pub \in Pairs
      BY <1>0, <2>1 DEF SavesWell
    <3>2. Made(todo, files, handler.cfg, keyRisk)
      BY <1>2, <2>1 DEF KeyStage, Makes
    <3>3. ~Exchanging(todo)
      BY <2>1 DEF Exchanging
    <3> QED BY <1>2, <3>1, <3>2, <3>3, MadeCut
  <2> QED BY <1>2, <1>4, <1>n, <2>1, <2>2, <2>3, PairPlain
<1>25. CASE RequestStored \/ Wiped
  <2>1. /\ handler.name \in {"request", "factory"} /\ Reset
        /\ UNCHANGED <<files, keyRisk>>
    BY <1>25 DEF RequestStored, Wiped, Returns, history
  <2> QED BY <1>3, <1>5, <2>1
<1>26. CASE PowerLoss
  <2>1. Reset /\ files' = files /\ keyRisk' = (keyRisk \/ KeysInFlux)
    BY <1>26 DEF PowerLoss
  <2>2. Paired(keyRisk \/ KeysInFlux, files["key"], files["pub"])
    BY KeysCut
  <2>3. Paired(keyRisk', files'["key"], files'["pub"])
    BY <2>1, <2>2
  <2> QED BY <1>5, <2>1, <2>3
<1>27. CASE UNCHANGED vars
  <2>1. UNCHANGED <<files, now, handler, todo, failed, tunnel, keyRisk>>
    BY <1>27 DEF vars, control, history, ram
  <2>2. KeyStage(handler', todo', failed', files', keyRisk')
    BY <1>2, <2>1
  <2> QED BY <1>2, <1>4, <2>1, <2>2 DEF PairInv
<1> QED
  BY <1>6, <1>7, <1>8, <1>9, <1>10, <1>11, <1>13, <1>14, <1>15, <1>16, <1>17, <1>18,
     <1>19, <1>20, <1>21, <1>22, <1>23, <1>24, <1>25, <1>26, <1>27 DEF Next

\* The tunnel never presents a public key of another pair, unless an exchange of
\* the key files was cut.
THEOREM StorePairMatches == Spec => []PairMatches
<1>1. Spec => [](TypeInv /\ PairInv)
  BY InitTypes, InitPair, TypeStep, PairStep, PTL DEF Spec
<1>2. PairInv => PairMatches
  BY DEF PairInv
<1> QED BY <1>1, <1>2, PTL

-----------------------------------------------------------------------------
\* What a factory reset wiped does not come back.

\* A private and a public key that are not of the pairs F.
Without(k, p, F) == (k # Absent => k.pair \notin F) /\ p \notin F

\* Operations that put no key of F into a temporary.
FreshOps(F) ==
  {o \in Ops : o.op = "put" => /\ o.file = "keyTmp" => o.content.pair \notin F
                               /\ o.file = "pubTmp" => o.content \notin F}

FilesWithout(fs, F) ==
  Without(fs["key"], fs["pub"], F) /\ Without(fs["keyTmp"], fs["pubTmp"], F)

\* A key file is gone or its removal is still to come.
Wiping(td, fs) == \A f \in KeyNames : fs[f] = Absent \/ Pending(td, Rm(f))

ForgetInv ==
  /\ FilesWithout(files, forgotten)
  /\ forgotten \subseteq 1..keys
  /\ Without(now.key, now.pub, forgotten)
  /\ Without(handler.cfg.key, handler.cfg.pub, forgotten)
  /\ tunnel # Absent => Without(tunnel.key, tunnel.pub, forgotten)
  /\ todo \in Seq(FreshOps(forgotten))
  /\ handler.name = "factory" /\ ~failed => Wiping(todo, files)

LEMMA FreshSets ==
  ASSUME NEW F
  PROVE  /\ NonKeyOps \subseteq FreshOps(F) /\ UndoOps \subseteq FreshOps(F)
         /\ RmOps \subseteq FreshOps(F)
         /\ {SaveMvKey, SaveMvPub, MadeMvKey, MadeMvPub} \subseteq FreshOps(F)
         /\ \A f \in Names : Rm(f) \in FreshOps(F)
         /\ FreshOps(F) \subseteq Ops
<1>1. FreshOps(F) \subseteq Ops
  BY DEF FreshOps
<1>2. NonKeyOps \subseteq FreshOps(F)
  BY DEF NonKeyOps, FreshOps, KeyNames
<1>3. UndoOps \subseteq FreshOps(F)
  <2>1. \A o \in UndoOps : o.op # "put" /\ o \in Ops
    BY OpSets DEF UndoOps, RmOps, RestoreCfg, Restore
  <2> QED BY <2>1 DEF FreshOps
<1>4. RmOps \subseteq FreshOps(F)
  BY <1>3 DEF UndoOps
<1>5. {SaveMvKey, SaveMvPub, MadeMvKey, MadeMvPub} \subseteq FreshOps(F)
  <2>1. \A o \in {SaveMvKey, SaveMvPub, MadeMvKey, MadeMvPub} : o \in Ops /\ o.op # "put"
    BY ExchangeOps
  <2> QED BY <2>1 DEF FreshOps
<1>6. \A f \in Names : Rm(f) \in FreshOps(F)
  BY <1>4, OpSets
<1> QED BY <1>1, <1>2, <1>3, <1>4, <1>5, <1>6

LEMMA FreshDone ==
  ASSUME NEW fs, FilesOK(fs), NEW F, Absent \notin F, NEW o \in FreshOps(F),
         FilesWithout(fs, F)
  PROVE  FilesWithout(Done(fs, o), F)
<1> DEFINE gs == Done(fs, o)
<1>0. DOMAIN fs = Names /\ o \in Ops
  BY DEF FilesOK, FreshOps
<1>1. \A g \in Names : gs[g] =
         CASE o.op = "rm" -> (IF g = o.file THEN Absent ELSE fs[g])
           [] o.op = "put" -> (IF g = o.file THEN o.content ELSE fs[g])
           [] OTHER -> (IF g = o.file THEN Absent
                        ELSE IF g = o.to THEN fs[o.file] ELSE fs[g])
  BY <1>0, DoneFacts
<1> SUFFICES FilesWithout(gs, F)
  OBVIOUS
<1>n. {"key", "pub", "keyTmp", "pubTmp"} \subseteq Names
  BY DEF Names
<1> HIDE DEF gs
<1>2. CASE o \in RmOps
  BY <1>1, <1>2, <1>n DEF RmOps, FilesWithout, Without
<1>3. CASE o = RestoreCfg
  BY <1>1, <1>3, <1>n DEF RestoreCfg, Restore, FilesWithout, Without
<1>4. CASE o \in CfgOps \cup MarkOps
  <2>1. o.op \in {"put", "mv"} /\ o.file \notin KeyNames /\ (o.op = "mv" => o.to \notin KeyNames)
    BY <1>4 DEF CfgOps, MarkOps, PutOps, MvOps, KeyNames
  <2>2. \A g \in KeyNames : gs[g] = fs[g]
    BY <1>1, <1>n, <2>1 DEF KeyNames
  <2> QED BY <2>2 DEF FilesWithout, Without, KeyNames
<1>5. CASE o \in PutOps("keyTmp", PrivateKeys)
  <2>1. o.op = "put" /\ o.file = "keyTmp" /\ o.content.pair \notin F
    BY <1>5 DEF PutOps, FreshOps
  <2> QED BY <1>1, <1>n, <2>1 DEF FilesWithout, Without
<1>6. CASE o \in PutOps("pubTmp", Pairs)
  <2>1. o.op = "put" /\ o.file = "pubTmp" /\ o.content \notin F
    BY <1>6 DEF PutOps, FreshOps
  <2> QED BY <1>1, <1>n, <2>1 DEF FilesWithout, Without
<1>7. CASE o \in MvOps("keyTmp", "key")
  BY <1>1, <1>7, <1>n DEF MvOps, FilesWithout, Without
<1>8. CASE o \in MvOps("pubTmp", "pub")
  BY <1>1, <1>8, <1>n DEF MvOps, FilesWithout, Without
<1> QED BY <1>0, <1>2, <1>3, <1>4, <1>5, <1>6, <1>7, <1>8 DEF Ops, UndoOps, KeyOps

\* A factory reset goes on.
LEMMA WipingStep ==
  ASSUME NEW fs, FilesOK(fs), NEW td \in Seq(OtherOps), td # <<>>, Wiping(td, fs)
  PROVE  Wiping(Tail(td), Done(fs, Head(td)))
<1> DEFINE o == Head(td)
           gs == Done(fs, o)
<1>1. o \in OtherOps /\ o = td[1] /\ Tail(td) \in Seq(OtherOps)
      /\ Len(td) \in Nat /\ Len(td) >= 1 /\ DOMAIN td = 1..Len(td)
      /\ DOMAIN Tail(td) = 1..(Len(td) - 1)
      /\ \A i \in 1..(Len(td) - 1) : Tail(td)[i] = td[i + 1]
  BY HeadTailProperties, LenProperties, EmptySeq, FirstStep
<1>2. ASSUME NEW f \in KeyNames
      PROVE  gs[f] \in {fs[f], Absent} /\ (o = Rm(f) => gs[f] = Absent)
  <2>0. DOMAIN fs = Names /\ f \in Names
    BY <1>2 DEF FilesOK, KeyNames, Names
  <2>1. CASE o \in NonKeyOps
    <3>1. gs[f] = fs[f]
      BY <1>2, <2>1, NonKeyDone
    <3>2. o # Rm(f)
      BY <1>2, <2>1 DEF NonKeyOps, Rm
    <3> QED BY <3>1, <3>2
  <2>2. CASE o \in RmOps
    <3>1. o \in Ops /\ o.op = "rm"
      BY <2>2, OpSets DEF RmOps
    <3>2. gs[f] = IF f = o.file THEN Absent ELSE fs[f]
      BY <2>0, <3>1, DoneFacts
    <3>3. Rm(f).file = f
      BY DEF Rm
    <3> QED BY <3>2, <3>3
  <2> QED BY <1>1, <2>1, <2>2 DEF OtherOps
<1> HIDE DEF o, gs
<1>3. ASSUME NEW f \in KeyNames PROVE gs[f] = Absent \/ Pending(Tail(td), Rm(f))
  <2>1. CASE fs[f] = Absent
    BY <1>2, <1>3, <2>1
  <2>2. CASE Pending(td, Rm(f))
    <3>1. PICK i \in DOMAIN td : td[i] = Rm(f)
      BY <2>2 DEF Pending
    <3>2. CASE i = 1
      BY <1>1, <1>2, <1>3, <3>1, <3>2
    <3>3. CASE i # 1
      <4>1. i - 1 \in 1..(Len(td) - 1) /\ (i - 1) + 1 = i
        BY <1>1, <3>1, <3>3
      <4>2. i - 1 \in DOMAIN Tail(td) /\ Tail(td)[i - 1] = Rm(f)
        BY <1>1, <3>1, <4>1
      <4> QED BY <4>2 DEF Pending
    <3> QED BY <3>2, <3>3
  <2> QED BY <1>3, <2>1, <2>2 DEF Wiping
<1> QED BY <1>3 DEF Wiping, gs, o

\* The plans that write keys write those of the configuration they save.
LEMMA FreshPlans ==
  ASSUME NEW c, c.key \in PrivateKeys, c.pub \in Pairs \cup {Absent}, NEW F,
         Without(c.key, c.pub, F)
  PROVE  /\ SaveKeys(c) \in Seq(FreshOps(F))
         /\ c.pub \in Pairs => PersistKeyPair(c) \in Seq(FreshOps(F))
<1>1. c.key.pair \notin F /\ c.pub \notin F
  BY PrivateKeyFacts DEF Without
<1>2. ASSUME NEW u \in Seq(TmpRm)
      PROVE  /\ Put("keyTmp", c.key, u) \in FreshOps(F)
             /\ c.pub \in Pairs => Put("pubTmp", c.pub, u) \in FreshOps(F)
  <2>1. u \in Seq(UndoOps)
    <3>1. TmpRm \subseteq UndoOps
      BY KeyOpFacts, OpSets DEF UndoOps
    <3> QED BY <3>1, SeqWidens
  <2>2. /\ Put("keyTmp", c.key, u) \in Ops
        /\ c.pub \in Pairs => Put("pubTmp", c.pub, u) \in Ops
    BY <2>1 DEF Ops, KeyOps, PutOps, Put
  <2> QED BY <1>1, <2>2 DEF FreshOps, Put
<1>3. /\ <<>> \in Seq(TmpRm) /\ <<Rm("keyTmp")>> \in Seq(TmpRm)
      /\ <<Rm("keyTmp"), Rm("pubTmp")>> \in Seq(TmpRm)
  BY KeyOpFacts
<1>4. /\ {Rm("key"), Rm("pub"), Rm("keyTmp"), Rm("pubTmp")} \subseteq FreshOps(F)
      /\ {SaveMvKey, SaveMvPub, MadeMvKey, MadeMvPub} \subseteq FreshOps(F)
  BY FreshSets DEF Names
<1> DEFINE G == FreshOps(F)
<1>g. /\ Rm("key") \in G /\ Rm("pub") \in G /\ Rm("keyTmp") \in G /\ Rm("pubTmp") \in G
      /\ SaveMvKey \in G /\ SaveMvPub \in G /\ MadeMvKey \in G /\ MadeMvPub \in G
  BY <1>4
<1>h. ASSUME NEW u \in Seq(TmpRm)
      PROVE  /\ Put("keyTmp", c.key, u) \in G
             /\ c.pub \in Pairs => Put("pubTmp", c.pub, u) \in G
  BY <1>2
<1> SUFFICES /\ SaveKeys(c) \in Seq(G)
             /\ c.pub \in Pairs => PersistKeyPair(c) \in Seq(G)
  OBVIOUS
<1> HIDE DEF G
<1>5. SaveKeys(c) \in Seq(G)
  <2> DEFINE x == Put("keyTmp", c.key, <<>>)
             y == Put("pubTmp", c.pub, <<Rm("keyTmp")>>)
             A == <<Rm("keyTmp"), Rm("pubTmp"), x>>
             B == When(c.pub # Absent, <<y>>)
             M == <<Rm("key"), SaveMvKey, Rm("pub")>>
             D == LastMv(c)
  <2>1. SaveKeys(c) = ((A \o B) \o M) \o D
    BY DEF SaveKeys, SaveMvKey, SaveMvPub, LastMv
  <2>x. x \in G /\ (c.pub # Absent => y \in G)
    BY <1>3, <1>h
  <2> HIDE DEF x, y
  <2>2. A \in Seq(G) /\ M \in Seq(G)
    BY <1>g, <2>x
  <2>3. B \in Seq(G)
    <3>1. CASE c.pub = Absent
      <4>1. B = <<>>
        BY <3>1 DEF When
      <4> HIDE DEF B
      <4> QED BY <4>1
    <3>2. CASE c.pub # Absent
      <4>1. B = <<y>> /\ y \in G
        BY <2>x, <3>2 DEF When
      <4> HIDE DEF B
      <4> QED BY <4>1
    <3> QED BY <3>1, <3>2
  <2>4. D \in Seq(G)
    <3>1. CASE c.pub = Absent
      BY <3>1, LastMvFacts
    <3>2. CASE c.pub # Absent
      <4>1. D = <<SaveMvPub>>
        BY <3>2, LastMvFacts
      <4> HIDE DEF D
      <4> QED BY <1>g, <4>1
    <3> QED BY <3>1, <3>2
  <2> HIDE DEF A, B, M, D
  <2>5. A \o B \in Seq(G)
    BY <2>2, <2>3, ConcatProperties
  <2>6. (A \o B) \o M \in Seq(G)
    BY <2>2, <2>5, ConcatProperties
  <2> QED BY <2>1, <2>4, <2>6, ConcatProperties
<1>6. ASSUME c.pub \in Pairs PROVE PersistKeyPair(c) \in Seq(G)
  <2> DEFINE u == <<Rm("keyTmp"), Rm("pubTmp")>>
             x == Put("keyTmp", c.key, u)
             y == Put("pubTmp", c.pub, u)
             B == <<x, y>>
             M == <<Rm("key"), Rm("pub"), MadeMvKey, MadeMvPub>>
  <2>1. PersistKeyPair(c) = (u \o B) \o M
    BY DEF PersistKeyPair, MadeMvKey, MadeMvPub
  <2>x. x \in G /\ y \in G
    BY <1>3, <1>6, <1>h
  <2> HIDE DEF x, y
  <2>2. u \in Seq(G) /\ M \in Seq(G)
    BY <1>g
  <2>3. B \in Seq(G)
    BY <2>x
  <2> HIDE DEF u, B, M
  <2>4. u \o B \in Seq(G)
    BY <2>2, <2>3, ConcatProperties
  <2> QED BY <2>1, <2>2, <2>4, ConcatProperties
<1> QED BY <1>5, <1>6

LEMMA InitForget == Init => ForgetInv
<1> SUFFICES ASSUME Init PROVE ForgetInv
  OBVIOUS
<1>1. /\ handler = Idle /\ todo = <<>> /\ now = Defaults /\ tunnel = Absent
      /\ forgotten = {}
  BY DEF Init
<1>2. /\ FilesWithout(files, forgotten) /\ forgotten \subseteq 1..keys
      /\ Without(now.key, now.pub, forgotten)
      /\ Without(handler.cfg.key, handler.cfg.pub, forgotten)
  BY <1>1 DEF FilesWithout, Without
<1>3. todo \in Seq(FreshOps(forgotten)) /\ handler.name # "factory"
  BY <1>1, ConfigFacts
<1> QED BY <1>1, <1>2, <1>3 DEF ForgetInv

LEMMA WipeWipes == Wiping(Wipe, files)
<1>1. /\ Wipe[4] = Rm("key") /\ Wipe[5] = Rm("keyTmp") /\ Wipe[6] = Rm("pub")
      /\ Wipe[7] = Rm("pubTmp") /\ DOMAIN Wipe = 1..9
  BY DEF Wipe
<1>2. {4, 5, 6, 7} \subseteq DOMAIN Wipe
  BY <1>1
<1>3. \A f \in KeyNames : Pending(Wipe, Rm(f))
  BY <1>1, <1>2 DEF Pending, KeyNames
<1> QED BY <1>3 DEF Wiping

LEMMA ForgetStep == TypeInv /\ PairInv /\ ForgetInv /\ [Next]_vars => ForgetInv'
<1> SUFFICES ASSUME TypeInv, PairInv, ForgetInv, [Next]_vars PROVE ForgetInv'
  OBVIOUS
<1>0. /\ FilesOK(files) /\ RamOK /\ ControlOK /\ BoundsOK /\ HistoryOK
      /\ PhaseInv /\ SavesWell(handler.name, handler.cfg)
  BY DEF TypeInv
<1>1. /\ now \in Configs /\ keys \in Nat /\ wifiReset \in BOOLEAN
      /\ handler \in [name : HandlerNames, cfg : Configs] /\ todo \in Seq(Ops)
      /\ handler.cfg \in Configs
  BY <1>0 DEF RamOK, BoundsOK, ControlOK
<1>2. /\ FilesWithout(files, forgotten) /\ forgotten \subseteq 1..keys
      /\ Without(now.key, now.pub, forgotten)
      /\ Without(handler.cfg.key, handler.cfg.pub, forgotten)
      /\ tunnel # Absent => Without(tunnel.key, tunnel.pub, forgotten)
      /\ todo \in Seq(FreshOps(forgotten))
      /\ handler.name = "factory" /\ ~failed => Wiping(todo, files)
  BY DEF ForgetInv
<1>3. Absent \notin forgotten /\ Absent \notin 1..keys
  <2>1. 1..keys \subseteq Pairs /\ forgotten \subseteq Pairs
    BY <1>0, StoreAssumption DEF BoundsOK, HistoryOK, Pairs
  <2> QED BY <2>1, AbsentAssumption
<1>i. handler = Idle => handler.name = "none" /\ todo = <<>>
  BY <1>0, ConfigFacts DEF PhaseInv
<1>d. ASSUME NEW F, Absent \notin F PROVE Without(Defaults.key, Defaults.pub, F)
  BY <1>d, ConfigFacts DEF Without
\* No key is written, and what is in RAM comes from there or from flash.
<1>4. ASSUME UNCHANGED <<files, tunnel, keys, forgotten>>, handler' = Idle, todo' = <<>>,
             Without(now'.key, now'.pub, forgotten)
      PROVE  ForgetInv'
  <2>1. handler'.name = "none" /\ Without(handler'.cfg.key, handler'.cfg.pub, forgotten)
    BY <1>3, <1>4, <1>d, ConfigFacts
  <2>2. todo' \in Seq(FreshOps(forgotten'))
    BY <1>4
  <2> QED BY <1>2, <1>4, <2>1, <2>2 DEF ForgetInv
<1>5. ASSUME Reset, UNCHANGED keys, Absent \notin forgotten', forgotten' \subseteq 1..keys,
             FilesWithout(files', forgotten')
      PROVE  ForgetInv'
  <2>1. /\ handler' = Idle /\ todo' = <<>> /\ now' = Defaults /\ tunnel' = Absent
    BY <1>5 DEF Reset
  <2>2. /\ handler'.name = "none" /\ Without(now'.key, now'.pub, forgotten')
        /\ Without(handler'.cfg.key, handler'.cfg.pub, forgotten')
    BY <1>5, <1>d, <2>1, ConfigFacts
  <2>3. todo' \in Seq(FreshOps(forgotten'))
    BY <2>1
  <2> QED BY <1>5, <2>1, <2>2, <2>3 DEF ForgetInv
<1>6. ASSUME NEW n, NEW c, NEW ops, Begin(n, c, ops), UNCHANGED <<files, tunnel, forgotten>>,
             keys' \in {keys, keys + 1}, Without(now'.key, now'.pub, forgotten),
             Without(c.key, c.pub, forgotten), ops \in Seq(FreshOps(forgotten)),
             n = "factory" => Wiping(ops, files)
      PROVE  ForgetInv'
  <2>1. handler'.name = n /\ handler'.cfg = c /\ todo' = ops
    BY <1>6 DEF Begin
  <2>2. forgotten \subseteq 1..keys'
    BY <1>1, <1>2, <1>6
  <2> QED BY <1>2, <1>6, <2>1, <2>2 DEF ForgetInv
<1>n. ASSUME NEW ops \in Seq(NonKeyOps) PROVE ops \in Seq(FreshOps(forgotten))
  BY <1>n, FreshSets, SeqWidens
<1>p. keys + 1 \notin forgotten
  BY <1>1, <1>2
<1>7. CASE Boot
  <2>1. /\ UNCHANGED <<files, now, tunnel, keys, forgotten>>
        /\ \E ops \in {<<>>, <<RestoreCfg>>, <<RmBak>>} : Begin("boot", now, ops)
    BY <1>7 DEF Boot, bounds, history, When, RestoreCfg, RmBak
  <2>2. PICK ops \in Seq(NonKeyOps) : Begin("boot", now, ops)
    BY <2>1, NonKeyPlans
  <2> QED BY <1>2, <1>6, <1>n, <2>1, <2>2
<1>8. CASE FormatStorage
  <2>1. /\ UNCHANGED <<handler, todo, failed, now, tunnel, keys, forgotten>>
        /\ files' = [f \in Names |-> Absent]
    BY <1>8 DEF FormatStorage, control, ram
  <2>2. /\ files'["key"] = Absent /\ files'["keyTmp"] = Absent
        /\ files'["pub"] = Absent /\ files'["pubTmp"] = Absent
    BY <2>1 DEF Names
  <2>3. FilesWithout(files', forgotten)
    BY <1>3, <2>2 DEF FilesWithout, Without
  <2>4. Wiping(todo', files')
    BY <2>2 DEF Wiping, KeyNames
  <2> QED BY <1>2, <2>1, <2>3, <2>4 DEF ForgetInv
<1>9. CASE Load
  <2>1. /\ todo' = todo /\ todo = <<>> /\ handler' = Idle /\ now' = LoadedConfig
        /\ UNCHANGED <<files, tunnel, keys, forgotten>>
    BY <1>9 DEF Load, bounds
  <2>2. /\ LoadedConfig.key \in {Absent, files["key"]}
        /\ LoadedConfig.pub \in {Absent, files["pub"]}
    <3>1. CASE ~Loaded
      BY <3>1, ConfigFacts DEF LoadedConfig
    <3>2. CASE Loaded /\ ~files["cfg"].done
      BY <3>2 DEF LoadedConfig, Defaults
    <3>3. CASE Loaded /\ files["cfg"].done
      BY <3>3 DEF LoadedConfig
    <3> QED BY <3>1, <3>2, <3>3
  <2>3. Without(now'.key, now'.pub, forgotten)
    BY <1>2, <1>3, <2>1, <2>2 DEF FilesWithout, Without
  <2> QED BY <1>4, <2>1, <2>3
<1>10. CASE ConnectWiFi \/ OpenDevicePortal
  <2>1. /\ handler = Idle
        /\ UNCHANGED <<files, now, handler, todo, tunnel, keys, forgotten>>
    BY <1>10 DEF ConnectWiFi, OpenDevicePortal, AtRest, history, ram, bounds
  <2> QED BY <1>2, <1>4, <1>i, <2>1
<1>11. CASE StartTunnel
  <2>1. /\ handler = Idle /\ tunnel' = HandedOver(now)
        /\ now' = [now EXCEPT !.key = Absent, !.pub = Absent]
        /\ UNCHANGED <<files, handler, todo, keys, forgotten>>
    BY <1>11 DEF StartTunnel, AtRest, history, bounds
  <2>2. now'.key = Absent /\ now'.pub = Absent
    BY <1>1, <2>1 DEF Configs
  <2>3. Without(now'.key, now'.pub, forgotten)
    BY <1>3, <2>2 DEF Without
  <2>4. tunnel' # Absent => Without(tunnel'.key, tunnel'.pub, forgotten)
    BY <1>2, <2>1 DEF HandedOver
  <2>5. handler'.name # "factory"
    BY <1>i, <2>1
  <2> QED BY <1>2, <2>1, <2>3, <2>4, <2>5 DEF ForgetInv
<1>12. CASE EnsureIdentity
  <2>1. /\ handler = Idle /\ UNCHANGED <<files, tunnel, forgotten>>
        /\ \/ /\ UNCHANGED <<handler, todo, keys>>
              /\ now' = now \/ now' = WithKeys(now, files["key"], files["pub"])
           \/ /\ keys < MaxKeys /\ keys' = keys + 1 /\ now' = now
              /\ Begin("identity", Generated(now, keys'),
                       PersistKeyPair(Generated(now, keys')))
    BY <1>12 DEF EnsureIdentity, AtRest, history
  <2>2. CASE /\ UNCHANGED <<handler, todo, keys>>
             /\ now' = now \/ now' = WithKeys(now, files["key"], files["pub"])
    <3>0. files["key"] \in PrivateKeys \cup {Absent} /\ files["pub"] \in Pairs \cup {Absent}
      BY <1>0 DEF FilesOK
    <3>1. /\ WithKeys(now, files["key"], files["pub"]).key = files["key"]
          /\ WithKeys(now, files["key"], files["pub"]).pub = files["pub"]
      BY <1>1, <3>0, WithKeysFacts
    <3>2. Without(now'.key, now'.pub, forgotten)
      BY <1>2, <2>2, <3>1 DEF FilesWithout
    <3> QED BY <1>4, <1>i, <2>1, <2>2, <3>2
  <2>3. CASE /\ keys < MaxKeys /\ keys' = keys + 1 /\ now' = now
             /\ Begin("identity", Generated(now, keys'),
                      PersistKeyPair(Generated(now, keys')))
    <3> DEFINE c == Generated(now, keys')
    <3>1. keys' \in Pairs
      BY <1>1, <2>3, StoreAssumption DEF Pairs
    <3>2. c.key \in PrivateKeys /\ c.key.pair = keys' /\ c.pub = keys'
      <4>1. [pair |-> keys', ec |-> TRUE] \in PrivateKeys
        BY <3>1 DEF PrivateKeys
      <4> QED BY <1>1, <3>1, <4>1, WithKeysFacts DEF Generated
    <3> HIDE DEF c
    <3>3. Without(c.key, c.pub, forgotten)
      BY <1>p, <2>3, <3>2 DEF Without
    <3>4. PersistKeyPair(c) \in Seq(FreshOps(forgotten))
      BY <3>1, <3>2, <3>3, FreshPlans
    <3>5. Begin("identity", c, PersistKeyPair(c))
      BY <2>3 DEF c
    <3>6. Without(now'.key, now'.pub, forgotten) /\ keys' \in {keys, keys + 1}
      BY <1>2, <2>3
    <3> QED BY <1>6, <2>1, <3>3, <3>4, <3>5, <3>6
  <2> QED BY <2>1, <2>2, <2>3
<1>13. ASSUME NEW w \in Wifis, NEW vendorChanged \in BOOLEAN, WifiSave(w, vendorChanged)
       PROVE  ForgetInv'
  <2> DEFINE n == IF PreserveDeviceConfig \/ vendorChanged THEN "wifiRestart" ELSE "wifi"
             e == When(wifiReset, <<Rm("wifiReset")>>)
             ops == WriteConfig(now') \o e
  <2>1. /\ now' = [now EXCEPT !.wifi = w, !.done = PreserveDeviceConfig]
        /\ Begin(n, now', ops) /\ UNCHANGED <<files, tunnel, forgotten, keys>>
    BY <1>13 DEF WifiSave, Save, Serve
  <2>2. now.done => now.dev \in Devices
    BY <1>0 DEF PhaseInv
  <2>3. Storable(now') /\ now'.key = now.key /\ now'.pub = now.pub
    BY <1>1, <2>1, <2>2, WifiConfigFacts
  <2>4. n \in {"wifi", "wifiRestart"} /\ e \in Seq(NonKeyOps)
    BY <1>1, NonKeyPlans
  <2>5. WriteConfig(now') \in Seq(NonKeyOps)
    BY <2>3, WriteConfigPlan
  <2> HIDE DEF n, e
  <2>6. ops \in Seq(NonKeyOps)
    BY <2>4, <2>5, ConcatProperties
  <2> HIDE DEF ops
  <2>7. Without(now'.key, now'.pub, forgotten)
    BY <1>2, <2>3
  <2>8. ops \in Seq(FreshOps(forgotten))
    BY <1>n, <2>6
  <2> QED BY <1>6, <2>1, <2>4, <2>7, <2>8
<1>14. ASSUME NEW d \in Devices, NEW s \in Submissions, DeviceSave(d, s)
       PROVE  ForgetInv'
  <2> DEFINE c == [s EXCEPT !.done = TRUE, !.dev = d]
             first == IF c.auth = "key" THEN SaveKeys(c) ELSE <<Rm("key"), Rm("pub")>>
             W == WriteConfig(c)
             e == <<Rm("edit")>>
             G == FreshOps(forgotten)
  <2>1. /\ phase = "devicePortal" /\ now' = now
        /\ Begin("device", c, (first \o W) \o e)
        /\ UNCHANGED <<files, tunnel, forgotten>> /\ keys' \in {keys, keys + 1}
    BY <1>14 DEF DeviceSave, AtRest, Save, Serve
  <2>2. now.wifi \in Wifis
    BY <1>0, <2>1 DEF PhaseInv, Joined
  <2>3. /\ Storable(c) /\ c \in Configs
        /\ c.auth = s.auth /\ c.key = s.key /\ c.pub = s.pub
    BY <1>1, <2>2, DeviceConfigFacts
  <2> HIDE DEF c
  <2>4. \/ c.auth = "password" /\ c.key = Absent /\ c.pub = Absent
        \/ /\ c.auth = "key" /\ c.key \in PrivateKeys /\ c.key.pair = keys + 1
           /\ c.pub \in {keys + 1, Absent}
        \/ /\ c.auth = "key" /\ c.key = now.key
           /\ now.key \in PrivateKeys /\ c.pub \in {now.pub, now.key.pair}
    BY <1>1, <2>3, SubmissionFacts
  <2>5. Without(c.key, c.pub, forgotten)
    <3>1. CASE c.auth = "password" /\ c.key = Absent /\ c.pub = Absent
      BY <1>3, <3>1 DEF Without
    <3>2. CASE /\ c.auth = "key" /\ c.key \in PrivateKeys /\ c.key.pair = keys + 1
               /\ c.pub \in {keys + 1, Absent}
      BY <1>3, <1>p, <3>2 DEF Without
    <3>3. CASE /\ c.auth = "key" /\ c.key = now.key
               /\ now.key \in PrivateKeys /\ c.pub \in {now.pub, now.key.pair}
      BY <1>2, <3>3, PrivateKeyFacts DEF Without
    <3> QED BY <2>4, <3>1, <3>2, <3>3
  <2>6. e \in Seq(NonKeyOps) /\ W \in Seq(NonKeyOps)
    BY <2>3, NonKeyPlans, WriteConfigPlan
  <2>7. e \in Seq(G) /\ W \in Seq(G)
    BY <1>n, <2>6
  <2>8. first \in Seq(G)
    <3>1. CASE c.auth = "key"
      <4>1. c.pub \in Pairs \cup {Absent} /\ c.key \in PrivateKeys
        BY <2>3, <2>4, <3>1, FieldFacts
      <4>2. SaveKeys(c) \in Seq(FreshOps(forgotten))
        BY <2>5, <4>1, FreshPlans
      <4> QED BY <3>1, <4>2
    <3>2. CASE c.auth # "key"
      <4>1. Rm("key") \in G /\ Rm("pub") \in G
        BY FreshSets DEF Names
      <4>2. first = <<Rm("key"), Rm("pub")>>
        BY <3>2
      <4> HIDE DEF first, G
      <4> QED BY <4>1, <4>2
    <3> QED BY <3>1, <3>2
  <2>9. Without(now'.key, now'.pub, forgotten)
    BY <1>2, <2>1
  <2> HIDE DEF first, e, W, G
  <2>10. first \o W \in Seq(G)
    BY <2>7, <2>8, ConcatProperties
  <2> DEFINE ops == (first \o W) \o e
  <2>11. ops \in Seq(G)
    BY <2>7, <2>10, ConcatProperties
  <2>12. Begin("device", c, ops)
    BY <2>1
  <2> HIDE DEF ops
  <2> QED BY <1>6, <2>1, <2>5, <2>9, <2>11, <2>12 DEF G
<1>15. ASSUME NEW d \in Devices, ManagedSave(d)
       PROVE  ForgetInv'
  <2> DEFINE c == [now EXCEPT !.done = TRUE, !.dev = d]
  <2>1. /\ now' = now /\ UNCHANGED <<files, tunnel, forgotten, keys>>
        /\ phase \in {"running", "paused", "wifiJoined", "transition", "devicePortal"}
        /\ Begin("managed", c, WriteConfig(c))
    BY <1>15 DEF ManagedSave, AtRest, Save, Serve
  <2>2. /\ c \in Configs /\ c.wifi = now.wifi /\ c.dev = d
        /\ c.key = now.key /\ c.pub = now.pub
    BY <1>1 DEF Configs
  <2> HIDE DEF c
  <2>3. Storable(c)
    BY <1>0, <2>1, <2>2 DEF Storable, PhaseInv, Joined
  <2>4. WriteConfig(c) \in Seq(FreshOps(forgotten))
    BY <1>n, <2>3, WriteConfigPlan
  <2>5. Without(now'.key, now'.pub, forgotten) /\ Without(c.key, c.pub, forgotten)
    BY <1>2, <2>1, <2>2
  <2> QED BY <1>6, <2>1, <2>4, <2>5
<1>16. CASE RequestEdit \/ RequestWifiReset
  <2>1. /\ now' = now /\ UNCHANGED <<files, tunnel, forgotten, keys>>
        /\ \/ Begin("request", now, <<Put("edit", "1", <<>>)>>)
           \/ Begin("request", now, <<Put("wifiReset", "1", <<>>), Rm("edit")>>)
    BY <1>16 DEF RequestEdit, RequestWifiReset, Serve
  <2>2. PICK ops \in Seq(NonKeyOps) : Begin("request", now, ops)
    BY <2>1, NonKeyPlans
  <2> QED BY <1>2, <1>6, <1>n, <2>1, <2>2
<1>17. CASE FactoryReset
  <2>1. /\ now' = now /\ Begin("factory", now, Wipe)
        /\ UNCHANGED <<files, tunnel, forgotten, keys>>
    BY <1>17 DEF FactoryReset, Serve
  <2>2. Wipe \in Seq(FreshOps(forgotten))
    BY WipePlan, FreshSets, SeqWidens
  <2> QED BY <1>2, <1>6, <2>1, <2>2, WipeWipes
\* One operation.
<1>18. ASSUME todo # <<>>
       PROVE  Head(todo) \in FreshOps(forgotten) /\ Tail(todo) \in Seq(FreshOps(forgotten))
  BY <1>2, <1>18, FirstStep
<1>19. ASSUME todo # <<>>, handler.name = "factory", ~failed
       PROVE  Wiping(Tail(todo), Done(files, Head(todo)))
  <2>1. todo \in Seq(OtherOps)
    BY <1>19 DEF PairInv, KeyStage, Submits, Makes
  <2> QED BY <1>0, <1>2, <1>19, <2>1, WipingStep
<1>20. CASE FileOp
  <2>1. /\ todo # <<>> /\ files' = Done(files, Head(todo)) /\ todo' = Tail(todo)
        /\ UNCHANGED <<handler, failed, now, tunnel, keys, forgotten>>
    BY <1>20 DEF FileOp, history, ram, bounds
  <2>2. FilesWithout(Done(files, Head(todo)), forgotten)
    BY <1>0, <1>2, <1>3, <1>18, <2>1, FreshDone
  <2>3. FilesWithout(files', forgotten') /\ todo' \in Seq(FreshOps(forgotten'))
    BY <1>18, <2>1, <2>2
  <2>4. handler'.name = "factory" /\ ~failed' => Wiping(todo', files')
    BY <1>19, <2>1
  <2> QED BY <1>2, <2>1, <2>3, <2>4 DEF ForgetInv
<1>21. CASE FileOpFails
  <2> DEFINE o == Head(todo)
  <2>1. /\ todo # <<>>
        /\ todo' = IF o.op \in {"put", "mv"} THEN o.undo ELSE Tail(todo)
        /\ UNCHANGED <<files, handler, now, tunnel, keys, forgotten>>
    BY <1>21 DEF FileOpFails, ram
  <2>2. handler.name = "factory" => failed'
    BY <1>21 DEF FileOpFails
  <2>3. o \in Ops
    BY <1>1, <2>1, FirstStep
  <2>4. o.op \in {"put", "mv"} => o.undo \in Seq(UndoOps)
    BY <2>3 DEF Ops, UndoOps, CfgOps, KeyOps, MarkOps, RmOps, PutOps, MvOps,
                RestoreCfg, Restore
  <2>5. o.op \in {"put", "mv"} => o.undo \in Seq(FreshOps(forgotten))
    BY <2>4, FreshSets, SeqWidens
  <2>6. Tail(todo) \in Seq(FreshOps(forgotten))
    BY <1>18, <2>1
  <2> HIDE DEF o
  <2>7. todo' \in Seq(FreshOps(forgotten'))
    BY <2>1, <2>5, <2>6
  <2>8. handler'.name = "factory" => failed'
    BY <2>1, <2>2
  <2> QED BY <1>2, <2>1, <2>7, <2>8 DEF ForgetInv
<1>22. CASE ShortWrite
  <2>1. /\ todo # <<>> /\ todo' = Tail(todo)
        /\ Head(todo).file = "cfgTmp" /\ Head(todo).op = "put"
        /\ UNCHANGED <<handler, failed, now, tunnel, keys, forgotten>>
    BY <1>22 DEF ShortWrite, ram
  <2>2. PICK x : files' = [files EXCEPT !["cfgTmp"] = x]
    BY <1>22 DEF ShortWrite
  <2>3. DOMAIN files = Names
    BY <1>0 DEF FilesOK
  <2>4. \A g \in KeyNames : files'[g] = files[g]
    BY <2>2, <2>3 DEF KeyNames, Names
  <2>5. FilesWithout(files', forgotten)
    BY <1>2, <2>4 DEF FilesWithout, KeyNames
  <2>6. ASSUME handler'.name = "factory", ~failed' PROVE Wiping(todo', files')
    <3>1. handler.name = "factory" /\ (failed' = failed)
      BY <2>1, <2>6
    <3>2. Wiping(Tail(todo), Done(files, Head(todo)))
      BY <1>19, <2>1, <2>6, <3>1
    <3>3. \A g \in KeyNames : g \in Names /\ g # "cfgTmp"
      BY DEF KeyNames, Names
    <3>4. \A g \in KeyNames : Done(files, Head(todo))[g] = files[g]
      <4>1. Head(todo) \in Ops
        BY <1>1, <2>1, FirstStep
      <4> QED BY <2>1, <2>3, <3>3, <4>1, DoneFacts
    <3> QED BY <2>1, <2>4, <3>2, <3>4 DEF Wiping
  <2>7. todo' \in Seq(FreshOps(forgotten))
    BY <1>18, <2>1
  <2> QED BY <1>2, <2>1, <2>5, <2>6, <2>7 DEF ForgetInv
\* A handler ends.
<1>23. CASE SavedAndRestart \/ RequestStored
  <2>1. Reset /\ UNCHANGED <<files, keys, forgotten>>
    BY <1>23 DEF SavedAndRestart, RequestStored, bounds, history
  <2> QED BY <1>2, <1>3, <1>5, <2>1
<1>24. CASE SavedAndContinue \/ SaveFailed
  <2>1. /\ todo = <<>> /\ handler' = Idle
        /\ UNCHANGED <<files, now, todo, tunnel, keys, forgotten>>
    BY <1>24 DEF SavedAndContinue, SaveFailed, Returns, bounds, ram, history
  <2> QED BY <1>2, <1>4, <2>1
<1>25. CASE IdentityReady
  <2>1. /\ todo = <<>> /\ handler' = Idle /\ now' = handler.cfg
        /\ UNCHANGED <<files, todo, tunnel, keys, forgotten>>
    BY <1>25 DEF IdentityReady, Returns, bounds, history
  <2> QED BY <1>2, <1>4, <2>1
<1>26. CASE Wiped
  <2>1. /\ handler.name = "factory" /\ todo = <<>> /\ Reset /\ UNCHANGED <<files, keys>>
        /\ forgotten' = IF failed THEN forgotten ELSE 1..keys
    BY <1>26 DEF Wiped, Returns, bounds
  <2>2. CASE failed
    BY <1>2, <1>3, <1>5, <2>1, <2>2
  <2>3. CASE ~failed
    <3>1. \A f \in KeyNames : files[f] = Absent
      <4>1. Wiping(<<>>, files)
        BY <1>2, <2>1, <2>3
      <4>2. \A x : ~Pending(<<>>, x)
        BY DEF Pending
      <4> QED BY <4>1, <4>2 DEF Wiping
    <3>2. FilesWithout(files', 1..keys)
      BY <1>3, <2>1, <3>1 DEF FilesWithout, Without, KeyNames
    <3>3. forgotten' = 1..keys
      BY <2>1, <2>3
    <3> QED BY <1>3, <1>5, <2>1, <3>2, <3>3
  <2> QED BY <2>2, <2>3
<1>27. CASE PowerLoss
  <2>1. Reset /\ UNCHANGED <<files, keys, forgotten>>
    BY <1>27 DEF PowerLoss
  <2> QED BY <1>2, <1>3, <1>5, <2>1
<1>28. CASE UNCHANGED vars
  <2>1. UNCHANGED <<files, now, handler, todo, failed, tunnel, keys, forgotten>>
    BY <1>28 DEF vars, control, history, ram, bounds
  <2> QED BY <1>2, <2>1 DEF ForgetInv
<1> QED
  BY <1>7, <1>8, <1>9, <1>10, <1>11, <1>12, <1>13, <1>14, <1>15, <1>16, <1>17, <1>20,
     <1>21, <1>22, <1>23, <1>24, <1>25, <1>26, <1>27, <1>28 DEF Next

\* A factory reset that came through leaves no key behind that could come back,
\* neither from flash nor from RAM nor out of a plan that was under way.
THEOREM StoreResetForgets == Spec => []ResetForgets
<1>1. Spec => [](TypeInv /\ PairInv /\ ForgetInv)
  BY InitTypes, InitPair, InitForget, TypeStep, PairStep, ForgetStep, PTL DEF Spec
<1>2. TypeInv /\ ForgetInv => ResetForgets
  <2> SUFFICES ASSUME TypeInv, ForgetInv PROVE ResetForgets
    OBVIOUS
  <2>1. tunnel # Absent => tunnel.key \in PrivateKeys
    BY DEF TypeInv, RamOK, Tunnels
  <2>2. tunnel # Absent => tunnel.key.pair \notin forgotten
    BY <2>1, PrivateKeyFacts DEF ForgetInv, Without
  <2>3. FilesWithout(files, forgotten)
    BY DEF ForgetInv
  <2> QED BY <2>2, <2>3 DEF ResetForgets, FilesWithout, Without
<1> QED BY <1>1, <1>2, PTL

-----------------------------------------------------------------------------
\* The identity of a device that was set up with a key.

KeySetup(x) == x # Absent /\ x.done /\ x.auth = "key"

\* The private key on flash is one of the pairs id, or is being exchanged.
KeyKept(h, td, fd, fs, id) ==
  \/ Submits(h.name, h.cfg, fd) /\ Exchanging(td)
  \/ fs["key"] # Absent /\ fs["key"].pair \in id

FlashKeeps ==
  /\ ~cfgRisk /\ (\A x \in committed : KeySetup(x))
  /\ KeyKept(handler, todo, failed, files, identity)

\* RAM holds the set-up with its key, which the tunnel takes over.
RamKeeps ==
  /\ phase \notin {"off", "load"} =>
       /\ now.done /\ now.auth = "key"
       /\ phase # "running" => now.key # Absent /\ now.key.pair \in identity
  /\ tunnel # Absent => tunnel.key.pair \in identity

\* Only the handlers run that keep the set-up, and the WiFi portal is open for
\* a WiFi reset only.
HandlerKeeps ==
  /\ phase \in {"wifiPortal", "wifiJoined"} => wifiReset
  /\ phase # "transition" /\ handler.name \notin {"wifi", "identity", "factory"}
  /\ handler.name = "device" =>
       handler.cfg.auth = "key" /\ handler.cfg.key.pair \in identity

IdentityInv == identity # {} => FlashKeeps /\ RamKeeps /\ HandlerKeeps

LEMMA InitIdentity == Init => IdentityInv
<1> SUFFICES ASSUME Init, identity # {} PROVE FlashKeeps /\ RamKeeps /\ HandlerKeeps
  BY DEF IdentityInv
<1>1. /\ handler = Idle /\ phase = "off" /\ tunnel = Absent /\ cfgRisk = FALSE
      /\ committed = {files["cfg"]}
  BY DEF Init
<1> DEFINE blank == [f \in Names |-> Absent]
<1>2. PICK w \in Wifis, d \in Devices, ec \in BOOLEAN, pub \in {1, Absent} :
        /\ files = [blank EXCEPT
             !["cfg"] = [done |-> TRUE, wifi |-> w, dev |-> d, auth |-> "key"],
             !["key"] = [pair |-> 1, ec |-> ec], !["pub"] = pub]
        /\ identity = {1}
  BY DEF Init
<1>3. /\ files["cfg"] = [done |-> TRUE, wifi |-> w, dev |-> d, auth |-> "key"]
      /\ files["key"] = [pair |-> 1, ec |-> ec]
  BY <1>2 DEF Names
<1>4. files["cfg"] # Absent /\ files["key"] # Absent
  <2>1. [done |-> TRUE, wifi |-> w, dev |-> d, auth |-> "key"] \in CfgFiles
    BY DEF CfgFiles
  <2>2. 1 \in Pairs
    BY StoreAssumption DEF Pairs
  <2>3. [pair |-> 1, ec |-> ec] \in PrivateKeys
    BY <2>2 DEF PrivateKeys
  <2> QED BY <1>3, <2>1, <2>3, AbsentAssumption
<1>5. files["cfg"].done /\ files["cfg"].auth = "key" /\ files["key"].pair \in identity
  BY <1>2, <1>3
<1>6. FlashKeeps
  BY <1>1, <1>4, <1>5 DEF FlashKeeps, KeySetup, KeyKept
<1>7. RamKeeps
  BY <1>1 DEF RamKeeps
<1>8. HandlerKeeps
  BY <1>1, ConfigFacts DEF HandlerKeeps
<1> QED BY <1>6, <1>7, <1>8

\* What loadConfig finds of such a device.
LEMMA KeySetupLoads ==
  ASSUME FilesOK(files), KeySetup(files["cfg"]), files["key"] # Absent
  PROVE  /\ Loaded /\ LoadedConfig.done /\ LoadedConfig.auth = "key"
         /\ LoadedConfig.key = files["key"]
<1>1. files["cfg"] \in CfgFiles /\ files["cfg"].done /\ files["cfg"].auth = "key"
  BY DEF FilesOK, KeySetup
<1>2. files["cfg"].wifi \in Wifis
  BY <1>1 DEF CfgFiles
<1>3. Loaded
  BY <1>2, StoreAssumption DEF Loaded, KeySetup
<1> QED BY <1>1, <1>3 DEF LoadedConfig, LoadKeys

\* What writeConfig stores of it.
LEMMA KeySetupStored ==
  ASSUME NEW c, Storable(c), c.done, c.auth = "key"
  PROVE  KeySetup(Stored(c))
<1>1. Stored(c).done /\ Stored(c).auth = "key"
  BY DEF Stored
<1> QED BY <1>1, StoredFacts DEF KeySetup

\* An operation of a handler that may run on such a device.
LEMMA KeyKeptStep ==
  ASSUME TypeInv, PairInv, FlashKeeps, HandlerKeeps, todo # <<>>
  PROVE  KeyKept(handler, Tail(todo), failed, Done(files, Head(todo)), identity)
<1> DEFINE n == handler.name
           c == handler.cfg
           o == Head(todo)
           gs == Done(files, o)
<1>0. /\ FilesOK(files) /\ SavesWell(n, c) /\ c \in Configs
      /\ n \in HandlerNames /\ failed \in BOOLEAN
      /\ KeyStage(handler, todo, failed, files, keyRisk)
      /\ KeyKept(handler, todo, failed, files, identity)
  BY DEF TypeInv, ControlOK, PairInv, FlashKeeps
<1>1. CASE Submits(n, c, failed)
  <2>1. n = "device" /\ c.auth = "key" /\ c.key \in PrivateKeys /\ c.pub \in Pairs \cup {Absent}
    BY <1>0, <1>1, FieldFacts DEF SavesWell, Submits
  <2>2. Submitted(todo, files, c, keyRisk)
    BY <1>0, <1>1 DEF KeyStage
  <2>3. c.key # Absent /\ c.key.pair \in identity
    BY <2>1, PrivateKeyFacts DEF HandlerKeeps
  <2>4. \/ Exchanging(Tail(todo)) \/ gs["key"] = c.key
        \/ gs["key"] = files["key"] /\ Pending(todo, Rm("key"))
    BY <1>0, <2>1, <2>2, SubmittedStep
  <2>5. ASSUME Pending(todo, Rm("key")) PROVE ~Exchanging(todo)
    <3>1. PICK i \in DOMAIN todo : todo[i] = Rm("key")
      BY <2>5 DEF Pending
    <3>2. ASSUME Exchanging(todo) PROVE FALSE
      <4>1. todo \in Seq(Ops \ {Rm("key")})
        BY <3>2 DEF Exchanging
      <4>2. todo[i] \in Ops \ {Rm("key")}
        BY <4>1
      <4> QED BY <3>1, <4>2
    <3> QED BY <3>2
  <2> HIDE DEF gs
  <2>6. \/ Exchanging(Tail(todo))
        \/ gs["key"] # Absent /\ gs["key"].pair \in identity
    BY <1>0, <2>3, <2>4, <2>5 DEF KeyKept
  <2> QED BY <1>1, <2>6 DEF KeyKept, gs
<1>2. CASE ~Submits(n, c, failed)
  <2>1. files["key"] # Absent /\ files["key"].pair \in identity
    BY <1>0, <1>2 DEF KeyKept
  <2>2. Keeping(n, c, failed)
    BY <1>0, <1>2 DEF HandlerKeeps, HandlerNames, Keeping, Submits
  <2>3. todo \in Seq(KeepOps)
    BY <1>0, <2>2 DEF KeyStage
  <2>4. o \in KeepOps
    BY <2>3, FirstStep
  <2>5. o \in OtherOps
    BY <2>4, KeySets
  <2>6. gs["key"] = files["key"]
    BY <1>0, <2>4, <2>5, OtherDone
  <2> QED BY <2>1, <2>6 DEF KeyKept
<1> QED BY <1>1, <1>2

LEMMA IdentityStep ==
  TypeInv /\ CfgInv /\ PairInv /\ IdentityInv /\ [Next]_vars => IdentityInv'
<1> SUFFICES ASSUME TypeInv, CfgInv, PairInv, IdentityInv, [Next]_vars, identity' # {}
             PROVE  FlashKeeps' /\ RamKeeps' /\ HandlerKeeps'
  BY DEF IdentityInv
<1>0. /\ FilesOK(files) /\ RamOK /\ ControlOK /\ BoundsOK /\ HistoryOK
      /\ PhaseInv /\ SavesWell(handler.name, handler.cfg)
  BY DEF TypeInv
<1>1. /\ now \in Configs /\ keys \in Nat /\ wifiReset \in BOOLEAN
      /\ handler \in [name : HandlerNames, cfg : Configs] /\ todo \in Seq(Ops)
      /\ handler.cfg \in Configs
  BY <1>0 DEF RamOK, BoundsOK, ControlOK
<1>i. handler = Idle => handler.name = "none" /\ todo = <<>>
  BY <1>0, ConfigFacts DEF PhaseInv
<1>2. identity # {} => FlashKeeps /\ RamKeeps /\ HandlerKeeps
  BY DEF IdentityInv
\* The key on flash, where no exchange is under way.
<1>3. ASSUME identity # {}, ~(Submits(handler.name, handler.cfg, failed) /\ Exchanging(todo))
      PROVE  files["key"] # Absent /\ files["key"].pair \in identity
  BY <1>2, <1>3 DEF FlashKeeps, KeyKept
<1>4. ASSUME handler.name # "device" \/ failed \/ todo = <<>>
      PROVE  ~(Submits(handler.name, handler.cfg, failed) /\ Exchanging(todo))
  BY <1>4 DEF Submits, Exchanging
\* The device restarts.
<1>5. ASSUME Reset, ~cfgRisk', \A x \in committed' : KeySetup(x),
             files'["key"] # Absent /\ files'["key"].pair \in identity'
      PROVE  FlashKeeps' /\ RamKeeps' /\ HandlerKeeps'
  <2>1. handler' = Idle /\ phase' = "off" /\ tunnel' = Absent
    BY <1>5 DEF Reset
  <2>2. handler'.name = "none"
    BY <2>1, ConfigFacts
  <2> QED BY <1>5, <2>1, <2>2 DEF FlashKeeps, RamKeeps, HandlerKeeps, KeyKept
\* A handler begins, or none runs.
<1>6. ASSUME identity # {}, handler.name = "none",
             UNCHANGED <<files, cfgRisk>>, identity \subseteq identity',
             \A x \in committed' : KeySetup(x), RamKeeps', HandlerKeeps'
      PROVE  FlashKeeps' /\ RamKeeps' /\ HandlerKeeps'
  <2>1. files["key"] # Absent /\ files["key"].pair \in identity
    BY <1>3, <1>4, <1>6
  <2>2. ~cfgRisk
    BY <1>2, <1>6 DEF FlashKeeps
  <2>3. FlashKeeps'
    BY <1>6, <2>1, <2>2 DEF FlashKeeps, KeyKept
  <2> QED BY <1>6, <2>3
<1>c. ASSUME identity # {} PROVE \A x \in committed : KeySetup(x)
  BY <1>2, <1>c DEF FlashKeeps
<1>7. CASE Boot
  <2>1. /\ phase = "off" /\ phase' = "load" /\ handler'.name = "boot"
        /\ UNCHANGED <<files, tunnel, cfgRisk, committed, identity>>
    BY <1>7 DEF Boot, Begin, history
  <2>2. handler.name = "none" /\ identity # {}
    BY <1>0, <1>i, <2>1 DEF PhaseInv
  <2>3. RamKeeps' /\ HandlerKeeps'
    BY <1>2, <2>1, <2>2 DEF RamKeeps, HandlerKeeps
  <2> QED BY <1>6, <1>c, <2>1, <2>2, <2>3
<1>8. CASE FormatStorage \/ FactoryReset \/ ShortWrite
  <2>1. identity' = {}
    BY <1>8 DEF FormatStorage, FactoryReset, ShortWrite
  <2> QED BY <2>1
<1>9. CASE Load
  <2>1. /\ handler.name = "boot" /\ todo = <<>> /\ handler' = Idle
        /\ now' = LoadedConfig /\ committed' = {BootContent}
        /\ phase' \in {IF wifiReset \/ ~Loaded THEN "wifiPortal" ELSE "connect", "halted"}
        /\ UNCHANGED <<files, todo, failed, wifiReset, tunnel, cfgRisk, identity>>
    BY <1>9 DEF Load
  <2>2. /\ files["key"] # Absent /\ files["key"].pair \in identity
        /\ FlashKeeps /\ RamKeeps
    BY <1>2, <1>3, <1>4, <2>1
  <2>3. ~cfgRisk /\ \A x \in committed : KeySetup(x)
    BY <2>2 DEF FlashKeeps
  <2>4. Settled(files, committed)
    BY <2>1, <2>3 DEF CfgInv, CfgStage, Repairing
  <2>5. BootContent = files["cfg"] /\ KeySetup(files["cfg"])
    BY <2>3, <2>4 DEF Settled, BootOf, BootContent, KeySetup
  <2>6. /\ Loaded /\ LoadedConfig.done /\ LoadedConfig.auth = "key"
        /\ LoadedConfig.key = files["key"]
    BY <1>0, <2>2, <2>5, KeySetupLoads
  <2>7. phase' \in {"wifiPortal", "connect", "halted"} /\ (phase' = "wifiPortal" => wifiReset)
    BY <2>1, <2>6
  <2>8. RamKeeps'
    BY <2>1, <2>2, <2>6, <2>7 DEF RamKeeps
  <2>9. handler'.name = "none"
    BY <2>1, ConfigFacts
  <2>10. HandlerKeeps'
    BY <2>1, <2>7, <2>9 DEF HandlerKeeps
  <2>11. FlashKeeps'
    BY <2>1, <2>2, <2>3, <2>5 DEF FlashKeeps, KeyKept
  <2> QED BY <2>8, <2>10, <2>11
<1>10. CASE ConnectWiFi \/ OpenDevicePortal
  <2>1. /\ handler = Idle /\ phase \in {"connect", "setup", "transition"}
        /\ phase' \in {"setup", "paused", "devicePortal"}
        /\ UNCHANGED <<files, now, wifiReset, handler, tunnel, cfgRisk, committed, identity>>
    BY <1>10 DEF ConnectWiFi, OpenDevicePortal, AtRest, history, ram
  <2>2. RamKeeps'
    BY <1>2, <2>1 DEF RamKeeps
  <2>3. HandlerKeeps'
    BY <1>2, <2>1 DEF HandlerKeeps
  <2> QED BY <1>6, <1>c, <1>i, <2>1, <2>2, <2>3
<1>11. CASE StartTunnel
  <2>1. /\ handler = Idle /\ phase = "setup" /\ phase' = "running"
        /\ tunnel' = HandedOver(now)
        /\ now' = [now EXCEPT !.key = Absent, !.pub = Absent]
        /\ UNCHANGED <<files, handler, cfgRisk, committed, identity>>
    BY <1>11 DEF StartTunnel, AtRest, history
  <2>2. /\ now.done /\ now.auth = "key" /\ now.key.pair \in identity
    BY <1>2, <2>1 DEF RamKeeps
  <2>3. now'.done /\ now'.auth = "key"
    BY <1>1, <2>1, <2>2 DEF Configs
  <2>4. tunnel'.key = now.key
    BY <2>1, <2>2 DEF HandedOver
  <2>5. RamKeeps'
    BY <2>1, <2>2, <2>3, <2>4 DEF RamKeeps
  <2>6. HandlerKeeps'
    BY <1>2, <2>1 DEF HandlerKeeps
  <2> QED BY <1>6, <1>c, <1>i, <2>1, <2>5, <2>6
<1>12. CASE EnsureIdentity
  <2>1. /\ phase \in {"setup", "wifiJoined", "transition", "devicePortal", "paused"}
        /\ ~now.done /\ identity' = identity
    BY <1>12 DEF EnsureIdentity, AtRest, NeedsIdentity, history
  <2> QED BY <1>2, <2>1 DEF RamKeeps
<1>13. ASSUME NEW w \in Wifis, NEW vendorChanged \in BOOLEAN, WifiSave(w, vendorChanged)
       PROVE  FlashKeeps' /\ RamKeeps' /\ HandlerKeeps'
  <2>1. /\ handler = Idle /\ phase \in {"wifiPortal", "wifiJoined", "transition"}
        /\ now' = [now EXCEPT !.wifi = w, !.done = PreserveDeviceConfig]
        /\ phase' = (IF phase = "transition" THEN phase ELSE "wifiJoined")
        /\ handler'.cfg = now'
        /\ handler'.name = IF PreserveDeviceConfig \/ vendorChanged
                           THEN "wifiRestart" ELSE "wifi"
        /\ committed' = committed \cup {Stored(now')}
        /\ UNCHANGED <<files, wifiReset, tunnel, cfgRisk, identity>>
    BY <1>13 DEF WifiSave, AtRest, Save, Serve, Begin
  <2>2. RamKeeps /\ HandlerKeeps
    BY <1>2, <2>1
  <2>3. phase # "transition" /\ wifiReset /\ now.done /\ now.auth = "key"
        /\ now.key # Absent /\ now.key.pair \in identity
    BY <2>1, <2>2 DEF RamKeeps, HandlerKeeps
  <2>4. PreserveDeviceConfig
    BY <2>3 DEF PreserveDeviceConfig
  <2>5. phase' = "wifiJoined" /\ handler'.name = "wifiRestart"
    BY <2>1, <2>3, <2>4
  <2>6. now'.done /\ now'.auth = "key" /\ now'.key = now.key
    BY <1>1, <2>1, <2>3, <2>4 DEF Configs
  <2>7. now.done => now.dev \in Devices
    BY <1>0 DEF PhaseInv
  <2>8. Storable(now')
    BY <1>1, <2>1, <2>7, WifiConfigFacts
  <2>9. \A x \in committed' : KeySetup(x)
    BY <1>c, <2>1, <2>6, <2>8, KeySetupStored
  <2>10. RamKeeps'
    BY <2>1, <2>2, <2>3, <2>5, <2>6 DEF RamKeeps
  <2>11. HandlerKeeps'
    BY <2>1, <2>3, <2>5 DEF HandlerKeeps
  <2> QED BY <1>6, <1>i, <2>1, <2>9, <2>10, <2>11
<1>14. ASSUME NEW d \in Devices, NEW s \in Submissions, DeviceSave(d, s)
       PROVE  FlashKeeps' /\ RamKeeps' /\ HandlerKeeps'
  <2> DEFINE c == [s EXCEPT !.done = TRUE, !.dev = d]
  <2>1. /\ handler = Idle /\ phase = "devicePortal"
        /\ handler'.name = "device" /\ handler'.cfg = c
        /\ committed' = committed \cup {Stored(c)}
        /\ identity' = IF c.auth = "key" /\ identity # {}
                       THEN identity \cup {c.key.pair} ELSE {}
        /\ UNCHANGED <<files, wifiReset, tunnel, cfgRisk, now, phase>>
    BY <1>14 DEF DeviceSave, AtRest, Save, Serve, Begin
  <2>2. now.wifi \in Wifis
    BY <1>0, <2>1 DEF PhaseInv, Joined
  <2>3. Storable(c) /\ c \in Configs /\ c.done
    BY <1>1, <2>2, DeviceConfigFacts
  <2> HIDE DEF c
  <2>4. /\ c.auth = "key" /\ identity # {} /\ identity' = identity \cup {c.key.pair}
    BY <2>1
  <2>5. RamKeeps /\ HandlerKeeps
    BY <1>2, <2>4
  <2>6. \A x \in committed' : KeySetup(x)
    BY <1>c, <2>1, <2>3, <2>4, KeySetupStored
  <2>7. RamKeeps'
    BY <2>1, <2>4, <2>5 DEF RamKeeps
  <2>8. HandlerKeeps'
    BY <2>1, <2>4 DEF HandlerKeeps
  <2> QED BY <1>6, <1>i, <2>1, <2>4, <2>6, <2>7, <2>8
<1>15. ASSUME NEW d \in Devices, ManagedSave(d)
       PROVE  FlashKeeps' /\ RamKeeps' /\ HandlerKeeps'
  <2> DEFINE c == [now EXCEPT !.done = TRUE, !.dev = d]
  <2>1. /\ handler = Idle /\ now.auth = "key"
        /\ phase \in {"running", "paused", "wifiJoined", "transition", "devicePortal"}
        /\ handler'.name = "managed" /\ committed' = committed \cup {Stored(c)}
        /\ UNCHANGED <<files, wifiReset, tunnel, cfgRisk, now, phase, identity>>
    BY <1>15 DEF ManagedSave, AtRest, Save, Serve, Begin
  <2>2. /\ c \in Configs /\ c.wifi = now.wifi /\ c.dev = d /\ c.done /\ c.auth = now.auth
    BY <1>1 DEF Configs
  <2> HIDE DEF c
  <2>3. Storable(c)
    BY <1>0, <2>1, <2>2 DEF Storable, PhaseInv, Joined
  <2>4. \A x \in committed' : KeySetup(x)
    BY <1>c, <2>1, <2>2, <2>3, KeySetupStored
  <2>5. RamKeeps'
    BY <1>2, <2>1 DEF RamKeeps
  <2>6. HandlerKeeps'
    BY <1>2, <2>1 DEF HandlerKeeps
  <2> QED BY <1>6, <1>i, <2>1, <2>4, <2>5, <2>6
<1>16. CASE RequestEdit \/ RequestWifiReset
  <2>1. /\ handler = Idle /\ handler'.name = "request"
        /\ UNCHANGED <<files, wifiReset, tunnel, cfgRisk, now, phase, identity, committed>>
    BY <1>16 DEF RequestEdit, RequestWifiReset, AtRest, Serve, Begin
  <2>2. RamKeeps'
    BY <1>2, <2>1 DEF RamKeeps
  <2>3. HandlerKeeps'
    BY <1>2, <2>1 DEF HandlerKeeps
  <2> QED BY <1>6, <1>c, <1>i, <2>1, <2>2, <2>3
\* One operation.
<1>17. CASE FileOp
  <2>1. /\ todo # <<>> /\ files' = Done(files, Head(todo)) /\ todo' = Tail(todo)
        /\ UNCHANGED <<handler, failed, now, phase, wifiReset, tunnel, cfgRisk, committed,
                       identity>>
    BY <1>17 DEF FileOp, history, ram
  <2>2. FlashKeeps /\ RamKeeps /\ HandlerKeeps
    BY <1>2, <2>1
  <2>3. KeyKept(handler, Tail(todo), failed, Done(files, Head(todo)), identity)
    BY <2>1, <2>2, KeyKeptStep
  <2>4. KeyKept(handler', todo', failed', files', identity')
    BY <2>1, <2>3
  <2>5. FlashKeeps'
    BY <2>1, <2>2, <2>4 DEF FlashKeeps
  <2>6. RamKeeps' /\ HandlerKeeps'
    BY <2>1, <2>2 DEF RamKeeps, HandlerKeeps
  <2> QED BY <2>5, <2>6
<1>18. CASE FileOpFails
  <2>1. /\ identity' = (IF KeysInFlux \/ Head(todo).op = "restore" THEN {} ELSE identity)
        /\ cfgRisk' = (cfgRisk \/ Head(todo).op = "restore")
        /\ UNCHANGED <<files, handler, now, phase, wifiReset, tunnel, committed>>
    BY <1>18 DEF FileOpFails, ram
  <2>2. ~KeysInFlux /\ Head(todo).op # "restore" /\ identity' = identity
    BY <2>1
  <2>3. FlashKeeps /\ RamKeeps /\ HandlerKeeps
    BY <1>2, <2>2
  <2>4. ~(Submits(handler.name, handler.cfg, failed) /\ Exchanging(todo))
    BY <2>2, ExchangeSeen DEF Submits
  <2>5. files["key"] # Absent /\ files["key"].pair \in identity
    BY <1>3, <2>2, <2>4
  <2>6. ~cfgRisk'
    BY <2>1, <2>2, <2>3 DEF FlashKeeps
  <2>7. FlashKeeps'
    BY <2>1, <2>2, <2>3, <2>5, <2>6 DEF FlashKeeps, KeyKept
  <2>8. RamKeeps' /\ HandlerKeeps'
    BY <2>1, <2>2, <2>3 DEF RamKeeps, HandlerKeeps
  <2> QED BY <2>7, <2>8
\* A handler ends.
<1>19. ASSUME Returns(Writers), ~failed, Stores
       PROVE  /\ ~cfgRisk' /\ committed' = {Stored(handler.cfg)}
              /\ handler.name # "wifi" /\ KeySetup(Stored(handler.cfg))
              /\ files["key"] # Absent /\ files["key"].pair \in identity'
  <2> DEFINE n == handler.name
             c == handler.cfg
  <2>1. /\ n \in Writers /\ todo = <<>> /\ committed' = {Stored(c)}
        /\ cfgRisk' = (cfgRisk /\ files["cfg"] # Stored(c))
        /\ identity' = IF cfgRisk' THEN {}
                       ELSE CASE n = "device" /\ c.auth = "key" -> {c.key.pair}
                              [] n = "managed" /\ identity = {} /\ files["key"] # Absent ->
                                   {files["key"].pair}
                              [] OTHER -> identity
    BY <1>19 DEF Returns, Stores
  <2>2. ~cfgRisk'
    BY <2>1
  <2>3. Storable(c) /\ Stored(c) \in committed
    BY <1>0, <2>1 DEF SavesWell, CfgInv
  <2>4. CASE n = "device" /\ c.auth = "key"
    <3>1. identity' = {c.key.pair}
      BY <2>1, <2>2, <2>4
    <3>2. c.done /\ c.key \in PrivateKeys /\ c.pub \in Pairs \cup {Absent}
      BY <1>0, <1>1, <2>4, FieldFacts DEF SavesWell
    <3>3. Submitted(todo, files, c, keyRisk) /\ Paired(keyRisk, c.key, c.pub)
      BY <1>19, <2>4 DEF PairInv, KeyStage, Submits
    <3>4. files["key"] = c.key
      BY <2>1, <3>2, <3>3, SubmittedCut
    <3>5. KeySetup(Stored(c))
      BY <2>3, <2>4, <3>2, KeySetupStored
    <3> QED BY <2>1, <2>2, <2>4, <3>1, <3>2, <3>4, <3>5, PrivateKeyFacts
  <2>5. CASE n = "managed" /\ identity = {} /\ files["key"] # Absent
    <3>1. identity' = {files["key"].pair}
      BY <2>1, <2>2, <2>5
    <3>2. c.done /\ c.auth = "key"
      BY <1>0, <2>5 DEF SavesWell
    <3>3. KeySetup(Stored(c))
      BY <2>3, <3>2, KeySetupStored
    <3> QED BY <2>1, <2>2, <2>5, <3>1, <3>3
  <2>6. CASE /\ ~(n = "device" /\ c.auth = "key")
             /\ ~(n = "managed" /\ identity = {} /\ files["key"] # Absent)
    <3>1. identity' = identity
      BY <2>1, <2>2, <2>6
    <3>2. identity # {} /\ HandlerKeeps
      BY <1>2, <3>1
    <3>3. files["key"] # Absent /\ files["key"].pair \in identity
      BY <1>3, <1>4, <2>1, <3>2
    <3>4. KeySetup(Stored(c)) /\ n # "wifi"
      BY <1>c, <2>3, <3>2 DEF HandlerKeeps
    <3> QED BY <2>1, <2>2, <3>1, <3>3, <3>4
  <2> QED BY <2>4, <2>5, <2>6
<1>20. CASE SavedAndRestart
  <2>1. Returns(Writers) /\ ~failed /\ Stores /\ Reset /\ files' = files
    BY <1>20 DEF SavedAndRestart, Returns, Writers
  <2>2. /\ ~cfgRisk' /\ committed' = {Stored(handler.cfg)}
        /\ KeySetup(Stored(handler.cfg))
        /\ files["key"] # Absent /\ files["key"].pair \in identity'
    BY <1>19, <2>1
  <2> QED BY <1>5, <2>1, <2>2
<1>21. CASE SavedAndContinue
  <2>1. Returns(Writers) /\ ~failed /\ Stores /\ handler.name = "wifi"
    BY <1>21 DEF SavedAndContinue, Returns, Writers
  <2> QED BY <1>19, <2>1
<1>22. CASE SaveFailed
  <2>1. /\ failed /\ handler' = Idle
        /\ UNCHANGED <<files, now, phase, wifiReset, tunnel, cfgRisk, committed, identity>>
    BY <1>22 DEF SaveFailed, ram, history
  <2>2. FlashKeeps /\ RamKeeps /\ HandlerKeeps
    BY <1>2, <2>1
  <2>3. files["key"] # Absent /\ files["key"].pair \in identity
    BY <1>3, <1>4, <2>1
  <2>4. handler'.name = "none"
    BY <2>1, ConfigFacts
  <2>5. FlashKeeps'
    BY <2>1, <2>2, <2>3 DEF FlashKeeps, KeyKept
  <2>6. RamKeeps' /\ HandlerKeeps'
    BY <2>1, <2>2, <2>4 DEF RamKeeps, HandlerKeeps
  <2> QED BY <2>5, <2>6
<1>23. CASE IdentityReady \/ Wiped
  <2>1. handler.name \in {"identity", "factory"} /\ identity' = identity
    BY <1>23 DEF IdentityReady, Wiped, Returns, history
  <2> QED BY <1>2, <2>1 DEF HandlerKeeps
<1>24. CASE RequestStored
  <2>1. /\ handler.name = "request" /\ Reset
        /\ UNCHANGED <<files, cfgRisk, committed, identity>>
    BY <1>24 DEF RequestStored, Returns, history
  <2>2. files["key"] # Absent /\ files["key"].pair \in identity /\ FlashKeeps
    BY <1>2, <1>3, <1>4, <2>1
  <2>3. ~cfgRisk' /\ \A x \in committed' : KeySetup(x)
    BY <2>1, <2>2 DEF FlashKeeps
  <2> QED BY <1>5, <2>1, <2>2, <2>3
<1>25. CASE PowerLoss
  <2>1. /\ identity' = (IF KeysInFlux THEN {} ELSE identity) /\ Reset
        /\ UNCHANGED <<files, committed, cfgRisk>>
    BY <1>25 DEF PowerLoss
  <2>2. ~KeysInFlux /\ identity' = identity
    BY <2>1
  <2>3. ~(Submits(handler.name, handler.cfg, failed) /\ Exchanging(todo))
    BY <2>2, ExchangeSeen DEF Submits
  <2>4. files["key"] # Absent /\ files["key"].pair \in identity /\ FlashKeeps
    BY <1>2, <1>3, <2>2, <2>3
  <2>5. ~cfgRisk' /\ \A x \in committed' : KeySetup(x)
    BY <2>1, <2>4 DEF FlashKeeps
  <2> QED BY <1>5, <2>1, <2>2, <2>4, <2>5
<1>26. CASE UNCHANGED vars
  <2>1. UNCHANGED <<files, now, phase, handler, todo, failed, wifiReset, tunnel, cfgRisk,
                    committed, identity>>
    BY <1>26 DEF vars, control, history, ram
  <2>2. FlashKeeps /\ RamKeeps /\ HandlerKeeps
    BY <1>2, <2>1
  <2> QED BY <2>1, <2>2 DEF FlashKeeps, RamKeeps, HandlerKeeps
<1> QED
  BY <1>7, <1>8, <1>9, <1>10, <1>11, <1>12, <1>13, <1>14, <1>15, <1>16, <1>17, <1>18,
     <1>20, <1>21, <1>22, <1>23, <1>24, <1>25, <1>26 DEF Next

\* A device that was set up with a key goes on to use it, or one the operator
\* submitted since, through restarts, power cuts, failing writes, WiFi resets and
\* managed updates.
THEOREM StoreIdentityKept == Spec => []IdentityKept
<1>1. Spec => [](TypeInv /\ CfgInv /\ PairInv /\ IdentityInv)
  BY InitTypes, InitCfg, InitPair, InitIdentity, TypeStep, CfgStep, PairStep,
     IdentityStep, PTL DEF Spec
<1>2. IdentityInv => IdentityKept
  BY DEF IdentityInv, RamKeeps, IdentityKept
<1> QED BY <1>1, <1>2, PTL

-----------------------------------------------------------------------------
\* A complete set-up and what RAM holds of it while the WiFi portal can save.

\* The file x is that of a complete set-up; with a key, of the known ones id.
SetUp(x, id) == x # Absent /\ x.done /\ (x.auth = "key" => id # {})

\* The tunnel part of c is that of the file x.
SameTunnel(c, x) == c.done /\ c.dev = x.dev /\ c.auth = x.auth

WifiPhases == {"wifiPortal", "wifiJoined", "transition"}

\* A managed update has put its file in place: the device will restart.
Replaced == handler.name = "managed" /\ ~failed /\ todo \in {<<RmBak>>, <<>>}

\* What a handler has taken from RAM, and where it runs.
Taken ==
  /\ handler.name \in {"wifi", "wifiRestart"} =>
       handler.cfg = now /\ (now.done => wifiReset)
  /\ handler.name \in {"wifi", "identity"} => ~now.done
  /\ handler.name = "device" => phase = "devicePortal"
  /\ handler.name = "managed" /\ ~failed /\ ~cfgRisk =>
       Writing(todo, files, handler.cfg, committed)

\* RAM has the set-up of the file, and the portal is open for a WiFi reset.
Mirrors ==
  /\ ~cfgRisk /\ phase \in WifiPhases /\ handler.name # "factory" /\ ~Replaced
  /\ SetUp(BootOf(files), identity)
  => SameTunnel(now, BootOf(files)) /\ wifiReset

MirrorInv == Taken /\ Mirrors

LEMMA InitMirror == Init => MirrorInv
<1> SUFFICES ASSUME Init PROVE MirrorInv
  OBVIOUS
<1>1. phase = "off" /\ handler = Idle
  BY DEF Init
<1>2. handler.name = "none"
  BY <1>1, ConfigFacts
<1> QED BY <1>1, <1>2 DEF MirrorInv, Taken, Mirrors, WifiPhases

\* A boot finds the old file until writeConfig has put the new one in place.
LEMMA WritingMoves ==
  ASSUME NEW fs, FilesOK(fs), NEW c, Storable(c), NEW cm,
         NEW w, w # <<>>, Writing(w, fs, c, cm)
  PROVE  \/ BootOf(Done(fs, Head(w))) = BootOf(fs)
         \/ /\ BootOf(Done(fs, Head(w))) = Stored(c)
            /\ Tail(w) \in {<<RmBak>>, <<>>}
<1> DEFINE gs == Done(fs, Head(w))
<1>0. Stored(c) # Absent
  BY StoredFacts
<1>1. CASE w \in {<<PutNew(c), RmBak, MvOld, MvNewOver, RmBak>>,
                  <<PutNew(c), RmBak, MvNewFirst, RmBak>>}
  <2>1. Head(w) = PutNew(c)
    BY <1>1
  <2>2. gs["cfg"] = fs["cfg"] /\ gs["cfgBak"] = fs["cfgBak"]
    BY <2>1, CfgDone
  <2> QED BY <2>1, <2>2 DEF BootOf
<1>2. CASE /\ w \in {<<RmBak, MvOld, MvNewOver, RmBak>>, <<RmBak, MvNewFirst, RmBak>>}
           /\ Settled(fs, cm)
  <2>1. Head(w) = RmBak
    BY <1>2
  <2>2. gs["cfg"] = fs["cfg"] /\ gs["cfgBak"] = Absent
    BY <2>1, CfgDone
  <2> QED BY <1>2, <2>1, <2>2 DEF BootOf, Settled
<1>3. CASE w = <<MvOld, MvNewOver, RmBak>> /\ fs["cfg"] # Absent
  <2>1. Head(w) = MvOld
    BY <1>3
  <2>2. gs["cfgBak"] = fs["cfg"] /\ gs["cfg"] = Absent
    BY <2>1, CfgDone
  <2> QED BY <1>3, <2>1, <2>2 DEF BootOf
<1>4. CASE w \in {<<MvNewOver, RmBak>>, <<MvNewFirst, RmBak>>} /\ fs["cfgTmp"] = Stored(c)
  <2>1. Head(w) \in {MvNewOver, MvNewFirst} /\ Tail(w) = <<RmBak>>
    <3>1. ASSUME w = <<MvNewOver, RmBak>>
          PROVE  Head(w) = MvNewOver /\ Tail(w) = <<RmBak>>
      BY <3>1
    <3>2. ASSUME w = <<MvNewFirst, RmBak>>
          PROVE  Head(w) = MvNewFirst /\ Tail(w) = <<RmBak>>
      BY <3>2
    <3> QED BY <1>4, <3>1, <3>2
  <2>2. gs["cfg"] = fs["cfgTmp"]
    BY <2>1, CfgDone
  <2> QED BY <1>0, <1>4, <2>1, <2>2 DEF BootOf
<1>5. CASE w = <<RmBak>> /\ fs["cfg"] = Stored(c)
  <2>1. Head(w) = RmBak /\ Tail(w) = <<>>
    BY <1>5
  <2>2. gs["cfg"] = fs["cfg"]
    BY <2>1, CfgDone
  <2> QED BY <1>0, <1>5, <2>1, <2>2 DEF BootOf
<1> QED BY <1>1, <1>2, <1>3, <1>4, <1>5 DEF Writing

\* An operation of any handler but the factory reset.
LEMMA BootMoves ==
  ASSUME TypeInv, CfgInv, ~cfgRisk, handler.name # "factory", todo # <<>>
  PROVE  \/ BootOf(Done(files, Head(todo))) = BootOf(files)
         \/ /\ handler.name \in Writers /\ ~failed
            /\ BootOf(Done(files, Head(todo))) = Stored(handler.cfg)
<1> DEFINE gs == Done(files, Head(todo))
<1>0. /\ CfgStage /\ FilesOK(files) /\ handler.name \in HandlerNames /\ todo \in Seq(Ops)
      /\ SavesWell(handler.name, handler.cfg) /\ failed \in BOOLEAN
  BY DEF CfgInv, TypeInv, ControlOK
<1>1. CASE handler.name \in Writers /\ ~failed
  <2> DEFINE c == handler.cfg
  <2>1. PICK k \in Seq(QuietOps), w \in Seq(Ops), e \in Seq(QuietOps) :
          todo = k \o (w \o e) /\ Writing(w, files, c, committed)
    BY <1>0, <1>1 DEF CfgStage
  <2>2. Storable(c)
    BY <1>0, <1>1 DEF SavesWell
  <2>3. k \in Seq(Ops) /\ e \in Seq(Ops) /\ w \o e \in Seq(Ops)
    BY OpSets, SeqWidens, ConcatProperties
  <2>4. CASE k # <<>>
    <3>1. Head(todo) = Head(k) /\ Head(k) \in QuietOps
      BY <2>1, <2>3, <2>4, CatStep, FirstStep
    <3>2. gs["cfg"] = files["cfg"] /\ gs["cfgBak"] = files["cfgBak"]
      BY <1>0, <3>1, QuietDone DEF TidyOps
    <3> QED BY <3>2 DEF BootOf
  <2>5. CASE k = <<>> /\ w # <<>>
    <3>1. todo = w \o e
      BY <2>1, <2>3, <2>5, CatStep
    <3>2. Head(todo) = Head(w)
      BY <2>3, <2>5, <3>1, CatStep
    <3> QED BY <1>0, <1>1, <2>1, <2>2, <2>5, <3>2, WritingMoves
  <2>6. CASE k = <<>> /\ w = <<>>
    <3>1. todo = e
      BY <2>1, <2>3, <2>6, CatStep
    <3>2. Head(todo) \in QuietOps
      BY <3>1, FirstStep
    <3>3. gs["cfg"] = files["cfg"] /\ gs["cfgBak"] = files["cfgBak"]
      BY <1>0, <3>2, QuietDone DEF TidyOps
    <3> QED BY <3>3 DEF BootOf
  <2> QED BY <2>4, <2>5, <2>6
<1>2. CASE handler.name \in Writers /\ failed
  <2>1. Tidying(todo, files, committed)
    BY <1>0, <1>2 DEF CfgStage
  <2>2. CASE todo \in Seq(TidyOps)
    <3>1. Head(todo) \in TidyOps
      BY <2>2, FirstStep
    <3>2. gs["cfg"] = files["cfg"] /\ gs["cfgBak"] = files["cfgBak"]
      BY <1>0, <3>1, QuietDone
    <3> QED BY <3>2 DEF BootOf
  <2>3. CASE todo = <<RestoreCfg, Rm("cfgTmp")>> /\ OnlyBackup(files, committed)
    <3>1. Head(todo) = RestoreCfg
      BY <2>3
    <3>2. gs["cfg"] = files["cfgBak"] /\ gs["cfgBak"] = Absent
      BY <1>0, <1>2, <3>1, CfgDone DEF SavesWell
    <3> QED BY <2>3, <3>2 DEF BootOf, OnlyBackup
  <2> QED BY <2>1, <2>2, <2>3 DEF Tidying
<1>3. CASE handler.name = "boot"
  <2>1. Repairing(todo, files, committed)
    BY <1>0, <1>3 DEF CfgStage
  <2>2. CASE todo = <<RestoreCfg>> /\ OnlyBackup(files, committed)
    <3>1. gs = [files EXCEPT !["cfg"] = files["cfgBak"], !["cfgBak"] = Absent]
      <4>1. gs = Done(files, RestoreCfg)
        BY <2>2
      <4> QED BY <4>1 DEF Done, RestoreCfg, Restore
    <3>2. gs["cfg"] = files["cfgBak"] /\ gs["cfgBak"] = Absent
      BY <1>0, <3>1 DEF FilesOK, Names
    <3> QED BY <2>2, <3>2 DEF BootOf, OnlyBackup
  <2>3. CASE todo = <<RmBak>> /\ files["cfg"] # Absent
    <3>1. gs = [files EXCEPT !["cfgBak"] = Absent]
      <4>1. gs = Done(files, RmBak)
        BY <2>3
      <4> QED BY <4>1 DEF Done, RmBak, Rm
    <3>2. gs["cfg"] = files["cfg"]
      BY <1>0, <3>1 DEF FilesOK, Names
    <3> QED BY <2>3, <3>2 DEF BootOf
  <2> QED BY <2>1, <2>2, <2>3 DEF Repairing
<1>4. CASE handler.name \in {"none", "request", "identity"}
  <2>1. Head(todo) \in QuietOps
    BY <1>0, <1>4, FirstStep DEF CfgStage
  <2>2. gs["cfg"] = files["cfg"] /\ gs["cfgBak"] = files["cfgBak"]
    BY <1>0, <2>1, QuietDone DEF TidyOps
  <2> QED BY <2>2 DEF BootOf
<1> QED BY <1>0, <1>1, <1>2, <1>3, <1>4 DEF HandlerNames, Writers

LEMMA MirrorStep ==
  /\ TypeInv /\ CfgInv /\ PairInv /\ IdentityInv /\ MirrorInv
  /\ [Next]_vars
  => MirrorInv'
<1> SUFFICES ASSUME TypeInv, CfgInv, PairInv, IdentityInv, MirrorInv, [Next]_vars
             PROVE  Taken' /\ Mirrors'
  BY DEF MirrorInv
<1>0. /\ FilesOK(files) /\ RamOK /\ ControlOK /\ BoundsOK /\ HistoryOK
      /\ PhaseInv /\ SavesWell(handler.name, handler.cfg)
      /\ Taken /\ Mirrors
  BY DEF TypeInv, MirrorInv
<1>1. /\ now \in Configs /\ keys \in Nat /\ wifiReset \in BOOLEAN /\ failed \in BOOLEAN
      /\ handler \in [name : HandlerNames, cfg : Configs] /\ todo \in Seq(Ops)
      /\ handler.name \in HandlerNames /\ cfgRisk \in BOOLEAN
  BY <1>0 DEF RamOK, BoundsOK, ControlOK, HistoryOK
<1>i. handler = Idle => handler.name = "none" /\ todo = <<>>
  BY <1>0, ConfigFacts DEF PhaseInv
<1>n. Idle.name = "none"
  BY ConfigFacts
\* Outside the portal nothing is asked.
<1>2. ASSUME phase' \notin WifiPhases,
             handler'.name \notin {"wifi", "wifiRestart", "identity", "device", "managed"}
      PROVE  Taken' /\ Mirrors'
  BY <1>2 DEF Taken, Mirrors
\* A handler begins that takes nothing from RAM, or none runs.
<1>3. ASSUME handler.name = "none", ~cfgRisk, phase \in WifiPhases,
             SetUp(BootOf(files), identity)
      PROVE  SameTunnel(now, BootOf(files)) /\ wifiReset
  BY <1>0, <1>3 DEF Mirrors, Replaced
<1>4. ASSUME handler.name = "none",
             UNCHANGED <<files, now, wifiReset, phase, cfgRisk, identity>>
      PROVE  Mirrors'
  BY <1>3, <1>4 DEF Mirrors
<1>5. CASE Boot
  <2>1. phase' = "load" /\ handler'.name = "boot"
    BY <1>5 DEF Boot, Begin
  <2> QED BY <1>2, <2>1 DEF WifiPhases
<1>6. CASE FormatStorage
  <2>1. phase = "off" /\ UNCHANGED <<phase, handler>>
    BY <1>6 DEF FormatStorage, control
  <2>2. handler.name = "none"
    BY <1>0, <1>i, <2>1 DEF PhaseInv
  <2> QED BY <1>2, <2>1, <2>2 DEF WifiPhases
<1>7. CASE Load
  <2>1. /\ handler.name = "boot" /\ todo = <<>> /\ handler' = Idle
        /\ now' = LoadedConfig
        /\ phase' \in {IF wifiReset \/ ~Loaded THEN "wifiPortal" ELSE "connect", "halted"}
        /\ UNCHANGED <<files, todo, failed, wifiReset, cfgRisk, identity>>
    BY <1>7 DEF Load
  <2>2. handler'.name = "none"
    BY <1>n, <2>1
  <2>3. Taken'
    BY <2>2 DEF Taken
  <2>4. SUFFICES ASSUME ~cfgRisk, phase' = "wifiPortal", SetUp(BootOf(files), identity)
                 PROVE  SameTunnel(now', BootOf(files)) /\ wifiReset
    <3>1. phase' \in WifiPhases => phase' = "wifiPortal"
      BY <2>1 DEF WifiPhases
    <3> QED BY <2>1, <2>3, <2>4, <3>1 DEF Mirrors
  <2>5. Settled(files, committed)
    BY <2>1, <2>4 DEF CfgInv, CfgStage, Repairing
  <2>6. BootOf(files) = files["cfg"] /\ files["cfg"] # Absent /\ files["cfg"].done
    BY <2>4, <2>5 DEF Settled, BootOf, SetUp
  <2>7. files["cfg"] \in CfgFiles
    BY <1>0, <2>6 DEF FilesOK
  <2>8. files["cfg"].wifi \in Wifis /\ files["cfg"].auth \in {"password", "key"}
    BY <2>6, <2>7 DEF CfgFiles
  <2>9. Loaded
    BY <2>6, <2>8, StoreAssumption DEF Loaded
  <2>10. wifiReset
    BY <2>1, <2>4, <2>9
  <2>11. /\ now'.dev = files["cfg"].dev /\ now'.auth = files["cfg"].auth
         /\ now'.done <=> (files["cfg"].auth # "key" \/ LoadKeys)
    BY <2>1, <2>6, <2>9 DEF LoadedConfig
  <2>12. ASSUME files["cfg"].auth = "key" PROVE LoadKeys
    <3>1. identity # {}
      BY <2>4, <2>6, <2>12 DEF SetUp
    <3>2. FlashKeeps
      BY <3>1 DEF IdentityInv
    <3> QED BY <2>1, <3>2 DEF FlashKeeps, KeyKept, Submits, LoadKeys
  <2> QED BY <2>6, <2>10, <2>11, <2>12 DEF SameTunnel
<1>8. CASE ConnectWiFi \/ OpenDevicePortal \/ StartTunnel
  <2>1. /\ handler = Idle /\ handler' = handler
        /\ phase' \in {"setup", "paused", "devicePortal", "running"}
    BY <1>8 DEF ConnectWiFi, OpenDevicePortal, StartTunnel, AtRest
  <2> QED BY <1>2, <1>n, <2>1 DEF WifiPhases
<1>9. CASE EnsureIdentity
  <2>1. /\ handler = Idle /\ ~now.done
        /\ UNCHANGED <<files, phase, wifiReset, cfgRisk, identity>>
        /\ \/ handler' = handler
           \/ handler'.name = "identity" /\ now' = now
    BY <1>9 DEF EnsureIdentity, AtRest, NeedsIdentity, Begin, history
  <2>2. handler'.name \in {"none", "identity"}
    BY <1>n, <2>1
  <2>3. Taken'
    BY <1>n, <2>1, <2>2 DEF Taken
  <2>4. ASSUME ~cfgRisk, phase \in WifiPhases PROVE ~SetUp(BootOf(files), identity)
    BY <1>i, <1>3, <2>1, <2>4 DEF SameTunnel
  <2>5. Mirrors'
    BY <2>1, <2>4 DEF Mirrors
  <2> QED BY <2>3, <2>5
<1>10. ASSUME NEW w \in Wifis, NEW vendorChanged \in BOOLEAN, WifiSave(w, vendorChanged)
       PROVE  Taken' /\ Mirrors'
  <2>1. /\ handler = Idle /\ phase \in WifiPhases
        /\ now' = [now EXCEPT !.wifi = w, !.done = PreserveDeviceConfig]
        /\ handler'.cfg = now'
        /\ handler'.name = IF PreserveDeviceConfig \/ vendorChanged
                           THEN "wifiRestart" ELSE "wifi"
        /\ UNCHANGED <<files, wifiReset, cfgRisk, identity>>
    BY <1>10 DEF WifiSave, AtRest, Save, Serve, Begin, WifiPhases
  <2>2. /\ now'.done <=> wifiReset /\ now.done
        /\ now'.dev = now.dev /\ now'.auth = now.auth
    BY <1>1, <2>1 DEF Configs, PreserveDeviceConfig
  <2>3. handler'.name \in {"wifi", "wifiRestart"} /\ (handler'.name = "wifi" => ~now'.done)
    BY <2>1, <2>2 DEF PreserveDeviceConfig
  <2>4. Taken'
    BY <2>1, <2>2, <2>3 DEF Taken
  <2>5. Mirrors'
    BY <1>i, <1>3, <2>1, <2>2 DEF Mirrors, SameTunnel
  <2> QED BY <2>4, <2>5
<1>11. ASSUME NEW d \in Devices, NEW s \in Submissions, DeviceSave(d, s)
       PROVE  Taken' /\ Mirrors'
  <2>1. phase' = "devicePortal" /\ handler'.name = "device"
    BY <1>11 DEF DeviceSave, AtRest, Save, Serve, Begin
  <2> QED BY <2>1 DEF Taken, Mirrors, WifiPhases
<1>12. ASSUME NEW d \in Devices, ManagedSave(d)
       PROVE  Taken' /\ Mirrors'
  <2> DEFINE c == [now EXCEPT !.done = TRUE, !.dev = d]
  <2>1. /\ handler = Idle
        /\ phase \in {"running", "paused", "wifiJoined", "transition", "devicePortal"}
        /\ handler'.name = "managed" /\ handler'.cfg = c /\ todo' = WriteConfig(c)
        /\ committed' = committed \cup {Stored(c)}
        /\ UNCHANGED <<files, wifiReset, cfgRisk, now, phase, identity>>
    BY <1>12 DEF ManagedSave, AtRest, Save, Serve, Begin
  <2>2. c \in Configs /\ c.wifi = now.wifi /\ c.dev = d
    BY <1>1 DEF Configs
  <2> HIDE DEF c
  <2>3. Storable(c)
    BY <1>0, <2>1, <2>2 DEF Storable, PhaseInv, Joined
  <2>4. ASSUME ~cfgRisk PROVE Writing(WriteConfig(c), files, c, committed')
    <3>1. Settled(files, committed)
      BY <1>i, <2>1, <2>4, CfgBoots
    <3>2. Settled(files, committed')
      BY <2>1, <3>1 DEF Settled
    <3> QED BY <2>3, <3>2, WriteConfigPlan DEF Writing
  <2>5. Taken'
    BY <2>1, <2>4 DEF Taken
  <2>6. Mirrors'
    BY <1>4, <1>i, <2>1
  <2> QED BY <2>5, <2>6
<1>13. CASE RequestEdit \/ RequestWifiReset
  <2>1. /\ handler = Idle /\ handler'.name = "request"
        /\ UNCHANGED <<files, wifiReset, cfgRisk, now, phase, identity>>
    BY <1>13 DEF RequestEdit, RequestWifiReset, AtRest, Serve, Begin
  <2>2. Mirrors'
    BY <1>4, <1>i, <2>1
  <2> QED BY <2>1, <2>2 DEF Taken
<1>14. CASE FactoryReset
  <2>1. handler'.name = "factory"
    BY <1>14 DEF FactoryReset, Serve, Begin
  <2> QED BY <2>1 DEF Taken, Mirrors
\* One operation.
<1>15. CASE FileOp
  <2>1. /\ todo # <<>> /\ files' = Done(files, Head(todo)) /\ todo' = Tail(todo)
        /\ UNCHANGED <<handler, failed, now, phase, wifiReset, cfgRisk, committed, identity>>
    BY <1>15 DEF FileOp, history, ram
  <2>2. ASSUME handler.name = "managed", ~failed, ~cfgRisk
        PROVE  /\ Writing(todo, files, handler.cfg, committed)
               /\ Storable(handler.cfg) /\ Stored(handler.cfg) \in committed
    BY <1>0, <2>2 DEF Taken, SavesWell, Writers, CfgInv
  <2>3. ASSUME handler.name = "managed", ~failed, ~cfgRisk
        PROVE  Writing(todo', files', handler.cfg, committed)
    BY <1>0, <2>1, <2>2, <2>3, WritingStep
  <2>4. Taken'
    BY <1>0, <2>1, <2>3 DEF Taken
  <2>5. SUFFICES ASSUME ~cfgRisk, phase \in WifiPhases, handler.name # "factory", ~Replaced',
                        SetUp(BootOf(files'), identity)
                 PROVE  SameTunnel(now, BootOf(files')) /\ wifiReset
    BY <2>1, <2>4, <2>5 DEF Mirrors
  <2>6. handler.name # "device"
    BY <1>0, <2>5 DEF Taken, WifiPhases
  <2>7. ~Replaced
    <3>1. ASSUME Replaced PROVE FALSE
      <4>1. todo = <<RmBak>> /\ handler.name = "managed" /\ ~failed
        BY <2>1, <3>1 DEF Replaced
      <4>2. todo' = <<>>
        BY <2>1, <4>1
      <4> QED BY <2>1, <2>5, <4>1, <4>2 DEF Replaced
    <3> QED BY <3>1
  <2>8. CASE BootOf(files') = BootOf(files)
    BY <1>0, <2>5, <2>7, <2>8 DEF Mirrors
  <2>9. CASE handler.name = "managed" /\ ~failed /\ BootOf(files') # BootOf(files)
    <3>1. todo' \in {<<RmBak>>, <<>>}
      BY <1>0, <2>1, <2>2, <2>5, <2>9, WritingMoves
    <3> QED BY <2>1, <2>5, <2>9, <3>1 DEF Replaced
  <2>10. CASE handler.name \in {"wifi", "wifiRestart"} /\ BootOf(files') = Stored(handler.cfg)
    <3>1. handler.cfg = now /\ (now.done => wifiReset)
      BY <1>0, <2>10 DEF Taken
    <3>2. Stored(now).done = now.done
      BY <1>1, FieldFacts DEF Stored
    <3>3. now.done => Stored(now).dev = now.dev /\ Stored(now).auth = now.auth
      BY DEF Stored
    <3> QED BY <2>5, <2>10, <3>1, <3>2, <3>3 DEF SetUp, SameTunnel
  <2> QED BY <2>1, <2>5, <2>6, <2>8, <2>9, <2>10, BootMoves DEF Writers
<1>16. CASE FileOpFails
  <2>1. /\ todo # <<>> /\ (identity' # {} => identity # {})
        /\ cfgRisk' = (cfgRisk \/ Head(todo).op = "restore")
        /\ todo' = (IF Head(todo).op \in {"put", "mv"} THEN Head(todo).undo ELSE Tail(todo))
        /\ failed' = (failed \/ Head(todo).op \in {"put", "mv"} \/ handler.name = "factory")
        /\ UNCHANGED <<files, handler, now, phase, wifiReset, committed>>
    BY <1>16 DEF FileOpFails, ram
  <2>2. ASSUME handler.name = "managed", ~failed', ~cfgRisk'
        PROVE  Writing(todo', files, handler.cfg, committed)
    <3>1. ~failed /\ ~cfgRisk /\ Head(todo).op \notin {"put", "mv"} /\ todo' = Tail(todo)
      BY <2>1, <2>2
    <3>2. Writing(todo, files, handler.cfg, committed)
      BY <1>0, <2>2, <3>1 DEF Taken
    <3>3. Storable(handler.cfg) /\ Stored(handler.cfg) \in committed
      BY <1>0, <2>2 DEF SavesWell, Writers, CfgInv
    <3> QED BY <1>0, <2>1, <3>1, <3>2, <3>3, WritingFails
  <2>3. Taken'
    BY <1>0, <2>1, <2>2 DEF Taken
  <2>4. SUFFICES ASSUME ~cfgRisk', phase \in WifiPhases, handler.name # "factory", ~Replaced',
                        SetUp(BootOf(files), identity')
                 PROVE  SameTunnel(now, BootOf(files)) /\ wifiReset
    BY <2>1, <2>3, <2>4 DEF Mirrors
  <2>5. ~Replaced
    <3>1. ASSUME Replaced PROVE FALSE
      <4>1. todo = <<RmBak>> /\ handler.name = "managed" /\ ~failed
        BY <2>1, <3>1 DEF Replaced
      <4>2. Head(todo) = RmBak /\ Tail(todo) = <<>>
        BY <4>1
      <4>3. Head(todo).op = "rm"
        BY <4>2 DEF RmBak, Rm
      <4>4. todo' = <<>> /\ ~failed'
        BY <2>1, <4>1, <4>2, <4>3
      <4> QED BY <2>1, <2>4, <4>1, <4>4 DEF Replaced
    <3> QED BY <3>1
  <2>6. ~cfgRisk /\ SetUp(BootOf(files), identity)
    BY <2>1, <2>4 DEF SetUp
  <2> QED BY <1>0, <2>4, <2>5, <2>6 DEF Mirrors
<1>17. CASE ShortWrite
  <2>1. cfgRisk' = TRUE /\ UNCHANGED <<handler, now, phase, wifiReset, failed>>
    BY <1>17 DEF ShortWrite, ram
  <2> QED BY <1>0, <2>1 DEF Taken, Mirrors
\* A handler ends.
<1>18. CASE SavedAndRestart \/ RequestStored \/ Wiped \/ PowerLoss
  <2>1. phase' = "off" /\ handler' = Idle
    BY <1>18 DEF SavedAndRestart, RequestStored, Wiped, PowerLoss, Reset
  <2> QED BY <1>2, <1>n, <2>1 DEF WifiPhases
<1>19. CASE SavedAndContinue
  <2> DEFINE c == handler.cfg
  <2>1. /\ handler.name = "wifi" /\ todo = <<>> /\ ~failed /\ handler' = Idle
        /\ cfgRisk' = (cfgRisk /\ files["cfg"] # Stored(c))
        /\ UNCHANGED <<files, now>>
    BY <1>19 DEF SavedAndContinue, Returns, Stores
  <2>2. c = now /\ ~now.done
    BY <1>0, <2>1 DEF Taken
  <2>3. Taken'
    BY <1>n, <2>1 DEF Taken
  <2>4. SUFFICES ASSUME ~cfgRisk' PROVE ~SetUp(BootOf(files), identity')
    BY <2>1, <2>3, <2>4 DEF Mirrors
  <2>5. Storable(c) /\ Stored(c) \in committed
    BY <1>0, <2>1 DEF SavesWell, Writers, CfgInv
  <2>6. files["cfg"] = Stored(c)
    <3>1. CASE cfgRisk
      BY <2>1, <2>4, <3>1
    <3>2. CASE ~cfgRisk
      <4>1. PICK k \in Seq(QuietOps), w \in Seq(Ops), e \in Seq(QuietOps) :
              todo = k \o (w \o e) /\ Writing(w, files, c, committed)
        BY <2>1, <3>2 DEF CfgInv, CfgStage, Writers
      <4>2. k \in Seq(Ops) /\ e \in Seq(Ops) /\ w \o e \in Seq(Ops)
        BY OpSets, SeqWidens, ConcatProperties
      <4>3. k = <<>>
        BY <2>1, <4>1, <4>2, CatStep
      <4>4. w \o e = <<>>
        BY <2>1, <4>1, <4>2, <4>3, CatStep
      <4>5. w = <<>>
        BY <4>2, <4>4, CatStep
      <4> QED BY <2>5, <4>1, <4>5, WritingBoots
    <3> QED BY <3>1, <3>2
  <2>7. BootOf(files) = Stored(c)
    BY <2>5, <2>6, StoredFacts DEF BootOf
  <2>8. ~Stored(c).done
    BY <2>2 DEF Stored
  <2> QED BY <2>7, <2>8 DEF SetUp
<1>20. CASE SaveFailed
  <2>1. /\ failed /\ handler' = Idle
        /\ handler.name \in {"wifi", "wifiRestart", "device", "managed", "identity", "request"}
        /\ UNCHANGED <<files, now, phase, wifiReset, cfgRisk, identity>>
    BY <1>20 DEF SaveFailed, Returns, ram, history
  <2>2. ~Replaced /\ handler.name # "factory"
    BY <2>1 DEF Replaced
  <2>3. Mirrors'
    BY <1>0, <2>1, <2>2 DEF Mirrors
  <2> QED BY <1>n, <2>1, <2>3 DEF Taken
<1>21. CASE IdentityReady
  <2>1. /\ handler.name = "identity" /\ handler' = Idle
        /\ UNCHANGED <<files, phase, wifiReset, cfgRisk, identity>>
    BY <1>21 DEF IdentityReady, Returns, history
  <2>2. ~now.done
    BY <1>0, <2>1 DEF Taken
  <2>3. Mirrors'
    BY <1>0, <2>1, <2>2 DEF Mirrors, Replaced, SameTunnel
  <2> QED BY <1>n, <2>1, <2>3 DEF Taken
<1>22. CASE UNCHANGED vars
  <2>1. UNCHANGED <<files, now, phase, handler, todo, failed, wifiReset, cfgRisk,
                    committed, identity>>
    BY <1>22 DEF vars, control, history, ram
  <2> QED BY <1>0, <2>1 DEF Taken, Mirrors, Replaced
<1> QED
  BY <1>5, <1>6, <1>7, <1>8, <1>9, <1>10, <1>11, <1>12, <1>13, <1>14, <1>15, <1>16,
     <1>17, <1>18, <1>19, <1>20, <1>21, <1>22 DEF Next

\* A complete set-up on flash keeps its tunnel part through every step but a save
\* of the tunnel part, a factory reset and a formatted file system: the WiFi portal
\* writes it back as the last boot read it.
THEOREM StoreSetupSurvives == Spec => SetupSurvives
<1> DEFINE Kept == /\ BootContent # Absent /\ BootContent.done
                   /\ BootContent.auth = "key" => identity # {}
                   /\ handler.name \notin {"device", "managed", "factory"}
                   => \/ /\ BootContent' # Absent /\ BootContent'.done
                         /\ BootContent'.dev = BootContent.dev
                         /\ BootContent'.auth = BootContent.auth
                      \/ cfgRisk' \/ committed' = {Absent}
<1>1. Spec => [](TypeInv /\ CfgInv /\ PairInv /\ IdentityInv /\ MirrorInv)
  BY InitTypes, InitCfg, InitPair, InitIdentity, InitMirror, TypeStep, CfgStep, PairStep,
     IdentityStep, MirrorStep, PTL DEF Spec
<1>2. TypeInv /\ CfgInv /\ MirrorInv /\ [Next]_vars => [Kept]_vars
  <2> SUFFICES ASSUME TypeInv, CfgInv, MirrorInv, Next,
                      SetUp(BootOf(files), identity),
                      handler.name \notin {"device", "managed", "factory"},
                      ~cfgRisk', committed' # {Absent}
               PROVE  /\ BootOf(files') # Absent /\ BootOf(files').done
                      /\ BootOf(files').dev = BootOf(files).dev
                      /\ BootOf(files').auth = BootOf(files).auth
    BY DEF SetUp, BootOf, BootContent
  <2>1. CASE FileOp
    <3>1. /\ todo # <<>> /\ files' = Done(files, Head(todo)) /\ ~cfgRisk
      BY <2>1 DEF FileOp, history
    <3>2. CASE BootOf(files') = BootOf(files)
      BY <3>2 DEF SetUp
    <3>3. CASE /\ handler.name \in {"wifi", "wifiRestart"}
               /\ BootOf(files') = Stored(handler.cfg)
      <4>1. phase \in WifiPhases /\ handler.cfg = now
        BY <3>3 DEF TypeInv, PhaseInv, WifiPhases, MirrorInv, Taken
      <4>2. SameTunnel(now, BootOf(files))
        BY <3>1, <3>3, <4>1 DEF MirrorInv, Mirrors, Replaced
      <4>3. Stored(now) = [done |-> TRUE, wifi |-> now.wifi, dev |-> now.dev,
                           auth |-> now.auth]
        BY <4>2 DEF SameTunnel, Stored
      <4>4. Storable(now)
        BY <3>3, <4>1 DEF TypeInv, SavesWell, Writers
      <4>5. Stored(now) # Absent
        BY <4>4, StoredFacts
      <4>6. BootOf(files') = Stored(now)
        BY <3>3, <4>1
      <4>7. /\ BootOf(files').done /\ BootOf(files').dev = now.dev
            /\ BootOf(files').auth = now.auth
        BY <4>3, <4>6
      <4> QED BY <4>2, <4>5, <4>6, <4>7 DEF SameTunnel
    <3> QED BY <3>1, <3>2, <3>3, BootMoves DEF Writers
  <2>2. CASE FormatStorage
    BY <2>2 DEF FormatStorage
  <2>3. CASE ShortWrite
    BY <2>3 DEF ShortWrite
  <2>4. CASE files' = files
    BY <2>4 DEF SetUp
  <2>5. ASSUME NEW w \in Wifis, NEW vendorChanged \in BOOLEAN, WifiSave(w, vendorChanged)
        PROVE  files' = files
    BY <2>5 DEF WifiSave, Save, Serve
  <2>6. ASSUME NEW d \in Devices, NEW s \in Submissions, DeviceSave(d, s)
        PROVE  files' = files
    BY <2>6 DEF DeviceSave, Save, Serve
  <2>7. ASSUME NEW d \in Devices, ManagedSave(d)
        PROVE  files' = files
    BY <2>7 DEF ManagedSave, Save, Serve
  <2>8. CASE \/ Boot \/ Load \/ ConnectWiFi \/ EnsureIdentity \/ StartTunnel
             \/ OpenDevicePortal \/ RequestEdit \/ RequestWifiReset \/ FactoryReset
    BY <2>4, <2>8 DEF Boot, Load, ConnectWiFi, EnsureIdentity, StartTunnel,
       OpenDevicePortal, RequestEdit, RequestWifiReset, FactoryReset, Serve
  <2>9. CASE \/ FileOpFails \/ SavedAndRestart \/ SavedAndContinue \/ SaveFailed
             \/ IdentityReady \/ RequestStored \/ Wiped \/ PowerLoss
    BY <2>4, <2>9 DEF FileOpFails, SavedAndRestart, SavedAndContinue, SaveFailed,
       IdentityReady, RequestStored, Wiped, PowerLoss
  <2> QED BY <2>1, <2>2, <2>3, <2>4, <2>5, <2>6, <2>7, <2>8, <2>9 DEF Next
<1>3. Spec => [][Next]_vars
  BY DEF Spec
<1>4. Spec => [][Kept]_vars
  BY <1>1, <1>2, <1>3, PTL
<1> QED BY <1>4 DEF SetupSurvives
=============================================================================
