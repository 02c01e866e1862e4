--------------------------- MODULE NetImageProofs ---------------------------
(***************************************************************************)
(* The image cache (ImageStore): unless calls on one image got in each     *)
(* other's way or its removal failed, an image with a record is complete,  *)
(* and so is every container made from it.                                 *)
(*                                                                         *)
(* The network device (VirtioNet).  First its rings: every descriptor has  *)
(* one owner, for every ring size and index width.  A window is the set of *)
(* entries between two free-running indices; the arithmetic of windows     *)
(* comes first, then what posting, publishing and taking back an entry     *)
(* does to one queue, then the steps of the two threads.                   *)
(*                                                                         *)
(* Then its interrupt: a completion is stranded only when the status bit   *)
(* of the net thread was undone by the acknowledgement of a spurious       *)
(* interrupt.                                                              *)
(***************************************************************************)
EXTENDS ImageStore, VirtioNet, FiniteSetTheorems, TLAPS

-----------------------------------------------------------------------------
(* The image cache.                                                        *)

\* The pc of each operation, and what its arguments are.
PcInv ==
    \A k \in Calls :
        LET c == call[k] IN
        /\ c.op = "idle" <=> c.pc = "idle"
        /\ c.op = "pull" <=> c.pc \in {"cached", "refresh", "mkdir", "extract", "fill", "failing"}
        /\ c.op = "remove" <=> c.pc \in {"delete", "unlink"}
        /\ c.op = "create" <=> c.pc \in {"list", "copy"}
        /\ c.op # "idle" => c.id \in Ids
        /\ c.op = "pull" => c.ref \in Refs

\* No two calls that get in each other's way work on an image that is not
\* spoiled.
SerialInv ==
    \A j, k \in Calls : j # k /\ call[j].id = call[k].id /\ call[j].id \notin spoiled =>
        /\ call[j].op = "pull" => call[k].op \notin {"pull", "remove"}
        /\ call[j].op = "create" => call[k].op # "remove"

\* What a pull has done so far, and that its image has no record meanwhile.
PullInv ==
    \A k \in Calls :
        LET c == call[k] IN
        c.id \notin spoiled =>
        /\ c.pc = "refresh" => rec[c.id] # NoRecord
        /\ c.pc \in {"mkdir", "extract", "fill"} => rec[c.id] = NoRecord
        /\ c.pc \in {"extract", "fill"} =>
               /\ c.id \in root
               /\ \A f \in Files \ c.todo : fs[c.id][f] = "full"
        /\ c.pc = "fill" => \A f \in c.got : fs[c.id][f] # "none"

\* What a copy has, of an image that stays recorded.
CopyInv ==
    \A k \in Calls :
        LET c == call[k] IN
        c.id \notin spoiled =>
        /\ c.pc \in {"list", "copy"} => rec[c.id] # NoRecord
        /\ c.pc = "copy" => Files \subseteq c.todo \cup c.got

\* A remove holds the lock, and has the record unlinked or still to unlink.
RemoveInv ==
    \A k \in Calls : call[k].pc = "unlink" =>
        locked = k /\ (None \in call[k].todo \/ rec[call[k].id] = NoRecord)

ImageInv ==
    /\ ImageTypeOK /\ PcInv /\ SerialInv /\ RecordedIsComplete
    /\ PullInv /\ CopyInv /\ RemoveInv

-----------------------------------------------------------------------------
\* A pull starts; one that overlaps another, or a removal, spoils the image.
LEMMA PullImageStep ==
    ASSUME ImageInv, NEW k \in Calls, NEW r \in Refs, PullImage(k, r)
    PROVE  ImageInv'
<1> USE DEF ImageInv, ImageTypeOK, PcInv, NoRecord,
            PullImage, Begin, Clash, Conflicts, Become, Idle
<1>1. ImageTypeOK'
  BY Zenon DEF CallType, Ops, Pcs
<1>2. PcInv' /\ SerialInv'
  BY DEF SerialInv, CallType
<1>3. RecordedIsComplete'
  <2>1. \A j \in Calls : call[j].pc = "unlink" =>
                              call'[j].pc = "unlink" /\ call'[j].id = call[j].id
    OBVIOUS
  <2>2. SUFFICES ASSUME NEW m \in Ids \ spoiled', rec'[m] # NoRecord,
                        \A j \in Calls : ~(call'[j].pc = "unlink" /\ call'[j].id = m)
                 PROVE  m \in root' /\ \A g \in Files : fs'[m][g] = "full"
    BY DEF RecordedIsComplete, At
  <2> QED BY <2>1, <2>2 DEF RecordedIsComplete, SerialInv, PullInv, At
<1>4. PullInv'
  BY DEF PullInv, SerialInv
<1>5. CopyInv'
  BY DEF CopyInv, SerialInv
<1>6. RemoveInv'
  BY DEF RemoveInv, SerialInv
<1> QED BY <1>1, <1>2, <1>3, <1>4, <1>5, <1>6

\* GetImage finds a record: the merged tag list contains the recorded one.
LEMMA PullCachedStep ==
    ASSUME ImageInv, NEW k \in Calls, PullCached(k)
    PROVE  ImageInv'
<1> USE DEF ImageInv, ImageTypeOK, PcInv, NoRecord, PullCached, GetImage, At, Become
<1>1. ImageTypeOK'
  <2> DEFINE c == [call[k] EXCEPT !.tags = rec[call[k].id] \cup {call[k].ref},
                  !.pc = "refresh"]
  <2>1. call' = [call EXCEPT ![k] = c]
    OBVIOUS
  <2>2. call[k] \in CallType
    OBVIOUS
  <2>3. c \in CallType
    BY <2>2, ZenonT(60) DEF CallType, Ops, Pcs
  <2> HIDE DEF c
  <2> QED BY <2>1, <2>3
<1>2. PcInv' /\ SerialInv'
  BY DEF SerialInv, CallType
<1>3. RecordedIsComplete'
  <2>1. \A j \in Calls : call[j].pc = "unlink" =>
                              call'[j].pc = "unlink" /\ call'[j].id = call[j].id
    OBVIOUS
  <2>2. SUFFICES ASSUME NEW m \in Ids \ spoiled', rec'[m] # NoRecord,
                        \A j \in Calls : ~(call'[j].pc = "unlink" /\ call'[j].id = m)
                 PROVE  m \in root' /\ \A g \in Files : fs'[m][g] = "full"
    BY DEF RecordedIsComplete, At
  <2> QED BY <2>1, <2>2 DEF RecordedIsComplete, SerialInv, PullInv, At
<1>4. PullInv'
  BY DEF PullInv, SerialInv
<1>5. CopyInv'
  BY DEF CopyInv, SerialInv
<1>6. RemoveInv'
  BY DEF RemoveInv, SerialInv
<1> QED BY <1>1, <1>2, <1>3, <1>4, <1>5, <1>6

\* GetImage finds no record: the pull goes on to extract.
LEMMA PullUncachedStep ==
    ASSUME ImageInv, NEW k \in Calls, NEW T \in SUBSET Refs, PullUncached(k, T)
    PROVE  ImageInv'
<1> USE DEF ImageInv, ImageTypeOK, PcInv, NoRecord, PullUncached, GetImage, At, Become
<1>1. ImageTypeOK'
  <2> DEFINE c == [call[k] EXCEPT !.tags = T \cup {call[k].ref}, !.pc = "mkdir"]
  <2>1. call' = [call EXCEPT ![k] = c]
    OBVIOUS
  <2>2. call[k] \in CallType
    OBVIOUS
  <2>3. c \in CallType
    BY <2>2, ZenonT(60) DEF CallType, Ops, Pcs
  <2> HIDE DEF c
  <2> QED BY <2>1, <2>3
<1>2. PcInv' /\ SerialInv'
  BY DEF SerialInv, CallType
<1>3. RecordedIsComplete'
  <2>1. \A j \in Calls : call[j].pc = "unlink" =>
                              call'[j].pc = "unlink" /\ call'[j].id = call[j].id
    OBVIOUS
  <2>2. SUFFICES ASSUME NEW m \in Ids \ spoiled', rec'[m] # NoRecord,
                        \A j \in Calls : ~(call'[j].pc = "unlink" /\ call'[j].id = m)
                 PROVE  m \in root' /\ \A g \in Files : fs'[m][g] = "full"
    BY DEF RecordedIsComplete, At
  <2> QED BY <2>1, <2>2 DEF RecordedIsComplete, SerialInv, PullInv, At
<1>4. PullInv'
  BY DEF PullInv, SerialInv
<1>5. CopyInv'
  BY DEF CopyInv, SerialInv
<1>6. RemoveInv'
  BY DEF RemoveInv, SerialInv
<1> QED BY <1>1, <1>2, <1>3, <1>4, <1>5, <1>6

\* CreateImage over an existing record: the files are untouched.
LEMMA PullRefreshStep ==
    ASSUME ImageInv, NEW k \in Calls, PullRefresh(k)
    PROVE  ImageInv'
<1> USE DEF ImageInv, ImageTypeOK, PcInv, NoRecord,
            PullRefresh, CreateImage, At, Become, Return, Idle
<1>1. ImageTypeOK'
  BY DEF CallType, Ops, Pcs
<1>2. PcInv' /\ SerialInv'
  BY DEF SerialInv, CallType
<1>3. RecordedIsComplete'
  <2>1. \A j \in Calls : call[j].pc = "unlink" =>
                              call'[j].pc = "unlink" /\ call'[j].id = call[j].id
    OBVIOUS
  <2>2. SUFFICES ASSUME NEW m \in Ids \ spoiled', rec'[m] # NoRecord,
                        \A j \in Calls : ~(call'[j].pc = "unlink" /\ call'[j].id = m)
                 PROVE  m \in root' /\ \A g \in Files : fs'[m][g] = "full"
    BY DEF RecordedIsComplete, At
  <2> QED BY <2>1, <2>2 DEF RecordedIsComplete, SerialInv, PullInv, At
<1>4. PullInv'
  BY DEF PullInv, SerialInv
<1>5. CopyInv'
  <2>1. call[k].tags # NoRecord
    BY ImageAssumption DEF CallType
  <2> QED BY <2>1 DEF CopyInv
<1>6. RemoveInv'
  <2>1. \A j \in Calls : call[j].pc # "unlink"
    BY ImageAssumption DEF RemoveInv
  <2>2. \A j \in Calls : call'[j].pc # "unlink"
    BY <2>1
  <2> QED BY <2>2 DEF RemoveInv
<1> QED BY <1>1, <1>2, <1>3, <1>4, <1>5, <1>6

\* MkdirAll of the rootfs of an image that has no record.
LEMMA PullMkdirStep ==
    ASSUME ImageInv, NEW k \in Calls, PullMkdir(k)
    PROVE  ImageInv'
<1> USE DEF ImageInv, ImageTypeOK, PcInv, NoRecord, PullMkdir, At, Become
<1>1. ImageTypeOK'
  <2> DEFINE c == [call[k] EXCEPT !.pc = "extract", !.todo = Files]
  <2>1. call' = [call EXCEPT ![k] = c]
    OBVIOUS
  <2>2. call[k] \in CallType
    OBVIOUS
  <2>3. c \in CallType
    BY <2>2, Zenon DEF CallType, Ops, Pcs
  <2> HIDE DEF c
  <2> QED BY <2>1, <2>3
<1>2. PcInv' /\ SerialInv'
  BY DEF SerialInv, CallType
<1>3. RecordedIsComplete'
  <2>1. \A j \in Calls : call[j].pc = "unlink" =>
                              call'[j].pc = "unlink" /\ call'[j].id = call[j].id
    OBVIOUS
  <2>2. SUFFICES ASSUME NEW m \in Ids \ spoiled', rec'[m] # NoRecord,
                        \A j \in Calls : ~(call'[j].pc = "unlink" /\ call'[j].id = m)
                 PROVE  m \in root' /\ \A g \in Files : fs'[m][g] = "full"
    BY DEF RecordedIsComplete, At
  <2> QED BY <2>1, <2>2 DEF RecordedIsComplete, SerialInv, PullInv, At
<1>4. PullInv'
  BY DEF PullInv, SerialInv
<1>5. CopyInv'
  BY DEF CopyInv, SerialInv
<1>6. RemoveInv'
  BY DEF RemoveInv, SerialInv
<1> QED BY <1>1, <1>2, <1>3, <1>4, <1>5, <1>6

\* tar truncates a file, of an image that has no record.
LEMMA PullOpenStep ==
    ASSUME ImageInv, NEW k \in Calls, NEW f \in Files, PullOpen(k, f)
    PROVE  ImageInv'
<1> USE DEF ImageInv, ImageTypeOK, PcInv, NoRecord, PullOpen, At, Become
<1>1. ImageTypeOK'
  <2> DEFINE c == [call[k] EXCEPT !.pc = "fill",
                  !.got = {f}]
  <2>1. call' = [call EXCEPT ![k] = c]
    OBVIOUS
  <2>2. call[k] \in CallType
    OBVIOUS
  <2>3. c \in CallType
    BY <2>2, Zenon DEF CallType, Ops, Pcs
  <2>4. fs' \in [Ids -> [Files -> {"none", "part", "full"}]]
    OBVIOUS
  <2> HIDE DEF c
  <2>5. call' \in [Calls -> CallType]
    BY <2>1, <2>3
  <2> QED BY <2>4, <2>5, Zenon
<1>2. PcInv' /\ SerialInv'
  BY DEF SerialInv, CallType
<1>3. RecordedIsComplete'
  <2>1. \A j \in Calls : call[j].pc = "unlink" =>
                              call'[j].pc = "unlink" /\ call'[j].id = call[j].id
    OBVIOUS
  <2>2. SUFFICES ASSUME NEW m \in Ids \ spoiled', rec'[m] # NoRecord,
                        \A j \in Calls : ~(call'[j].pc = "unlink" /\ call'[j].id = m)
                 PROVE  m \in root' /\ \A g \in Files : fs'[m][g] = "full"
    BY DEF RecordedIsComplete, At
  <2> QED BY <2>1, <2>2 DEF RecordedIsComplete, SerialInv, PullInv, At
<1>4. PullInv'
  BY DEF PullInv, SerialInv
<1>5. CopyInv'
  BY DEF CopyInv, SerialInv
<1>6. RemoveInv'
  BY DEF RemoveInv, SerialInv
<1> QED BY <1>1, <1>2, <1>3, <1>4, <1>5, <1>6

\* tar completes the file it has open.
LEMMA PullFillStep ==
    ASSUME ImageInv, NEW k \in Calls, PullFill(k)
    PROVE  ImageInv'
<1> USE DEF ImageInv, ImageTypeOK, PcInv, NoRecord, PullFill, At, Become
<1>1. ImageTypeOK'
  <2> DEFINE c == [call[k] EXCEPT !.pc = "extract", !.todo = call[k].todo \ call[k].got,
                  !.got = {}]
  <2>1. call' = [call EXCEPT ![k] = c]
    OBVIOUS
  <2>2. call[k] \in CallType
    OBVIOUS
  <2>3. c \in CallType
    BY <2>2, Zenon DEF CallType, Ops, Pcs
  <2> HIDE DEF c
  <2> QED BY <2>1, <2>3, ZenonT(60)
<1>2. PcInv' /\ SerialInv'
  BY DEF SerialInv, CallType
<1>3. RecordedIsComplete'
  <2>1. \A j \in Calls : call[j].pc = "unlink" =>
                              call'[j].pc = "unlink" /\ call'[j].id = call[j].id
    OBVIOUS
  <2>2. SUFFICES ASSUME NEW m \in Ids \ spoiled', rec'[m] # NoRecord,
                        \A j \in Calls : ~(call'[j].pc = "unlink" /\ call'[j].id = m)
                 PROVE  m \in root' /\ \A g \in Files : fs'[m][g] = "full"
    BY DEF RecordedIsComplete, At
  <2> QED BY <2>1, <2>2 DEF RecordedIsComplete, SerialInv, PullInv, At
<1>4. PullInv'
  BY DEF PullInv, SerialInv
<1>5. CopyInv'
  BY DEF CopyInv, SerialInv
<1>6. RemoveInv'
  BY DEF RemoveInv, SerialInv
<1> QED BY <1>1, <1>2, <1>3, <1>4, <1>5, <1>6

\* A pull that fails leaves no record.
LEMMA PullFailsStep ==
    ASSUME ImageInv, NEW k \in Calls, PullFails(k)
    PROVE  ImageInv'
<1> USE DEF ImageInv, ImageTypeOK, PcInv, NoRecord, PullFails, Become, Return, Idle
<1>1. ImageTypeOK'
  BY Zenon DEF CallType, Ops, Pcs
<1>2. PcInv' /\ SerialInv'
  BY DEF SerialInv, CallType
<1>3. RecordedIsComplete'
  <2>1. \A j \in Calls : call[j].pc = "unlink" =>
                              call'[j].pc = "unlink" /\ call'[j].id = call[j].id
    OBVIOUS
  <2>2. SUFFICES ASSUME NEW m \in Ids \ spoiled', rec'[m] # NoRecord,
                        \A j \in Calls : ~(call'[j].pc = "unlink" /\ call'[j].id = m)
                 PROVE  m \in root' /\ \A g \in Files : fs'[m][g] = "full"
    BY DEF RecordedIsComplete, At
  <2> QED BY <2>1, <2>2 DEF RecordedIsComplete, SerialInv, PullInv, At
<1>4. PullInv'
  BY DEF PullInv, SerialInv
<1>5. CopyInv'
  BY DEF CopyInv, SerialInv
<1>6. RemoveInv'
  BY DEF RemoveInv, SerialInv
<1> QED BY <1>1, <1>2, <1>3, <1>4, <1>5, <1>6

\* CreateImage after tar: no file is left to extract.
LEMMA PullPersistStep ==
    ASSUME ImageInv, NEW k \in Calls, PullPersist(k)
    PROVE  ImageInv'
<1> USE DEF ImageInv, ImageTypeOK, PcInv, NoRecord,
            PullPersist, CreateImage, At, Become, Return, Idle
<1>1. ImageTypeOK'
  BY DEF CallType, Ops, Pcs
<1>2. PcInv' /\ SerialInv'
  BY DEF SerialInv, CallType
<1>3. RecordedIsComplete'
  <2>1. \A j \in Calls : call[j].pc = "unlink" =>
                              call'[j].pc = "unlink" /\ call'[j].id = call[j].id
    OBVIOUS
  <2>2. SUFFICES ASSUME NEW m \in Ids \ spoiled', rec'[m] # NoRecord,
                        \A j \in Calls : ~(call'[j].pc = "unlink" /\ call'[j].id = m)
                 PROVE  m \in root' /\ \A g \in Files : fs'[m][g] = "full"
    BY DEF RecordedIsComplete, At
  <2> QED BY <2>1, <2>2 DEF RecordedIsComplete, SerialInv, PullInv, At
<1>4. PullInv'
  BY DEF PullInv, SerialInv
<1>5. CopyInv'
  <2>1. call[k].tags # NoRecord
    BY ImageAssumption DEF CallType
  <2> QED BY <2>1 DEF CopyInv
<1>6. RemoveInv'
  <2>1. \A j \in Calls : call[j].pc # "unlink"
    BY ImageAssumption DEF RemoveInv
  <2>2. \A j \in Calls : call'[j].pc # "unlink"
    BY <2>1
  <2> QED BY <2>2 DEF RemoveInv
<1> QED BY <1>1, <1>2, <1>3, <1>4, <1>5, <1>6

\* A remove starts; one that overlaps a pull or a copy spoils the image.
LEMMA RemoveImageStep ==
    ASSUME ImageInv, NEW k \in Calls, NEW x \in Refs \cup Ids, RemoveImage(k, x)
    PROVE  ImageInv'
<1> USE DEF ImageInv, ImageTypeOK, PcInv, NoRecord,
           RemoveImage, Begin, Clash, Conflicts, GetImageByRef, Matches, Become, Idle
<1>1. ImageTypeOK'
  <2> DEFINE c(i) == [Idle EXCEPT !.op = "remove", !.pc = "delete", !.ref = None, !.id = i]
  <2>1. PICK i \in Ids : call' = [call EXCEPT ![k] = c(i)]
    BY Zenon
  <2>3. c(i) \in CallType
    BY Zenon DEF CallType, Ops, Pcs
  <2> HIDE DEF c
  <2> QED BY <2>1, <2>3
<1>2. PcInv' /\ SerialInv'
  BY DEF SerialInv, CallType
<1>3. RecordedIsComplete'
  <2>1. \A j \in Calls : call[j].pc = "unlink" =>
                              call'[j].pc = "unlink" /\ call'[j].id = call[j].id
    OBVIOUS
  <2>2. SUFFICES ASSUME NEW m \in Ids \ spoiled', rec'[m] # NoRecord,
                        \A j \in Calls : ~(call'[j].pc = "unlink" /\ call'[j].id = m)
                 PROVE  m \in root' /\ \A g \in Files : fs'[m][g] = "full"
    BY DEF RecordedIsComplete, At
  <2> QED BY <2>1, <2>2 DEF RecordedIsComplete, SerialInv, PullInv, At
<1>4. PullInv'
  BY DEF PullInv, SerialInv
<1>5. CopyInv'
  BY DEF CopyInv, SerialInv
<1>6. RemoveInv'
  BY DEF RemoveInv, SerialInv
<1> QED BY <1>1, <1>2, <1>3, <1>4, <1>5, <1>6

\* DeleteImage takes the lock; the record is among what it unlinks.
LEMMA DeleteImageStep ==
    ASSUME ImageInv, NEW k \in Calls, DeleteImage(k)
    PROVE  ImageInv'
<1> USE DEF ImageInv, ImageTypeOK, PcInv, NoRecord, DeleteImage, At, Become
<1>1. ImageTypeOK'
  <2> DEFINE c == [call[k] EXCEPT !.pc = "unlink",
                  !.todo = {f \in Files : fs[call[k].id][f] # "none"} \cup {None}]
  <2>1. call' = [call EXCEPT ![k] = c]
    OBVIOUS
  <2>2. call[k] \in CallType
    OBVIOUS
  <2>3. c \in CallType
    BY <2>2, Zenon DEF CallType, Ops, Pcs
  <2> HIDE DEF c
  <2> QED BY <2>1, <2>3
<1>2. PcInv' /\ SerialInv'
  BY DEF SerialInv, CallType
<1>3. RecordedIsComplete'
  <2>1. \A j \in Calls : call[j].pc = "unlink" =>
                              call'[j].pc = "unlink" /\ call'[j].id = call[j].id
    OBVIOUS
  <2>2. SUFFICES ASSUME NEW m \in Ids \ spoiled', rec'[m] # NoRecord,
                        \A j \in Calls : ~(call'[j].pc = "unlink" /\ call'[j].id = m)
                 PROVE  m \in root' /\ \A g \in Files : fs'[m][g] = "full"
    BY DEF RecordedIsComplete, At
  <2> QED BY <2>1, <2>2 DEF RecordedIsComplete, SerialInv, PullInv, At
<1>4. PullInv'
  BY DEF PullInv, SerialInv
<1>5. CopyInv'
  BY DEF CopyInv, SerialInv
<1>6. RemoveInv'
  BY ImageAssumption DEF RemoveInv, SerialInv
<1> QED BY <1>1, <1>2, <1>3, <1>4, <1>5, <1>6

\* RemoveAll unlinks an entry of the image being removed.
LEMMA UnlinkStep ==
    ASSUME ImageInv, NEW k \in Calls, NEW e \in Files \cup {None}, Unlink(k, e)
    PROVE  ImageInv'
<1> USE DEF ImageInv, ImageTypeOK, PcInv, NoRecord, Unlink, At, Become
<1>1. ImageTypeOK'
  <2> DEFINE c == [call[k] EXCEPT !.todo = @ \ {e}]
  <2>1. call' = [call EXCEPT ![k] = c]
    OBVIOUS
  <2>2. call[k] \in CallType
    OBVIOUS
  <2>3. c \in CallType
    BY <2>2, Zenon DEF CallType, Ops, Pcs
  <2>4. rec' \in [Ids -> (SUBSET Refs) \cup {NoRecord}]
    BY SMTT(60), Z3T(60)
  <2>5. fs' \in [Ids -> [Files -> {"none", "part", "full"}]]
    <3>1. CASE e = None BY <3>1
    <3>2. CASE e # None BY <3>2
    <3> QED BY <3>1, <3>2
  <2> HIDE DEF c
  <2> QED BY <2>1, <2>3, <2>4, <2>5, ZenonT(60)
<1>2. PcInv' /\ SerialInv'
  BY DEF SerialInv, CallType
<1>3. RecordedIsComplete'
  <2>1. \A j \in Calls : call[j].pc = "unlink" =>
                              call'[j].pc = "unlink" /\ call'[j].id = call[j].id
    OBVIOUS
  <2>2. SUFFICES ASSUME NEW m \in Ids \ spoiled', rec'[m] # NoRecord,
                        \A j \in Calls : ~(call'[j].pc = "unlink" /\ call'[j].id = m)
                 PROVE  m \in root' /\ \A g \in Files : fs'[m][g] = "full"
    BY DEF RecordedIsComplete, At
  <2> QED BY <2>1, <2>2 DEF RecordedIsComplete, SerialInv, PullInv, At
<1>4. PullInv'
  BY DEF PullInv, SerialInv
<1>5. CopyInv'
  BY DEF CopyInv, SerialInv
<1>6. RemoveInv'
  BY DEF RemoveInv, SerialInv
<1> QED BY <1>1, <1>2, <1>3, <1>4, <1>5, <1>6, Zenon

\* RemoveAll ends: the record is gone before the lock is.
LEMMA RmdirStep ==
    ASSUME ImageInv, NEW k \in Calls, Rmdir(k)
    PROVE  ImageInv'
<1> USE DEF ImageInv, ImageTypeOK, PcInv, NoRecord, Rmdir, At, Idle
<1>1. ImageTypeOK'
  <2>1. Idle \in CallType
    BY DEF CallType, Ops, Pcs
  <2>2. ASSUME NEW j \in Calls PROVE [call[j] EXCEPT !.pc = "failing"] \in CallType
    <3>1. call[j] \in CallType OBVIOUS
    <3> QED BY <3>1, Zenon DEF CallType, Pcs
  <2> HIDE DEF Idle
  <2> QED BY <2>1, <2>2
<1>2. PcInv' /\ SerialInv'
  BY DEF SerialInv, CallType
<1>3. RecordedIsComplete'
  <2>1. \A j \in Calls : j # k => call[j].pc # "unlink"
    BY DEF RemoveInv
  <2>2. rec[call[k].id] = NoRecord
    BY DEF RemoveInv
  <2> QED BY <2>1, <2>2 DEF RecordedIsComplete
<1>4. PullInv'
  BY DEF PullInv, SerialInv
<1>5. CopyInv'
  BY DEF CopyInv, SerialInv
<1>6. RemoveInv'
  BY DEF RemoveInv, SerialInv
<1> QED BY <1>1, <1>2, <1>3, <1>4, <1>5, <1>6, Zenon

\* RemoveAll fails: an image that still has its record is spoiled.
LEMMA DeleteFailsStep ==
    ASSUME ImageInv, NEW k \in Calls, DeleteFails(k)
    PROVE  ImageInv'
<1> USE DEF ImageInv, ImageTypeOK, PcInv, NoRecord, DeleteFails, At, Become, Return, Idle
<1>1. ImageTypeOK'
  BY DEF CallType, Ops, Pcs
<1>2. PcInv' /\ SerialInv'
  BY DEF SerialInv, CallType
<1>3. RecordedIsComplete'
  <2>1. \A j \in Calls : j # k => call[j].pc # "unlink"
    BY DEF RemoveInv
  <2>2. call[k].id \in spoiled' \/ rec[call[k].id] = NoRecord
    BY DEF RemoveInv
  <2> QED BY <2>1, <2>2 DEF RecordedIsComplete
<1>4. PullInv'
  BY DEF PullInv, SerialInv
<1>5. CopyInv'
  BY DEF CopyInv, SerialInv
<1>6. RemoveInv'
  BY DEF RemoveInv, SerialInv
<1> QED BY <1>1, <1>2, <1>3, <1>4, <1>5, <1>6

\* CreateContainer starts with an image that has a record.
LEMMA CreateContainerStep ==
    ASSUME ImageInv, NEW k \in Calls, NEW x \in Refs \cup Ids, CreateContainer(k, x)
    PROVE  ImageInv'
<1> USE DEF ImageInv, ImageTypeOK, PcInv, NoRecord,
           CreateContainer, Begin, Clash, Conflicts, GetImageByRef, Matches, Become, Idle
<1>1. ImageTypeOK'
  <2> DEFINE c(i) == [Idle EXCEPT !.op = "create", !.pc = "list", !.ref = None, !.id = i]
  <2>1. PICK i \in Ids : call' = [call EXCEPT ![k] = c(i)]
    BY Zenon
  <2>3. c(i) \in CallType
    BY Zenon DEF CallType, Ops, Pcs
  <2> HIDE DEF c
  <2> QED BY <2>1, <2>3, Zenon
<1>2. PcInv' /\ SerialInv'
  BY DEF SerialInv, CallType
<1>3. RecordedIsComplete'
  <2>1. \A j \in Calls : call[j].pc = "unlink" =>
                              call'[j].pc = "unlink" /\ call'[j].id = call[j].id
    OBVIOUS
  <2>2. SUFFICES ASSUME NEW m \in Ids \ spoiled', rec'[m] # NoRecord,
                        \A j \in Calls : ~(call'[j].pc = "unlink" /\ call'[j].id = m)
                 PROVE  m \in root' /\ \A g \in Files : fs'[m][g] = "full"
    BY DEF RecordedIsComplete, At
  <2> QED BY <2>1, <2>2 DEF RecordedIsComplete, SerialInv, PullInv, At
<1>4. PullInv'
  BY DEF PullInv, SerialInv
<1>5. CopyInv'
  BY DEF CopyInv, SerialInv
<1>6. RemoveInv'
  BY DEF RemoveInv, SerialInv
<1> QED BY <1>1, <1>2, <1>3, <1>4, <1>5, <1>6

\* copyDir lists a complete root file system.
LEMMA CopyListStep ==
    ASSUME ImageInv, NEW k \in Calls, CopyList(k)
    PROVE  ImageInv'
<1> USE DEF ImageInv, ImageTypeOK, PcInv, NoRecord, CopyList, At, Become
<1>1. ImageTypeOK'
  <2> DEFINE c == [call[k] EXCEPT !.pc = "copy",
                  !.todo = {f \in Files : fs[call[k].id][f] # "none"}]
  <2>1. call' = [call EXCEPT ![k] = c]
    OBVIOUS
  <2>2. call[k] \in CallType
    OBVIOUS
  <2>3. c \in CallType
    BY <2>2, Zenon DEF CallType, Ops, Pcs
  <2> HIDE DEF c
  <2> QED BY <2>1, <2>3
<1>2. PcInv' /\ SerialInv'
  BY DEF SerialInv, CallType
<1>3. RecordedIsComplete'
  <2>1. \A j \in Calls : call[j].pc = "unlink" =>
                              call'[j].pc = "unlink" /\ call'[j].id = call[j].id
    OBVIOUS
  <2>2. SUFFICES ASSUME NEW m \in Ids \ spoiled', rec'[m] # NoRecord,
                        \A j \in Calls : ~(call'[j].pc = "unlink" /\ call'[j].id = m)
                 PROVE  m \in root' /\ \A g \in Files : fs'[m][g] = "full"
    BY DEF RecordedIsComplete, At
  <2> QED BY <2>1, <2>2 DEF RecordedIsComplete, SerialInv, PullInv, At
<1>4. PullInv'
  BY DEF PullInv, SerialInv
<1>5. CopyInv'
  BY SMTT(60), Z3T(60) DEF CopyInv, SerialInv, RecordedIsComplete, At
<1>6. RemoveInv'
  BY DEF RemoveInv, SerialInv
<1> QED BY <1>1, <1>2, <1>3, <1>4, <1>5, <1>6

\* copyFile copies a complete file.
LEMMA CopyFileStep ==
    ASSUME ImageInv, NEW k \in Calls, NEW f \in Files, CopyFile(k, f)
    PROVE  ImageInv'
<1> USE DEF ImageInv, ImageTypeOK, PcInv, NoRecord, CopyFile, At, Become
<1>1. ImageTypeOK'
  <2> DEFINE c == [call[k] EXCEPT !.todo = @ \ {f},
                  !.got = IF fs[call[k].id][f] = "full" THEN @ \cup {f} ELSE @]
  <2>1. call' = [call EXCEPT ![k] = c]
    OBVIOUS
  <2>2. call[k] \in CallType
    OBVIOUS
  <2>3. c \in CallType
    BY <2>2, Zenon DEF CallType, Ops, Pcs
  <2> HIDE DEF c
  <2> QED BY <2>1, <2>3
<1>2. PcInv' /\ SerialInv'
  BY DEF SerialInv, CallType
<1>3. RecordedIsComplete'
  <2>1. \A j \in Calls : call[j].pc = "unlink" =>
                              call'[j].pc = "unlink" /\ call'[j].id = call[j].id
    OBVIOUS
  <2>2. SUFFICES ASSUME NEW m \in Ids \ spoiled', rec'[m] # NoRecord,
                        \A j \in Calls : ~(call'[j].pc = "unlink" /\ call'[j].id = m)
                 PROVE  m \in root' /\ \A g \in Files : fs'[m][g] = "full"
    BY DEF RecordedIsComplete, At
  <2> QED BY <2>1, <2>2 DEF RecordedIsComplete, SerialInv, PullInv, At
<1>4. PullInv'
  BY DEF PullInv, SerialInv
<1>5. CopyInv'
  <2>1. call[k].id \notin spoiled => fs[call[k].id][f] = "full"
    BY DEF CopyInv, SerialInv, RecordedIsComplete
  <2> QED BY <2>1 DEF CopyInv
<1>6. RemoveInv'
  BY DEF RemoveInv, SerialInv
<1> QED BY <1>1, <1>2, <1>3, <1>4, <1>5, <1>6

\* A copy that fails leaves the image as it is.
LEMMA CopyFailsStep ==
    ASSUME ImageInv, NEW k \in Calls, CopyFails(k)
    PROVE  ImageInv'
<1> USE DEF ImageInv, ImageTypeOK, PcInv, NoRecord, CopyFails, Become, Return, Idle
<1>1. ImageTypeOK'
  BY DEF CallType, Ops, Pcs
<1>2. PcInv' /\ SerialInv'
  BY DEF SerialInv, CallType
<1>3. RecordedIsComplete'
  <2>1. \A j \in Calls : call[j].pc = "unlink" =>
                              call'[j].pc = "unlink" /\ call'[j].id = call[j].id
    OBVIOUS
  <2>2. SUFFICES ASSUME NEW m \in Ids \ spoiled', rec'[m] # NoRecord,
                        \A j \in Calls : ~(call'[j].pc = "unlink" /\ call'[j].id = m)
                 PROVE  m \in root' /\ \A g \in Files : fs'[m][g] = "full"
    BY DEF RecordedIsComplete, At
  <2> QED BY <2>1, <2>2 DEF RecordedIsComplete, SerialInv, PullInv, At
<1>4. PullInv'
  BY DEF PullInv, SerialInv
<1>5. CopyInv'
  BY DEF CopyInv, SerialInv
<1>6. RemoveInv'
  BY DEF RemoveInv, SerialInv
<1> QED BY <1>1, <1>2, <1>3, <1>4, <1>5, <1>6

\* A copy that ends leaves the image as it is.
LEMMA CopyDoneStep ==
    ASSUME ImageInv, NEW k \in Calls, CopyDone(k)
    PROVE  ImageInv'
<1> USE DEF ImageInv, ImageTypeOK, PcInv, NoRecord, CopyDone, At, Become, Return, Idle
<1>1. ImageTypeOK'
  BY DEF CallType, Ops, Pcs
<1>2. PcInv' /\ SerialInv'
  BY DEF SerialInv, CallType
<1>3. RecordedIsComplete'
  <2>1. \A j \in Calls : call[j].pc = "unlink" =>
                              call'[j].pc = "unlink" /\ call'[j].id = call[j].id
    OBVIOUS
  <2>2. SUFFICES ASSUME NEW m \in Ids \ spoiled', rec'[m] # NoRecord,
                        \A j \in Calls : ~(call'[j].pc = "unlink" /\ call'[j].id = m)
                 PROVE  m \in root' /\ \A g \in Files : fs'[m][g] = "full"
    BY DEF RecordedIsComplete, At
  <2> QED BY <2>1, <2>2 DEF RecordedIsComplete, SerialInv, PullInv, At
<1>4. PullInv'
  BY DEF PullInv, SerialInv
<1>5. CopyInv'
  BY DEF CopyInv, SerialInv
<1>6. RemoveInv'
  BY DEF RemoveInv, SerialInv
<1> QED BY <1>1, <1>2, <1>3, <1>4, <1>5, <1>6

\* A tag that moves in the registry changes nothing here.
LEMMA RetagStep ==
    ASSUME ImageInv, NEW r \in Refs, NEW i \in Ids, Retag(r, i)
    PROVE  ImageInv'
<1> USE DEF ImageInv, ImageTypeOK, PcInv, NoRecord, Retag
<1>1. ImageTypeOK'
  BY SMTT(60), Z3T(60) DEF CallType, Ops, Pcs
<1>2. PcInv' /\ SerialInv'
  BY DEF SerialInv, CallType
<1>3. RecordedIsComplete'
  <2>1. \A j \in Calls : call[j].pc = "unlink" =>
                              call'[j].pc = "unlink" /\ call'[j].id = call[j].id
    OBVIOUS
  <2>2. SUFFICES ASSUME NEW m \in Ids \ spoiled', rec'[m] # NoRecord,
                        \A j \in Calls : ~(call'[j].pc = "unlink" /\ call'[j].id = m)
                 PROVE  m \in root' /\ \A g \in Files : fs'[m][g] = "full"
    BY DEF RecordedIsComplete, At
  <2> QED BY <2>1, <2>2 DEF RecordedIsComplete, SerialInv, PullInv, At
<1>4. PullInv'
  BY DEF PullInv, SerialInv
<1>5. CopyInv'
  BY DEF CopyInv, SerialInv
<1>6. RemoveInv'
  BY DEF RemoveInv, SerialInv
<1> QED BY <1>1, <1>2, <1>3, <1>4, <1>5, <1>6

-----------------------------------------------------------------------------
\* An empty store satisfies the invariant.
LEMMA InitOK == ImageInit => ImageInv
<1> SUFFICES ASSUME ImageInit PROVE ImageInv OBVIOUS
<1> USE DEF ImageInit, Idle, NoRecord
<1>1. ImageTypeOK
  BY ImageAssumption DEF ImageTypeOK, CallType, Ops, Pcs
<1>2. PcInv /\ SerialInv
  BY DEF PcInv, SerialInv
<1>3. RecordedIsComplete
  BY DEF RecordedIsComplete
<1>4. PullInv
  BY DEF PullInv
<1>5. CopyInv
  BY DEF CopyInv
<1>6. RemoveInv
  BY DEF RemoveInv
<1> QED BY <1>1, <1>2, <1>3, <1>4, <1>5, <1>6 DEF ImageInv

\* The invariant speaks of the variables only.
LEMMA StutterOK == ASSUME ImageInv, UNCHANGED imageVars PROVE ImageInv'
<1>1. ImageTypeOK'
  BY DEF ImageInv, ImageTypeOK, imageVars
<1>2. PcInv' /\ SerialInv'
  BY DEF ImageInv, PcInv, SerialInv, imageVars
<1>3. RecordedIsComplete'
  BY DEF ImageInv, RecordedIsComplete, At, imageVars
<1>4. PullInv'
  BY DEF ImageInv, PullInv, imageVars
<1>5. CopyInv'
  BY DEF ImageInv, CopyInv, imageVars
<1>6. RemoveInv'
  BY DEF ImageInv, RemoveInv, imageVars
<1> QED BY <1>1, <1>2, <1>3, <1>4, <1>5, <1>6 DEF ImageInv

\* Every step of every call preserves the invariant.
LEMMA NextOK == ASSUME ImageInv, [ImageNext]_imageVars PROVE ImageInv'
<1>1. ASSUME NEW k \in Calls, Pull(k) PROVE ImageInv'
  BY <1>1, PullImageStep, PullCachedStep, PullUncachedStep, PullRefreshStep,
     PullMkdirStep, PullOpenStep, PullFillStep, PullFailsStep, PullPersistStep
     DEF Pull
<1>2. ASSUME NEW k \in Calls, Remove(k) PROVE ImageInv'
  BY <1>2, RemoveImageStep, DeleteImageStep, UnlinkStep, RmdirStep,
     DeleteFailsStep DEF Remove
<1>3. ASSUME NEW k \in Calls, Create(k) PROVE ImageInv'
  BY <1>3, CreateContainerStep, CopyListStep, CopyFileStep, CopyFailsStep,
     CopyDoneStep DEF Create
<1>4. ASSUME NEW r \in Refs, NEW i \in Ids, Retag(r, i) PROVE ImageInv'
  BY <1>4, RetagStep
<1> QED BY <1>1, <1>2, <1>3, <1>4, StutterOK DEF ImageNext

\* The strengthened invariant holds throughout.
LEMMA Inductive == ImageSpec => []ImageInv
<1>1. ImageInv /\ [ImageNext]_imageVars => ImageInv'
  BY NextOK
<1> QED BY InitOK, <1>1, PTL DEF ImageSpec

\* The image store and the calls that work on it keep their types.
THEOREM ImageTypes == ImageSpec => []ImageTypeOK
<1>1. ImageInv => ImageTypeOK
  BY DEF ImageInv
<1> QED BY Inductive, <1>1, PTL

\* An image with a record is complete, for any number of images, files and calls,
\* whatever pulls failed or were repeated: only calls that overlap on one image
\* and a RemoveAll that fails leave a record over a partial rootfs.
THEOREM RecordsComplete == ImageSpec => []RecordedIsComplete
<1>1. ImageInv => RecordedIsComplete
  BY DEF ImageInv
<1> QED BY Inductive, <1>1, PTL

\* Every container that CreateContainer completes has all files of its image,
\* unless the image is one of those.
THEOREM ContainersComplete == ImageSpec => []ContainerIsComplete
<1>1. ImageInv => ContainerIsComplete
  BY ZenonT(60) DEF ImageInv, ImageTypeOK, CallType, CopyInv, ContainerIsComplete, At
<1> QED BY Inductive, <1>1, PTL

-----------------------------------------------------------------------------
(* The network device.                                                     *)

LEMMA ModSmall == ASSUME NEW m \in Nat \ {0}, NEW a \in 0..(m - 1) PROVE a % m = a
BY Z3

LEMMA ModNeg == ASSUME NEW m \in Nat \ {0}, NEW a \in (1 - m)..(-1) PROVE a % m = a + m
BY Z3

LEMMA ModRange == ASSUME NEW m \in Nat \ {0}, NEW a \in Int PROVE a % m \in 0..(m - 1)
BY Z3

LEMMA ModFull == ASSUME NEW m \in Nat \ {0} PROVE m % m = 0
BY Z3

LEMMA NoMultiple ==
    ASSUME NEW n \in Nat \ {0}, NEW k \in Int, 0 < n * k, n * k < n PROVE FALSE
BY Z3
LEMMA Quotient ==
    ASSUME NEW n \in Nat \ {0}, NEW a \in Int PROVE \E k \in Int : a = n * k + (a % n)
<1>1. a \div n \in Int /\ a = n * (a \div n) + (a % n)
  BY Z3
<1> QED
  BY <1>1, Zenon

\* Two ring indices less than a ring size apart use different slots, also
\* across the wrap of the index.
LEMMA SlotsDiffer ==
    ASSUME NEW n \in Nat \ {0}, NEW m \in Nat, m > n, m % n = 0,
           NEW a \in 0..(m - 1), NEW b \in 0..(m - 1),
           0 < (b - a) % m, (b - a) % m < n
    PROVE  a % n # b % n
<1> SUFFICES ASSUME a % n = b % n PROVE FALSE
  OBVIOUS
<1>0. a \in Int /\ b \in Int /\ m \in Int
  OBVIOUS
<1>1. PICK ka \in Int : a = n * ka + (a % n)
  BY <1>0, Quotient, Zenon
<1>2. PICK kb \in Int : b = n * kb + (b % n)
  BY <1>0, Quotient, Zenon
<1>3. PICK km \in Int : m = n * km + (m % n)
  BY <1>0, Quotient, Zenon
<1>4. a % n \in Int /\ n * ka \in Int /\ n * kb \in Int /\ n * km \in Int
  BY ModRange
<1>5. b - a = n * kb - n * ka /\ m = n * km
  BY <1>1, <1>2, <1>3, <1>4
<1>6. n * (kb - ka) = n * kb - n * ka /\ n * (kb - ka + km) = n * kb - n * ka + n * km
  BY Z3
<1>7. CASE b >= a
  <2>1. (b - a) % m = b - a
    BY <1>7, ModSmall
  <2> QED
    BY <1>5, <1>6, <2>1, NoMultiple
<1>8. CASE b < a
  <2>1. (b - a) % m = b - a + m
    BY <1>8, ModNeg
  <2> QED
    BY <1>4, <1>5, <1>6, <2>1, NoMultiple
<1> QED
  BY <1>7, <1>8

Dist(i, j) == (j - i) % IdxMod

\* The distance between two indices, the successor of an index.
LEMMA Distance ==
    ASSUME NEW i \in Idx, NEW j \in Idx
    PROVE  Dist(i, j) = IF j >= i THEN j - i ELSE j - i + IdxMod
<1>1. IdxMod \in Nat \ {0} /\ i \in 0..(IdxMod - 1) /\ j \in 0..(IdxMod - 1)
  BY RingAssumption DEF Idx
<1>2. CASE j >= i
  BY <1>1, <1>2, ModSmall DEF Dist
<1>3. CASE j < i
  BY <1>1, <1>3, ModNeg DEF Dist
<1> QED
  BY <1>1, <1>2, <1>3

LEMMA Successor ==
    ASSUME NEW i \in Idx
    PROVE  Inc(i) = (IF i + 1 < IdxMod THEN i + 1 ELSE 0) /\ Inc(i) \in Idx
<1>1. IdxMod \in Nat \ {0} /\ i \in 0..(IdxMod - 1)
  BY RingAssumption DEF Idx
<1>2. CASE i + 1 < IdxMod
  BY <1>1, <1>2, ModSmall DEF Inc, Idx
<1>3. CASE i + 1 = IdxMod
  BY <1>1, <1>3, ModFull DEF Inc, Idx
<1> QED
  BY <1>1, <1>2, <1>3

LEMMA InBetween ==
    ASSUME NEW i \in Idx, NEW j \in Idx, NEW k
    PROVE  k \in Between(i, j) <=>
             k \in Idx /\ IF i <= j THEN i <= k /\ k < j ELSE k >= i \/ k < j
<1>1. CASE k \in Idx
  <2>1. /\ Dist(i, k) = IF k >= i THEN k - i ELSE k - i + IdxMod
        /\ Dist(i, j) = IF j >= i THEN j - i ELSE j - i + IdxMod
    BY <1>1, Distance
  <2>2. IdxMod \in Nat /\ i \in 0..(IdxMod - 1) /\ j \in 0..(IdxMod - 1) /\ k \in 0..(IdxMod - 1)
    BY <1>1, RingAssumption DEF Idx
  <2> QED
    BY <1>1, <2>1, <2>2 DEF Between, Dist
<1> QED
  BY <1>1 DEF Between

\* The first index of a window that is not empty is in it.
LEMMA FirstBetween ==
    ASSUME NEW i \in Idx, NEW j \in Idx, i # j PROVE i \in Between(i, j)
BY InBetween, RingAssumption DEF Idx

LEMMA BetweenCard ==
    ASSUME NEW i \in Idx, NEW j \in Idx
    PROVE  /\ IsFiniteSet(Between(i, j))
           /\ Cardinality(Between(i, j)) = Dist(i, j)
<1>1. IdxMod \in Nat /\ i \in 0..(IdxMod - 1) /\ j \in 0..(IdxMod - 1)
  BY RingAssumption DEF Idx
<1>2. CASE i <= j
  <2>1. Between(i, j) = i..(j - 1)
    BY <1>1, <1>2, InBetween DEF Idx
  <2>2. Dist(i, j) = j - i
    BY <1>1, <1>2, Distance
  <2>3. IsFiniteSet(i..(j - 1)) /\ Cardinality(i..(j - 1)) = IF i > j - 1 THEN 0 ELSE (j - 1) - i + 1
    BY <1>1, FS_Interval
  <2> QED
    BY <1>1, <1>2, <2>1, <2>2, <2>3
<1>3. CASE j < i
  <2> DEFINE A == i..(IdxMod - 1)
             B == 0..(j - 1)
  <2>1. Between(i, j) = A \cup B
    BY <1>1, <1>3, InBetween DEF Idx
  <2>2. Dist(i, j) = j - i + IdxMod
    BY <1>1, <1>3, Distance
  <2>3. IsFiniteSet(A) /\ Cardinality(A) = IdxMod - i
    <3>1. IsFiniteSet(A) /\ Cardinality(A) = IF i > IdxMod - 1 THEN 0 ELSE (IdxMod - 1) - i + 1
      BY <1>1, FS_Interval
    <3> QED
      BY <1>1, <3>1
  <2>4. IsFiniteSet(B) /\ Cardinality(B) = j
    <3>1. IsFiniteSet(B) /\ Cardinality(B) = IF 0 > j - 1 THEN 0 ELSE (j - 1) - 0 + 1
      BY <1>1, FS_Interval
    <3> QED
      BY <1>1, <3>1
  <2>5. A \cap B = {}
    BY <1>1, <1>3
  <2> HIDE DEF A, B
  <2>6. IsFiniteSet(A \cup B)
        /\ Cardinality(A \cup B) = Cardinality(A) + Cardinality(B) - Cardinality({})
    BY <2>3, <2>4, <2>5, FS_Union
  <2> QED
    BY <1>1, <2>1, <2>2, <2>3, <2>4, <2>6, FS_EmptySet
<1> QED
  BY <1>1, <1>2, <1>3

\* A new entry at the end of the window.
LEMMA BetweenEnd ==
    ASSUME NEW i \in Idx, NEW j \in Idx, Dist(i, j) < IdxMod - 1
    PROVE  /\ Between(i, Inc(j)) = Between(i, j) \cup {j} /\ j \notin Between(i, j)
           /\ Dist(i, Inc(j)) = Dist(i, j) + 1
<1>1. IdxMod \in Nat /\ i \in 0..(IdxMod - 1) /\ j \in 0..(IdxMod - 1)
  BY RingAssumption DEF Idx
<1>2. Inc(j) = (IF j + 1 < IdxMod THEN j + 1 ELSE 0) /\ Inc(j) \in Idx
  BY Successor
<1>3. Dist(i, j) = IF j >= i THEN j - i ELSE j - i + IdxMod
  BY Distance
<1>4. Inc(j) # i
  BY <1>1, <1>2, <1>3
<1>5. Dist(i, Inc(j)) = IF Inc(j) >= i THEN Inc(j) - i ELSE Inc(j) - i + IdxMod
  BY <1>2, Distance
<1>6. \A k : k \in Between(i, Inc(j)) <=> k \in Between(i, j) \cup {j}
  BY <1>1, <1>2, <1>4, InBetween DEF Idx
<1>7. j \notin Between(i, j)
  BY <1>1, InBetween
<1> QED
  BY <1>1, <1>2, <1>3, <1>4, <1>5, <1>6, <1>7

\* The first entry leaves the window.
LEMMA BetweenStart ==
    ASSUME NEW i \in Idx, NEW j \in Idx, i # j
    PROVE  /\ Between(i, j) = Between(Inc(i), j) \cup {i} /\ i \notin Between(Inc(i), j)
           /\ Dist(Inc(i), j) = Dist(i, j) - 1
<1>1. IdxMod \in Nat /\ i \in 0..(IdxMod - 1) /\ j \in 0..(IdxMod - 1)
  BY RingAssumption DEF Idx
<1>2. Inc(i) = (IF i + 1 < IdxMod THEN i + 1 ELSE 0) /\ Inc(i) \in Idx
  BY Successor
<1>3. Dist(i, j) = IF j >= i THEN j - i ELSE j - i + IdxMod
  BY Distance
<1>4. Dist(Inc(i), j) = IF j >= Inc(i) THEN j - Inc(i) ELSE j - Inc(i) + IdxMod
  BY <1>2, Distance
<1>5. \A k : k \in Between(i, j) <=> k \in Between(Inc(i), j) \cup {i}
  BY <1>1, <1>2, InBetween DEF Idx
<1>6. i \notin Between(Inc(i), j)
  BY <1>1, <1>2, InBetween
<1> QED
  BY <1>1, <1>2, <1>3, <1>4, <1>5, <1>6

\* No entry of a window shares its slot with the entry after the window.
LEMMA OwnSlot ==
    ASSUME NEW q \in Queues, NEW i \in Idx, NEW j \in Idx, Dist(i, j) < Num[q],
           NEW k \in Between(i, j)
    PROVE  k \in Idx /\ SlotOf(q, k) # SlotOf(q, j)
<1>1. /\ IdxMod \in Nat /\ i \in 0..(IdxMod - 1) /\ j \in 0..(IdxMod - 1)
      /\ Num[q] \in Nat \ {0} /\ IdxMod > Num[q] /\ IdxMod % Num[q] = 0
  BY RingAssumption DEF Idx
<1>2. k \in Idx /\ IF i <= j THEN i <= k /\ k < j ELSE k >= i \/ k < j
  BY InBetween
<1>3. /\ Dist(i, j) = IF j >= i THEN j - i ELSE j - i + IdxMod
      /\ Dist(k, j) = IF j >= k THEN j - k ELSE j - k + IdxMod
  BY <1>2, Distance
<1>4. k \in 0..(IdxMod - 1) /\ 0 < Dist(k, j) /\ Dist(k, j) < Num[q]
  BY <1>1, <1>2, <1>3 DEF Idx
<1>5. k % Num[q] # j % Num[q]
  BY <1>1, <1>4, SlotsDiffer DEF Dist
<1> QED
  BY <1>2, <1>5 DEF SlotOf

LEMMA SlotType ==
    ASSUME NEW q \in Queues, NEW i \in Idx PROVE SlotOf(q, i) \in Slot(q)
<1>1. Num[q] \in Nat \ {0} /\ i \in Int
  BY RingAssumption DEF Idx
<1> QED
  BY <1>1, ModRange DEF SlotOf, Slot

\* The descriptors named by the entries i, ..., j - 1 of one ring, and the
\* state of one queue: every descriptor is accounted for, and counted once.
Named(q, ring, i, j) == {ring[SlotOf(q, k)] : k \in Between(i, j)}
Held(q, fr, ar, l, a, ur, s, u) ==
    /\ fr \cup Named(q, ar, l, a) \cup Named(q, ur, s, u) = Desc(q)
    /\ Cardinality(fr) + Dist(l, a) + Dist(s, u) = Num[q]

LEMMA Shape ==
    ASSUME NEW q \in Queues
    PROVE  /\ Num[q] \in Nat \ {0} /\ IdxMod \in Nat \ {0} /\ Num[q] < IdxMod
           /\ IsFiniteSet(Desc(q)) /\ Cardinality(Desc(q)) = Num[q]
           /\ \A S \in SUBSET Desc(q) : IsFiniteSet(S) /\ Cardinality(S) \in Nat
<1>1. Num[q] \in Nat \ {0} /\ IdxMod \in Nat \ {0} /\ Num[q] < IdxMod
  BY RingAssumption
<1>2. IsFiniteSet(Desc(q)) /\ Cardinality(Desc(q)) = Num[q]
  <2>1. 0 \in Int /\ Num[q] - 1 \in Int
    BY <1>1
  <2>2. /\ IsFiniteSet(0..(Num[q] - 1))
        /\ Cardinality(0..(Num[q] - 1)) = IF 0 > Num[q] - 1 THEN 0 ELSE (Num[q] - 1) - 0 + 1
    BY <2>1, FS_Interval, Zenon
  <2> QED
    BY <1>1, <2>2 DEF Desc
<1>3. \A S \in SUBSET Desc(q) : IsFiniteSet(S) /\ Cardinality(S) \in Nat
  BY <1>2, FS_Subset, FS_CardinalityType
<1> QED
  BY <1>1, <1>2, <1>3

LEMMA DistanceType ==
    ASSUME NEW i \in Idx, NEW j \in Idx PROVE Dist(i, j) \in Nat
BY BetweenCard, FS_CardinalityType

\* A window names no more descriptors than it has entries.
LEMMA NamedCard ==
    ASSUME NEW q \in Queues, NEW ring \in [Slot(q) -> Desc(q)], NEW i \in Idx, NEW j \in Idx
    PROVE  /\ Named(q, ring, i, j) \subseteq Desc(q)
           /\ Cardinality(Named(q, ring, i, j)) <= Dist(i, j)
<1> DEFINE B == Between(i, j)
           T == Named(q, ring, i, j)
           f == [k \in B |-> ring[SlotOf(q, k)]]
<1>1. IsFiniteSet(B) /\ Cardinality(B) = Dist(i, j)
  BY BetweenCard
<1>2. f \in Surjection(B, T)
  BY DEF Surjection, Named
<1>3. T \subseteq Desc(q)
  BY SlotType DEF Named, Between
<1> HIDE DEF B, T, f
<1>4. Cardinality(T) <= Cardinality(B)
  BY <1>1, <1>2, FS_Surjection, Zenon
<1> QED
  BY <1>1, <1>3, <1>4 DEF T

LEMMA NamedPost ==
    ASSUME NEW q \in Queues, NEW ring \in [Slot(q) -> Desc(q)], NEW i \in Idx, NEW j \in Idx,
           Dist(i, j) < Num[q], NEW d \in Desc(q)
    PROVE  /\ Named(q, [ring EXCEPT ![SlotOf(q, j)] = d], i, Inc(j)) = Named(q, ring, i, j) \cup {d}
           /\ Dist(i, Inc(j)) = Dist(i, j) + 1
<1> DEFINE new == [ring EXCEPT ![SlotOf(q, j)] = d]
<1>1. Dist(i, j) < IdxMod - 1
  BY Shape, DistanceType
<1>2. /\ Between(i, Inc(j)) = Between(i, j) \cup {j}
      /\ Dist(i, Inc(j)) = Dist(i, j) + 1
  BY <1>1, BetweenEnd
<1>3. new[SlotOf(q, j)] = d
  BY SlotType
<1>4. \A k \in Between(i, j) : new[SlotOf(q, k)] = ring[SlotOf(q, k)]
  BY OwnSlot, SlotType, Zenon
<1> HIDE DEF new
<1> QED
  <2>1. Named(q, new, i, Inc(j)) = Named(q, ring, i, j) \cup {d}
    BY <1>2, <1>3, <1>4 DEF Named
  <2> QED
    BY <1>2, <2>1, Zenon DEF new

LEMMA NamedTake ==
    ASSUME NEW q \in Queues, NEW ring, NEW i \in Idx, NEW j \in Idx, i # j
    PROVE  /\ Named(q, ring, i, j) = Named(q, ring, Inc(i), j) \cup {ring[SlotOf(q, i)]}
           /\ Dist(Inc(i), j) = Dist(i, j) - 1
BY BetweenStart DEF Named

\* The driver posts a free descriptor.
LEMMA HeldPost ==
    ASSUME NEW q \in Queues, NEW fr \in SUBSET Desc(q), NEW ar \in [Slot(q) -> Desc(q)], NEW ur,
           NEW l \in Idx, NEW a \in Idx, NEW s \in Idx, NEW u \in Idx,
           Held(q, fr, ar, l, a, ur, s, u), NEW d \in fr
    PROVE  /\ Held(q, fr \ {d}, [ar EXCEPT ![SlotOf(q, a)] = d], l, Inc(a), ur, s, u)
           /\ Dist(l, a) < Num[q] /\ Inc(a) # l
<1> DEFINE new == [ar EXCEPT ![SlotOf(q, a)] = d]
<1>1. IsFiniteSet(fr) /\ Cardinality(fr) \in Nat
  BY Shape
<1>2. Cardinality(fr \ {d}) = Cardinality(fr) - 1 /\ Cardinality(fr) >= 1
  <2>1. IsFiniteSet(fr \ {d}) /\ Cardinality(fr \ {d}) = Cardinality(fr) - 1
    BY <1>1, FS_RemoveElement
  <2> QED
    BY <1>1, <2>1, FS_CardinalityType
<1>3. Dist(l, a) \in Nat /\ Dist(s, u) \in Nat /\ Num[q] \in Nat
  BY DistanceType, Shape
<1>4. Dist(l, a) < Num[q]
  BY <1>1, <1>2, <1>3 DEF Held
<1>5. /\ Named(q, new, l, Inc(a)) = Named(q, ar, l, a) \cup {d}
      /\ Dist(l, Inc(a)) = Dist(l, a) + 1
  BY <1>4, NamedPost, ZenonT(60)
<1> HIDE DEF new
<1>6. Held(q, fr \ {d}, new, l, Inc(a), ur, s, u)
  <2>1. (fr \ {d}) \cup Named(q, new, l, Inc(a)) \cup Named(q, ur, s, u) = Desc(q)
    BY <1>5, Zenon DEF Held
  <2>2. Cardinality(fr \ {d}) + Dist(l, Inc(a)) + Dist(s, u) = Num[q]
    BY <1>1, <1>2, <1>3, <1>5 DEF Held
  <2> QED
    BY <2>1, <2>2, Zenon DEF Held
<1>7. Inc(a) # l
  <2>1. IdxMod \in Nat \ {0} /\ l \in Int
    BY Shape DEF Idx
  <2>2. Dist(l, l) = 0
    BY <2>1, Distance
  <2> QED
    BY <1>3, <1>5, <2>2
<1> QED
  BY <1>4, <1>6, <1>7, Zenon DEF new

\* The net thread publishes the entry it took as used.
LEMMA HeldPublish ==
    ASSUME NEW q \in Queues, NEW fr \in SUBSET Desc(q), NEW ar \in [Slot(q) -> Desc(q)],
           NEW ur \in [Slot(q) -> Desc(q)],
           NEW l \in Idx, NEW a \in Idx, NEW s \in Idx, NEW u \in Idx,
           Held(q, fr, ar, l, a, ur, s, u), l # a
    PROVE  Held(q, fr, ar, Inc(l), a, [ur EXCEPT ![SlotOf(q, u)] = ar[SlotOf(q, l)]], s, Inc(u))
<1> DEFINE x == ar[SlotOf(q, l)]
           new == [ur EXCEPT ![SlotOf(q, u)] = x]
<1>0. x \in Desc(q)
  BY SlotType
<1>1. Cardinality(fr) \in Nat
  BY Shape
<1>2. /\ Named(q, ar, l, a) = Named(q, ar, Inc(l), a) \cup {x}
      /\ Dist(Inc(l), a) = Dist(l, a) - 1
  BY NamedTake
<1>3. Dist(l, a) \in Nat /\ Dist(Inc(l), a) \in Nat /\ Dist(s, u) \in Nat
      /\ Num[q] \in Nat
  BY DistanceType, Shape, Successor
<1>4. Dist(s, u) < Num[q]
  BY <1>1, <1>2, <1>3 DEF Held
<1> HIDE DEF x
<1>6. /\ Named(q, new, s, Inc(u)) = Named(q, ur, s, u) \cup {x}
      /\ Dist(s, Inc(u)) = Dist(s, u) + 1
  BY <1>0, <1>4, NamedPost, ZenonT(60)
<1> HIDE DEF new
<1>7. fr \cup Named(q, ar, Inc(l), a) \cup Named(q, new, s, Inc(u)) = Desc(q)
  BY <1>2, <1>6, Zenon DEF Held
<1>8. Cardinality(fr) + Dist(Inc(l), a) + Dist(s, Inc(u)) = Num[q]
  BY <1>1, <1>2, <1>3, <1>6 DEF Held
<1> QED
  BY <1>7, <1>8, Zenon DEF Held, new, x

\* The driver takes back a used descriptor.  It cannot be free already: the
\* queue would then name fewer descriptors than it has.
LEMMA HeldTake ==
    ASSUME NEW q \in Queues, NEW fr \in SUBSET Desc(q),
           NEW ar \in [Slot(q) -> Desc(q)], NEW ur \in [Slot(q) -> Desc(q)],
           NEW l \in Idx, NEW a \in Idx, NEW s \in Idx, NEW u \in Idx,
           Held(q, fr, ar, l, a, ur, s, u), s # u
    PROVE  /\ ur[SlotOf(q, s)] \in Desc(q)
           /\ Held(q, fr \cup {ur[SlotOf(q, s)]}, ar, l, a, ur, Inc(s), u)
<1> DEFINE x == ur[SlotOf(q, s)]
           P == Named(q, ar, l, a)
           D == Named(q, ur, Inc(s), u)
<1>1. x \in Desc(q)
  BY SlotType
<1>2. Inc(s) \in Idx
  BY Successor
<1>3. Named(q, ur, s, u) = D \cup {x} /\ Dist(Inc(s), u) = Dist(s, u) - 1
  BY NamedTake
<1>4. /\ P \subseteq Desc(q) /\ Cardinality(P) <= Dist(l, a)
      /\ D \subseteq Desc(q) /\ Cardinality(D) <= Dist(Inc(s), u)
  BY <1>2, NamedCard
<1>5. /\ IsFiniteSet(fr) /\ IsFiniteSet(P) /\ IsFiniteSet(D) /\ Cardinality(fr) \in Nat
      /\ Cardinality(P) \in Nat /\ Cardinality(D) \in Nat
      /\ Num[q] \in Nat /\ Cardinality(Desc(q)) = Num[q]
  BY <1>4, Shape
<1>6. Dist(l, a) \in Nat /\ Dist(s, u) \in Nat /\ Dist(Inc(s), u) \in Nat
  BY <1>2, DistanceType
<1>7. fr \cup P \cup D \cup {x} = Desc(q)
  BY <1>3 DEF Held
<1>8. Cardinality(fr) + Dist(l, a) + Dist(s, u) = Num[q]
  BY DEF Held
<1> HIDE DEF x, P, D
<1>9. x \notin fr
  <2> SUFFICES ASSUME x \in fr PROVE FALSE
    OBVIOUS
  <2>1. (fr \cup P) \cup D = Desc(q)
    BY <1>7
  <2>2. IsFiniteSet(fr \cup P) /\ Cardinality(fr \cup P) <= Cardinality(fr) + Cardinality(P)
        /\ Cardinality(fr \cup P) \in Nat
    <3>1. /\ IsFiniteSet(fr \cup P)
          /\ Cardinality(fr \cup P)
               = Cardinality(fr) + Cardinality(P) - Cardinality(fr \cap P)
      BY <1>5, FS_Union
    <3>2. Cardinality(fr \cap P) \in Nat /\ Cardinality(fr \cup P) \in Nat
      BY <1>5, <3>1, FS_Intersection, FS_CardinalityType
    <3> QED
      BY <1>5, <3>1, <3>2
  <2>3. Cardinality((fr \cup P) \cup D) <= Cardinality(fr \cup P) + Cardinality(D)
    <3>1. Cardinality((fr \cup P) \cup D)
            = Cardinality(fr \cup P) + Cardinality(D) - Cardinality((fr \cup P) \cap D)
      BY <1>5, <2>2, FS_Union
    <3>2. Cardinality((fr \cup P) \cap D) \in Nat
      BY <1>5, <2>2, FS_Intersection, FS_CardinalityType, Zenon
    <3> QED
      BY <1>5, <2>2, <3>1, <3>2
  <2>4. Cardinality((fr \cup P) \cup D) = Num[q]
    BY <1>5, <2>1
  <2> DEFINE c == Cardinality(fr \cup P)
             e == Cardinality((fr \cup P) \cup D)
  <2> HIDE DEF c, e
  <2>5. c \in Nat /\ c <= Cardinality(fr) + Cardinality(P) /\ e <= c + Cardinality(D) /\ e = Num[q]
    BY <2>2, <2>3, <2>4, Zenon DEF c, e
  <2> QED
    BY <1>3, <1>4, <1>5, <1>6, <1>8, <2>5
<1>10. Cardinality(fr \cup {x}) = Cardinality(fr) + 1
  BY <1>5, <1>9, FS_AddElement, Zenon
<1>11. (fr \cup {x}) \cup P \cup D = Desc(q)
  BY <1>7
<1>12. Cardinality(fr \cup {x}) + Dist(l, a) + Dist(Inc(s), u) = Num[q]
  BY <1>3, <1>5, <1>6, <1>8, <1>10
<1> QED
  BY <1>1, <1>11, <1>12 DEF Held, x, P, D

\* The invariant of the rings.  The private index of the net thread follows
\* used->idx, and an entry it has taken but not yet published is still the
\* first one of the window of posted entries.
QueueTypes ==
    /\ avail \in [Queues -> Idx] /\ used \in [Queues -> Idx]
    /\ last \in [Queues -> Idx] /\ seen \in [Queues -> Idx]
    /\ availRing = [q \in Queues |-> availRing[q]] /\ usedRing = [q \in Queues |-> usedRing[q]]
    /\ free = [q \in Queues |-> free[q]]
    /\ \A q \in Queues : /\ availRing[q] \in [Slot(q) -> Desc(q)]
                         /\ usedRing[q] \in [Slot(q) -> Desc(q)]
                         /\ free[q] \in SUBSET Desc(q)
HeldBy(q) == Held(q, free[q], availRing[q], last[q], avail[q], usedRing[q], seen[q], used[q])
RingInv == QueueTypes /\ used = last /\ \A q \in Queues : HeldBy(q)
Taken(q) == last[q] # avail[q] /\ cur = availRing[q][SlotOf(q, last[q])]
TakenInv == (pc = "txUsed" => Taken("tx")) /\ (pc = "rxUsed" => Taken("rx"))

LEMMA RingIsConserved == RingInv => DescriptorsConserved
<1> SUFFICES ASSUME RingInv, NEW q \in Queues
             PROVE  /\ free[q] \cup Names(q, availRing, last[q], avail[q])
                          \cup Names(q, usedRing, seen[q], used[q]) = Desc(q)
                    /\ Cardinality(free[q]) + Cardinality(Between(last[q], avail[q]))
                          + Cardinality(Between(seen[q], used[q])) = Num[q]
  BY Zenon DEF DescriptorsConserved
<1>1. last[q] \in Idx /\ avail[q] \in Idx /\ seen[q] \in Idx /\ used[q] \in Idx /\ HeldBy(q)
  BY DEF RingInv, QueueTypes
<1>2. /\ Cardinality(Between(last[q], avail[q])) = Dist(last[q], avail[q])
      /\ Cardinality(Between(seen[q], used[q])) = Dist(seen[q], used[q])
  BY <1>1, BetweenCard
<1>3. /\ Names(q, availRing, last[q], avail[q]) = Named(q, availRing[q], last[q], avail[q])
      /\ Names(q, usedRing, seen[q], used[q]) = Named(q, usedRing[q], seen[q], used[q])
  BY Zenon DEF Names, Named
<1> QED
  BY <1>1, <1>2, <1>3, Zenon DEF HeldBy, Held

LEMMA QueueExcept ==
    ASSUME NEW f, f = [r \in Queues |-> f[r]], NEW q \in Queues, NEW v,
           NEW h, h = [f EXCEPT ![q] = v]
    PROVE  /\ h = [r \in Queues |-> h[r]] /\ h[q] = v
           /\ \A r \in Queues : r # q => h[r] = f[r]
OBVIOUS

LEMMA InitRing == Init => RingInv /\ TakenInv
<1> SUFFICES ASSUME Init PROVE RingInv /\ TakenInv
  OBVIOUS
<1>1. PICK i \in Idx : /\ avail = [q \in Queues |-> i] /\ used = avail
                       /\ last = avail /\ seen = avail
  BY DEF Init
<1>2. ASSUME NEW q \in Queues
      PROVE  /\ free[q] = Desc(q) /\ availRing[q] = [s \in Slot(q) |-> 0]
             /\ usedRing[q] = [s \in Slot(q) |-> 0] /\ 0 \in Desc(q)
             /\ avail[q] = i /\ used[q] = i /\ last[q] = i /\ seen[q] = i
  <2>1. 0 \in Desc(q)
    BY Shape DEF Desc
  <2> QED
    BY <1>1, <2>1 DEF Init
<1>3. QueueTypes
  <2>1. /\ availRing = [q \in Queues |-> availRing[q]] /\ usedRing = [q \in Queues |-> usedRing[q]]
        /\ free = [q \in Queues |-> free[q]]
    BY DEF Init
  <2> QED
    BY <1>1, <1>2, <2>1 DEF QueueTypes
<1>4. ASSUME NEW q \in Queues PROVE HeldBy(q)
  <2>1. Dist(i, i) = 0
    <3>1. i - i = 0 /\ i >= i
      BY Shape DEF Idx
    <3> QED
      BY <3>1, Distance
  <2>2. Between(i, i) = {}
    BY InBetween, Shape DEF Idx
  <2>3. \A ring : Named(q, ring, i, i) = {}
    BY <2>2 DEF Named
  <2>4. Cardinality(Desc(q)) = Num[q] /\ Num[q] \in Nat
    BY Shape
  <2>5. Held(q, Desc(q), availRing[q], i, i, usedRing[q], i, i)
    BY <2>1, <2>3, <2>4 DEF Held
  <2> QED
    BY <1>2, <2>5, Zenon DEF HeldBy
<1>5. TakenInv
  BY DEF Init, TakenInv
<1> QED
  BY <1>1, <1>3, <1>4, <1>5 DEF RingInv

LEMMA RingFrame == ASSUME RingInv, UNCHANGED ringVars PROVE RingInv'
BY DEF RingInv, QueueTypes, HeldBy, ringVars

LEMMA PublishRing ==
    ASSUME RingInv, NEW q \in Queues, Taken(q), Publish(q) PROVE RingInv'
<1> DEFINE x == availRing[q][SlotOf(q, last[q])]
           new == [usedRing[q] EXCEPT ![SlotOf(q, used[q])] = x]
<1>0. /\ last[q] \in Idx /\ avail[q] \in Idx /\ seen[q] \in Idx /\ used[q] \in Idx
      /\ availRing[q] \in [Slot(q) -> Desc(q)] /\ usedRing[q] \in [Slot(q) -> Desc(q)]
      /\ free[q] \in SUBSET Desc(q) /\ HeldBy(q) /\ used = last
  BY Zenon DEF RingInv, QueueTypes
<1>1. x \in Desc(q) /\ new \in [Slot(q) -> Desc(q)]
  BY <1>0, SlotType
<1>2. Held(q, free[q], availRing[q], Inc(last[q]), avail[q], new, seen[q], Inc(used[q]))
  BY <1>0, HeldPublish, ZenonT(60) DEF Taken, HeldBy
<1>3. usedRing' = [usedRing EXCEPT ![q] = new]
  BY Zenon DEF Publish, Taken
<1> HIDE DEF x, new
<1>4. /\ usedRing' = [r \in Queues |-> usedRing'[r]] /\ usedRing'[q] = new
      /\ \A r \in Queues : r # q => usedRing'[r] = usedRing[r]
  BY <1>3, QueueExcept, ZenonT(60) DEF RingInv, QueueTypes
<1>5. /\ last' \in [Queues -> Idx] /\ used' = last' /\ last'[q] = Inc(last[q])
      /\ \A r \in Queues : r # q => last'[r] = last[r]
  BY <1>0, Successor DEF Publish, RingInv, QueueTypes
<1>6. QueueTypes'
  BY <1>1, <1>4, <1>5, Zenon DEF Publish, RingInv, QueueTypes
<1>7. ASSUME NEW r \in Queues PROVE HeldBy(r)'
  <2>1. CASE r = q
    BY <1>0, <1>2, <1>4, <1>5, <2>1, Zenon DEF HeldBy, Publish
  <2>2. CASE r # q
    <3>1. HeldBy(r)
      BY DEF RingInv
    <3> QED
      BY <1>0, <1>4, <1>5, <2>2, <3>1, Zenon DEF HeldBy, Publish
  <2> QED
    BY <2>1, <2>2
<1> QED
  BY <1>5, <1>6, <1>7, Zenon DEF RingInv

LEMMA PostRing ==
    ASSUME RingInv, TakenInv, NEW q \in Queues, NEW d \in Desc(q), Post(q, d)
    PROVE  RingInv' /\ TakenInv'
<1> DEFINE new == [availRing[q] EXCEPT ![SlotOf(q, avail[q])] = d]
<1>0. /\ last[q] \in Idx /\ avail[q] \in Idx /\ seen[q] \in Idx /\ used[q] \in Idx
      /\ availRing[q] \in [Slot(q) -> Desc(q)] /\ free[q] \in SUBSET Desc(q) /\ HeldBy(q)
      /\ d \in free[q] /\ used = last
  BY Zenon DEF RingInv, QueueTypes, Post
<1>1. new \in [Slot(q) -> Desc(q)]
  BY <1>0, SlotType, Zenon
<1>2. /\ Held(q, free[q] \ {d}, new, last[q], Inc(avail[q]), usedRing[q], seen[q], used[q])
      /\ Dist(last[q], avail[q]) < Num[q] /\ Inc(avail[q]) # last[q]
  BY <1>0, HeldPost, ZenonT(60) DEF HeldBy
<1>3. availRing' = [availRing EXCEPT ![q] = new]
  BY ZenonT(60) DEF Post
<1>3a. Taken(q) => new[SlotOf(q, last[q])] = availRing[q][SlotOf(q, last[q])]
  <2> SUFFICES ASSUME Taken(q) PROVE new[SlotOf(q, last[q])] = availRing[q][SlotOf(q, last[q])]
    BY Zenon
  <2>1. last[q] \in Between(last[q], avail[q])
    <3>1. last[q] # avail[q]
      BY Zenon DEF Taken
    <3> QED
      BY <1>0, <3>1, FirstBetween, Zenon
  <2>2. SlotOf(q, last[q]) # SlotOf(q, avail[q])
    BY <1>0, <1>2, <2>1, OwnSlot, Zenon
  <2> QED
    BY <1>0, <2>2, SlotType, Zenon
<1> HIDE DEF new
<1>4. /\ availRing' = [r \in Queues |-> availRing'[r]] /\ availRing'[q] = new
      /\ \A r \in Queues : r # q => availRing'[r] = availRing[r]
  BY <1>3, QueueExcept, ZenonT(60) DEF RingInv, QueueTypes
<1>5. /\ avail' \in [Queues -> Idx] /\ avail'[q] = Inc(avail[q])
      /\ \A r \in Queues : r # q => avail'[r] = avail[r]
  BY <1>0, Successor DEF Post, RingInv, QueueTypes
<1>6. /\ free' = [r \in Queues |-> free'[r]] /\ free'[q] = free[q] \ {d}
      /\ \A r \in Queues : r # q => free'[r] = free[r]
  BY QueueExcept, ZenonT(60) DEF RingInv, QueueTypes, Post
<1>7. QueueTypes'
  BY <1>0, <1>1, <1>4, <1>5, <1>6, Zenon DEF Post, RingInv, QueueTypes
<1>8. ASSUME NEW r \in Queues PROVE HeldBy(r)'
  <2>1. CASE r = q
    BY <1>2, <1>4, <1>5, <1>6, <2>1, Zenon DEF HeldBy, Post
  <2>2. CASE r # q
    <3>1. HeldBy(r)
      BY DEF RingInv
    <3> QED
      BY <1>4, <1>5, <1>6, <2>2, <3>1, Zenon DEF HeldBy, Post
  <2> QED
    BY <2>1, <2>2
<1>9. ASSUME NEW r \in Queues, Taken(r) PROVE Taken(r)'
  <2>1. CASE r = q
    BY <1>2, <1>3a, <1>4, <1>5, <1>9, <2>1, Zenon DEF Taken, Post, netVars
  <2>2. CASE r # q
    BY <1>4, <1>5, <1>9, <2>2 DEF Taken, Post, netVars
  <2> QED
    BY <2>1, <2>2, Zenon
<1>10. TakenInv'
  BY <1>9, Zenon DEF TakenInv, Post, netVars, Queues
<1> QED
  BY <1>0, <1>7, <1>8, <1>10, Zenon DEF RingInv, Post

LEMMA ProcessRing == ASSUME RingInv, Process PROVE RingInv'
<1>1. CASE \E q \in Queues :
             /\ seen[q] # used[q]
             /\ free' = [free EXCEPT ![q] = @ \cup {usedRing[q][SlotOf(q, seen[q])]}]
             /\ seen' = [seen EXCEPT ![q] = Inc(@)]
  <2>1. PICK q \in Queues :
             /\ seen[q] # used[q]
             /\ free' = [free EXCEPT ![q] = @ \cup {usedRing[q][SlotOf(q, seen[q])]}]
             /\ seen' = [seen EXCEPT ![q] = Inc(@)]
    BY <1>1, ZenonT(60)
  <2> DEFINE x == usedRing[q][SlotOf(q, seen[q])]
  <2>2. /\ last[q] \in Idx /\ avail[q] \in Idx /\ seen[q] \in Idx /\ used[q] \in Idx
        /\ availRing[q] \in [Slot(q) -> Desc(q)] /\ usedRing[q] \in [Slot(q) -> Desc(q)]
        /\ free[q] \in SUBSET Desc(q) /\ HeldBy(q)
    BY DEF RingInv, QueueTypes
  <2>3. /\ x \in Desc(q)
        /\ Held(q, free[q] \cup {x}, availRing[q], last[q], avail[q], usedRing[q],
                Inc(seen[q]), used[q])
    BY <2>1, <2>2, HeldTake, ZenonT(60) DEF HeldBy
  <2>4. free' = [free EXCEPT ![q] = free[q] \cup {x}]
    BY <2>1, Zenon
  <2> HIDE DEF x
  <2>5. /\ free' = [r \in Queues |-> free'[r]] /\ free'[q] = free[q] \cup {x}
        /\ \A r \in Queues : r # q => free'[r] = free[r]
    BY <2>4, QueueExcept, Zenon DEF RingInv, QueueTypes
  <2>6. /\ seen' \in [Queues -> Idx] /\ seen'[q] = Inc(seen[q])
        /\ \A r \in Queues : r # q => seen'[r] = seen[r]
    BY <2>1, <2>2, Successor DEF RingInv, QueueTypes
  <2>7. UNCHANGED <<avail, used, availRing, usedRing, last>>
    BY Zenon DEF Process
  <2>8. QueueTypes'
    BY <2>2, <2>3, <2>5, <2>6, <2>7, Zenon DEF RingInv, QueueTypes
  <2>9. ASSUME NEW r \in Queues PROVE HeldBy(r)'
    <3>1. CASE r = q
      BY <2>3, <2>5, <2>6, <2>7, <3>1, Zenon DEF HeldBy
    <3>2. CASE r # q
      <4>1. HeldBy(r)
        BY Zenon DEF RingInv
      <4> QED
        BY <2>5, <2>6, <2>7, <3>2, <4>1, Zenon DEF HeldBy
    <3> QED
      BY <3>1, <3>2
  <2> QED
    BY <2>7, <2>8, <2>9 DEF RingInv
<1>2. CASE UNCHANGED <<free, seen>>
  BY <1>2, RingFrame, Zenon DEF Process, ringVars
<1> QED
  BY <1>1, <1>2, Zenon DEF Process

\* The control state of the two threads.
Ctl == /\ pc \in {"top", "tx", "txUsed", "irq", "irqLow", "irqHigh", "rx", "rxUsed", "end",
                  "exited"}
       /\ ret \in {"rx", "end"}
       /\ gpc \in {"run", "notify", "status", "ackLoad", "ackStore", "ackLower", "process"}
       /\ cur \in Desc("tx") \cup Desc("rx")
Bits == status \in {0, 1} /\ line \in {0, 1} /\ gval \in {0, 1} /\ gtmp \in {0, 1}
Flags == /\ didWork \in BOOLEAN /\ rxDidWork \in BOOLEAN /\ irr \in BOOLEAN
         /\ erased \in BOOLEAN /\ wake \in BOOLEAN /\ stop \in BOOLEAN
Tap == tap \in 0..MaxTap

LEMMA FirstDesc == 0 \in Desc("tx")
BY RingAssumption DEF Desc, Queues

LEMMA InitCtl == Init => Ctl /\ Bits /\ Flags /\ Tap
<1>1. Init => Ctl /\ Bits /\ Flags
  BY FirstDesc, Zenon DEF Init, Ctl, Bits, Flags
<1>2. Init => Tap
  BY TapAssumption DEF Init, Tap
<1> QED
  BY <1>1, <1>2

LEMMA TakesDesc ==
    ASSUME RingInv, NEW q \in Queues
    PROVE  availRing[q][SlotOf(q, last[q])] \in Desc("tx") \cup Desc("rx")
<1>1. availRing[q] \in [Slot(q) -> Desc(q)] /\ SlotOf(q, last[q]) \in Slot(q)
  BY SlotType DEF RingInv, QueueTypes
<1> QED
  BY <1>1 DEF Queues

LEMMA CtlStep == ASSUME RingInv, Ctl, Bits, [Next]_vars PROVE Ctl' /\ Bits'
<1> USE DEF Ctl, Bits, netVars, irqVars, guestVars
<1>1. CASE Top \/ TxDone \/ RxDone \/ End
  BY <1>1, Zenon DEF Top, TxDone, RxDone, End
<1>2. CASE TxTake \/ RxTake
  BY <1>2, TakesDesc, Zenon DEF TxTake, RxTake, Queues
<1>3. CASE TxUsed \/ RxUsed
  BY <1>3, FirstDesc, Zenon DEF TxUsed, RxUsed
<1>4. CASE SetStatus \/ LowerIrq \/ RaiseIrq
  BY <1>4, Zenon DEF SetStatus, LowerIrq, RaiseIrq, IrqLine
<1>5. CASE \E q \in Queues : \E d \in Desc(q) : Post(q, d)
  BY <1>5, Zenon DEF Post
<1>6. CASE Notify \/ Stop \/ Arrive \/ TakeIrq \/ Process \/ UNCHANGED vars
  <2> HIDE DEF Ctl, Bits
  <2>1. UNCHANGED <<pc, ret, cur, status, line, gval, gtmp>>
    BY <1>6, Zenon DEF Notify, Stop, Arrive, TakeIrq, Process, vars
  <2>2. gpc' = gpc \/ gpc' = "run" \/ gpc' = "status"
    BY <1>6, Zenon DEF Notify, Stop, Arrive, TakeIrq, Process, vars
  <2> QED
    BY <2>1, <2>2 DEF Ctl, Bits
<1>7. CASE ReadStatus \/ AckLoad \/ AckStore \/ AckLower
  BY <1>7 DEF ReadStatus, AckLoad, AckStore, AckLower, IrqLine
<1> QED
  BY <1>1, <1>2, <1>3, <1>4, <1>5, <1>6, <1>7, ZenonT(60)
     DEF Next, NetThread, Handler

LEMMA FlagStep == ASSUME Flags, [Next]_vars PROVE Flags'
<1> USE DEF Flags, netVars, irqVars, guestVars
<1>1. CASE NetThread
  BY <1>1, ZenonT(30) DEF NetThread, Top, TxTake, TxUsed, TxDone, SetStatus, LowerIrq, RaiseIrq,
                          RxTake, RxUsed, RxDone, End, IrqLine
<1>2. CASE Handler
  BY <1>2, ZenonT(30) DEF Handler, TakeIrq, ReadStatus, AckLoad, AckStore, AckLower, Process,
                          IrqLine
<1>3. CASE Notify \/ Stop \/ Arrive \/ UNCHANGED vars
  BY <1>3, Zenon DEF Notify, Stop, Arrive, vars
<1>4. CASE \E q \in Queues : \E d \in Desc(q) : Post(q, d)
  BY <1>4, Zenon DEF Post
<1> QED
  BY <1>1, <1>2, <1>3, <1>4, Zenon DEF Next

LEMMA TapStep == ASSUME Tap, [Next]_vars PROVE Tap'
<1> USE TapAssumption DEF Tap
<1>1. CASE RxTake
  BY <1>1 DEF RxTake
<1>2. CASE RxDone
  BY <1>2 DEF RxDone
<1>3. CASE Arrive
  BY <1>3 DEF Arrive
<1>4. CASE UNCHANGED tap
  BY <1>4
<1>5. \/ UNCHANGED tap
      \/ RxTake \/ RxDone \/ Arrive
  BY Zenon DEF Next, NetThread, Handler, Top, TxTake, TxUsed, TxDone, SetStatus, LowerIrq, RaiseIrq,
         RxUsed, End, Post, Notify, TakeIrq, ReadStatus, AckLoad, AckStore, AckLower, Process,
         Stop, vars
<1> QED
  BY <1>1, <1>2, <1>3, <1>4, <1>5, Zenon

LEMMA RingStep == Ctl /\ RingInv /\ TakenInv /\ [Next]_vars => RingInv' /\ TakenInv'
<1> SUFFICES ASSUME Ctl, RingInv, TakenInv, [Next]_vars PROVE RingInv' /\ TakenInv'
  OBVIOUS
<1>1. CASE \E q \in Queues : \E d \in Desc(q) : Post(q, d)
  BY <1>1, PostRing, ZenonT(60)
<1>2. CASE Process
  BY <1>2, ProcessRing, Zenon DEF Process, netVars, TakenInv, Taken
<1>3. CASE TxUsed
  BY <1>3, PublishRing, Zenon DEF TxUsed, TakenInv, Queues
<1>4. CASE RxUsed
  BY <1>4, PublishRing, Zenon DEF RxUsed, TakenInv, Queues
<1>5. CASE TxTake \/ RxTake
  BY <1>5, RingFrame, Zenon DEF TxTake, RxTake, TakenInv, Taken, ringVars
<1>6. CASE Top \/ TxDone \/ SetStatus \/ LowerIrq \/ RaiseIrq \/ RxDone \/ End
  BY <1>6, RingFrame, Zenon
     DEF Top, TxDone, SetStatus, LowerIrq, RaiseIrq, RxDone, End, TakenInv, Ctl
<1>7. CASE \/ Notify \/ TakeIrq \/ ReadStatus \/ AckLoad \/ AckStore \/ AckLower
           \/ Stop \/ Arrive \/ UNCHANGED vars
  <2>1. UNCHANGED <<ringVars, pc, cur>>
    BY <1>7, Zenon DEF Notify, TakeIrq, ReadStatus, AckLoad, AckStore, AckLower, Stop,
                       Arrive, vars, netVars
  <2> QED
    BY <2>1, RingFrame, ZenonT(60) DEF TakenInv, Taken, ringVars
<1> QED
  BY <1>1, <1>2, <1>3, <1>4, <1>5, <1>6, <1>7 DEF Next, NetThread, Handler

LEMMA NetInvariant == Spec => [](RingInv /\ TakenInv /\ Ctl /\ Bits /\ Flags /\ Tap)
<1>1. Init => RingInv /\ TakenInv /\ Ctl /\ Bits /\ Flags /\ Tap
  BY InitRing, InitCtl
<1>2. RingInv /\ TakenInv /\ Ctl /\ Bits /\ Flags /\ Tap /\ [Next]_vars
        => (RingInv /\ TakenInv /\ Ctl /\ Bits /\ Flags /\ Tap)'
  BY RingStep, CtlStep, FlagStep, TapStep, Zenon
<1> QED
  BY <1>1, <1>2, PTL DEF Spec

\* The ring indices keep their width, the ring entries name descriptors of
\* their own ring, and the shared status register holds bit 0 only.
THEOREM NetTypes == Spec => []TypeOK
<1>1. RingInv /\ TakenInv /\ Ctl /\ Bits /\ Flags /\ Tap => TypeOK
  BY Zenon DEF RingInv, QueueTypes, Ctl, Bits, Flags, Tap, TypeOK
<1> QED
  BY <1>1, NetInvariant, PTL

\* Every descriptor has exactly one owner, for every ring size and index
\* width, also when the indices wrap and when the status accesses interleave.
THEOREM DescriptorsHaveOwner == Spec => []DescriptorsConserved
BY NetInvariant, RingIsConserved, PTL

-----------------------------------------------------------------------------
(***************************************************************************)
(* The interrupt path.  The argument follows a used entry from the net     *)
(* thread that still owes the interrupt, through the latched edge with the *)
(* status bit set, to the handler that will process the rings.             *)
(***************************************************************************)
IrqTypes == /\ status \in {0, 1} /\ line \in {0, 1} /\ irr \in BOOLEAN /\ erased \in BOOLEAN
            /\ gval \in {0, 1} /\ gtmp \in {0, 1} /\ ret \in {"rx", "end"}

\* The handler is bound to process the rings after this point.
WillProcess == \/ gpc = "process"
               \/ gpc \in {"ackLoad", "ackStore", "ackLower"} /\ gval = 1
               \/ gpc = "status" /\ status = 1

\* The net thread has published and not yet set the status bit.
BeforeStatus == Owes /\ pc \notin {"irqLow", "irqHigh"}

\* The bit is set and the edge is latched or about to be.
Announced == status = 1 /\ (irr \/ pc \in {"irqLow", "irqHigh"})

IInv == /\ IrqTypes
        /\ pc = "irqHigh" => line = 0
        /\ gpc = "process" => gval = 0
        /\ seen # used => BeforeStatus \/ Announced \/ WillProcess \/ erased

LEMMA InitInv == Init => IInv
BY ZenonT(60) DEF Init, IInv, IrqTypes

LEMMA NetStep == ASSUME IInv, NetThread PROVE IInv'
<1> USE DEF IInv, IrqTypes, WillProcess, BeforeStatus, Announced, Owes, IrqLine
<1>1. CASE Top
  BY <1>1, Zenon DEF Top, ringVars, irqVars, guestVars
<1>2. CASE TxTake
  BY <1>2, Zenon DEF TxTake, ringVars, irqVars, guestVars
<1>3. CASE TxUsed
  BY <1>3, Zenon DEF TxUsed, Publish, ringVars, irqVars, guestVars
<1>4. CASE TxDone
  BY <1>4, Zenon DEF TxDone, ringVars, irqVars, guestVars
<1>5. CASE SetStatus
  BY <1>5, Zenon DEF SetStatus, ringVars, irqVars, guestVars
<1>6. CASE LowerIrq
  BY <1>6 DEF LowerIrq, ringVars, irqVars, guestVars
<1>7. CASE RaiseIrq
  BY <1>7, Zenon DEF RaiseIrq, ringVars, irqVars, guestVars
<1>8. CASE RxTake
  BY <1>8, Zenon DEF RxTake, ringVars, irqVars, guestVars
<1>9. CASE RxUsed
  BY <1>9, Zenon DEF RxUsed, Publish, ringVars, irqVars, guestVars
<1>10. CASE RxDone
  BY <1>10, Zenon DEF RxDone, ringVars, irqVars, guestVars
<1>11. CASE End
  BY <1>11, Zenon DEF End, ringVars, irqVars, guestVars
<1> QED
  BY <1>1, <1>2, <1>3, <1>4, <1>5, <1>6, <1>7, <1>8, <1>9, <1>10, <1>11, Zenon DEF NetThread

\* The store of an acknowledgement may undo the net thread's "|=" (AckStore).
LEMMA HandlerStep == ASSUME IInv, Handler PROVE IInv'
<1> USE DEF IInv, IrqTypes, WillProcess, BeforeStatus, Announced, Owes, IrqLine
<1>1. CASE TakeIrq
  BY <1>1, Zenon DEF TakeIrq, ringVars, netVars
<1>2. CASE ReadStatus
  BY <1>2, Zenon DEF ReadStatus, ringVars, netVars, irqVars
<1>3. CASE AckLoad
  BY <1>3, Zenon DEF AckLoad, ringVars, netVars, irqVars
<1>4. CASE AckStore
  BY <1>4, Zenon DEF AckStore, ringVars, netVars
<1>5. CASE AckLower
  BY <1>5, Zenon DEF AckLower, ringVars, netVars
<1>6. CASE Process
  BY <1>6, Zenon DEF Process, netVars, irqVars
<1> QED
  BY <1>1, <1>2, <1>3, <1>4, <1>5, <1>6, Zenon DEF Handler

LEMMA OtherSteps == 
    ASSUME IInv,
           Notify \/ (\E q \in Queues : \E d \in Desc(q) : Post(q, d)) \/ Stop \/ Arrive
             \/ UNCHANGED vars
    PROVE  IInv'
<1> USE DEF IInv, IrqTypes, WillProcess, BeforeStatus, Announced, Owes
<1>1. CASE Notify
  BY <1>1, Zenon DEF Notify, ringVars, netVars, irqVars
<1>2. ASSUME NEW q \in Queues, NEW d \in Desc(q), Post(q, d) PROVE IInv'
  BY <1>2, Zenon DEF Post, netVars, irqVars
<1>3. CASE Stop \/ Arrive
  BY <1>3 DEF Stop, Arrive, ringVars, netVars, irqVars, guestVars
<1>4. CASE UNCHANGED vars
  BY <1>4, Zenon DEF vars, ringVars, netVars, irqVars, guestVars
<1> QED
  BY <1>1, <1>2, <1>3, <1>4, Zenon

LEMMA NextInv == ASSUME IInv, [Next]_vars PROVE IInv'
BY NetStep, HandlerStep, OtherSteps, Zenon DEF Next

\* A used buffer the guest has not taken back has its interrupt owed, pending
\* or being handled, or its bit undone by the acknowledgement of a spurious
\* interrupt: net_thread_func and the INTERRUPT_ACK exit together lose no
\* completion in any other way, for every ring size.
THEOREM NoCompletionStranded == Spec => []NoStrandedCompletion
<1>1. IInv => NoStrandedCompletion
  BY DEF IInv, IrqTypes, WillProcess, BeforeStatus, Announced, Owes, NoStrandedCompletion
<1>2. IInv /\ [Next]_vars => IInv'
  BY NextInv
<1> QED
  BY <1>1, <1>2, InitInv, PTL DEF Spec
=============================================================================
