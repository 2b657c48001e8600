--------------------------- MODULE FlashStoreProofs ---------------------------
(***************************************************************************)
(* What the saved pages hold, for every number of presets and every value   *)
(* of the data words, if saves come from the shell thread only.  A save of  *)
(* the sweep thread may be preempted by changes of the image it is writing, *)
(* and then the properties fail: see CalibrationSaved.                      *)
(***************************************************************************)
EXTENDS FlashStore, FiniteSetTheorems, SequenceTheorems, TLAPS

\* The images a save of an area may store, without their checksums.
Bodies(area) == IF area = ConfigArea THEN {<<Magic, Word(d), Fixed>> : d \in Data}
                                     ELSE {<<Magic, Word(d)>> : d \in Data}

Images == {Nothing, <<Magic>>} \cup UNION {Bodies(area) : area \in Areas}
Jobs == [area : Areas \cup {AllAreas}, page : Nat, word : Nat, image : Images]

\* What the variables are.  The values in RAM are among those a save may store:
\* a recall takes no erased or torn word for data (flash.c:111-132, 210-235).
RamTyped == config \in Data /\ setting \in Data
FlashTyped == flash = [a \in Addresses |-> flash[a]]
SumsTyped == sums = [f \in {"config", "setting"} |-> sums[f]]
HistoryTyped == /\ saved \in [Areas -> Images]
                /\ tried = [a \in Areas |-> tried[a]]
                /\ \A area \in Areas : tried[area] \subseteq Bodies(area)
TypeOK == /\ RamTyped /\ FlashTyped /\ SumsTyped /\ HistoryTyped
          /\ job \in [Threads -> Jobs]

SumAddress(area) == Address(area, ImageWords(area))

\* A checksum in an image of the flash is that of a save in tried, whatever
\* became of the words it covers.
SumsTried(image) ==
  \A area \in Areas :
    \/ image[SumAddress(area)] \in {Erased, Torn}
    \/ \E body \in tried[area] : image[SumAddress(area)] = Checksum(body)

\* SavedLasts of an image of the flash
SavedIn(image) ==
  \A area \in Areas :
    saved[area] # Nothing => Valid(image, area) /\ StoredBody(image, area) = saved[area]

\* How far the save of the shell is: its pages are erased up to the current
\* one, and then its words are those of RAM up to the current one.
Written(area) ==
  \A i \in 1..ImageWords(area) :
    LET a == Address(area, i)
    IN IF i < job["shell"].word THEN flash[a] = RamImage(area)[i]
       ELSE a \div PageWords < job["shell"].page => flash[a] = Erased

Saving(area) ==
  LET j == job["shell"]
  IN /\ j.area = area /\ j.image = Body(area)
     /\ j.page \in FirstPage(area)..(LastPage(area) + 1)
     /\ j.word \in 1..(ImageWords(area) + 1)
     /\ j.page <= LastPage(area) => j.word = 1
     /\ sums[Field(area)] = Checksum(Body(area))
     /\ Body(area) \in tried[area] /\ saved[area] = Nothing
     /\ Written(area)

Clearing == /\ job["shell"].area = AllAreas /\ job["shell"].word = 1
            /\ \A area \in Areas : saved[area] = Nothing

Progress == \/ job["shell"] = Idle
            \/ Clearing
            \/ \E area \in Areas : Saving(area)

FlashInv == TypeOK /\ Progress /\ SumsTried(flash) /\ SavedIn(flash)

-----------------------------------------------------------------------------
(* Areas and addresses. *)

\* The configuration comes first, then one page for each preset.
LEMMA AreaShape ==
  ASSUME NEW area \in Areas
  PROVE  /\ \/ /\ area = ConfigArea /\ ImageWords(area) = 4
               /\ FirstPage(area) = 0 /\ LastPage(area) = 1
            \/ /\ area # ConfigArea /\ area \in 0..(SaveAreaMax - 1) /\ ImageWords(area) = 3
               /\ FirstPage(area) = 2 + area /\ LastPage(area) = 2 + area
         /\ area # AllAreas /\ area \in Int
  <1>1. SaveAreaMax \in Nat BY FlashAssumption
  <1>2. CASE area = ConfigArea
    BY <1>1, <1>2 DEF ConfigArea, AllAreas, Presets, ImageWords, FirstPage, LastPage
  <1>3. CASE area \in Presets
    BY <1>1, <1>3 DEF ConfigArea, AllAreas, Presets, ImageWords, FirstPage, LastPage
  <1> QED BY <1>2, <1>3 DEF Areas

\* The addresses are those of the configuration and all presets.
LEMMA AddressRange == SaveAreaMax \in Nat /\ Addresses = 0..(3 * (SaveAreaMax + 2) - 1)
  <1>1. SaveAreaMax \in Nat BY FlashAssumption
  <1>2. Cardinality(Pages) = SaveAreaMax + 2 BY <1>1, FS_Interval DEF Pages
  <1> QED BY <1>1, <1>2 DEF Addresses, PageWords

\* The words of an area lie on its pages.
LEMMA AddressFacts ==
  ASSUME NEW area \in Areas, NEW i \in 1..ImageWords(area)
  PROVE  /\ Address(area, i) \in Addresses
         /\ Address(area, i) \div PageWords \in FirstPage(area)..LastPage(area)
         /\ i = 1 => Address(area, i) \div PageWords = FirstPage(area)
  <1>1. Address(area, i) = 3 * FirstPage(area) + i - 1 BY DEF Address, PageWords
  <1> QED BY <1>1, AreaShape, AddressRange DEF PageWords

\* No two areas share a page.
LEMMA AreasApart ==
  ASSUME NEW area \in Areas, NEW other \in Areas, area # other,
         NEW page \in FirstPage(area)..LastPage(area), NEW i \in 1..ImageWords(other)
  PROVE  Address(other, i) \div PageWords # page
  <1>1. Address(other, i) \div PageWords \in FirstPage(other)..LastPage(other)
    BY AddressFacts
  <1> QED BY <1>1, AreaShape

\* No two words of the areas have one address.
LEMMA WordsApart ==
  ASSUME NEW area \in Areas, NEW i \in 1..ImageWords(area),
         NEW other \in Areas, NEW k \in 1..ImageWords(other),
         Address(area, i) = Address(other, k)
  PROVE  area = other /\ i = k
  <1>1. area = other
    <2>1. Address(area, i) \div PageWords \in FirstPage(area)..LastPage(area)
      BY AddressFacts
    <2> QED BY <2>1, AreasApart
  <1>2. /\ Address(area, i) = 3 * FirstPage(area) + i - 1
        /\ Address(other, k) = 3 * FirstPage(other) + k - 1
    BY DEF Address, PageWords
  <1> QED BY <1>1, <1>2, AreaShape

-----------------------------------------------------------------------------
(* Images. *)

\* The words of an area in the flash.
LEMMA StoredWords ==
  ASSUME NEW image, NEW area \in Areas
  PROVE  LET n == ImageWords(area)
         IN /\ n \in Nat /\ n >= 3
            /\ \A i \in 1..n : Stored(image, area)[i] = image[Address(area, i)]
            /\ StoredSum(image, area) = image[SumAddress(area)]
            /\ StoredBody(image, area) = [i \in 1..(n - 1) |-> image[Address(area, i)]]
  <1> DEFINE n == ImageWords(area)
             s == Stored(image, area)
             W == {image[Address(area, i)] : i \in 1..n}
  <1>1. n \in Nat /\ n >= 3 BY AreaShape
  <1>2. s = [i \in 1..n |-> image[Address(area, i)]] BY DEF Stored
  <1>3. s \in [1..n -> W] BY <1>2
  <1> HIDE DEF W, s, n
  <1>4. s \in Seq(W) /\ Len(s) = n
    <2>1. s \in Seq(W) BY <1>1, <1>3, SeqDef
    <2> QED BY <1>1, <1>3, <2>1, LenProperties
  <1>5. StoredSum(image, area) = image[SumAddress(area)]
    BY <1>1, <1>2, <1>4 DEF StoredSum, Last, SumAddress, n, s
  <1>6. StoredBody(image, area) = [i \in 1..(n - 1) |-> image[Address(area, i)]]
    <2>1. StoredBody(image, area) = SubSeq(s, 1, n - 1)
      BY <1>4 DEF StoredBody, Front, s
    <2>2. SubSeq(s, 1, n - 1) = [i \in 1..(n - 1) |-> s[i]]
      BY <1>1, <1>4, SubSeqProperties
    <2> QED BY <1>1, <1>2, <2>1, <2>2
  <1> QED BY <1>1, <1>2, <1>5, <1>6 DEF n, s

\* The words of RAM that a save programs.
LEMMA RamWords ==
  ASSUME NEW area \in Areas
  PROVE  LET n == ImageWords(area)
         IN /\ Body(area) = [i \in 1..(n - 1) |-> RamImage(area)[i]]
            /\ RamImage(area)[n] = sums[Field(area)]
            /\ RamImage(area)[1] = Magic
  <1> DEFINE n == ImageWords(area)
             body == Body(area)
             sum == sums[Field(area)]
             W == {Magic, Word(config), Word(setting), Fixed, sum}
  <1>1. n \in Nat /\ n >= 3 BY AreaShape
  <1>2. body \in Seq(W) /\ Len(body) = n - 1
    <2>1. CASE area = ConfigArea BY <2>1, AreaShape DEF Body
    <2>2. CASE area # ConfigArea BY <2>2, AreaShape DEF Body
    <2> QED BY <2>1, <2>2
  <1>3. body[1] = Magic BY DEF Body
  <1>4. sum \in W OBVIOUS
  <1>5. RamImage(area) = Append(body, sum) BY DEF RamImage
  <1> HIDE DEF n, body, sum, W
  <1>6. /\ \A i \in 1..(n - 1) : RamImage(area)[i] = body[i]
        /\ RamImage(area)[(n - 1) + 1] = sum
    BY <1>2, <1>4, <1>5, AppendProperties
  <1>7. body = [i \in 1..(n - 1) |-> body[i]] BY <1>2, LenProperties
  <1>8. body = [i \in 1..(n - 1) |-> RamImage(area)[i]] BY <1>6, <1>7
  <1>9. RamImage(area)[n] = sum /\ RamImage(area)[1] = Magic
    <2>1. (n - 1) + 1 = n /\ 1 \in 1..(n - 1) BY <1>1
    <2> QED BY <1>3, <1>6, <2>1
  <1> QED BY <1>8, <1>9 DEF n, body, sum

\* A whole image, programmed with its own checksum, is accepted.
LEMMA WholeImage ==
  ASSUME NEW image, NEW area \in Areas, sums[Field(area)] = Checksum(Body(area)),
         \A i \in 1..ImageWords(area) : image[Address(area, i)] = RamImage(area)[i]
  PROVE  /\ Valid(image, area) /\ StoredBody(image, area) = Body(area)
         /\ image[SumAddress(area)] = Checksum(Body(area))
  <1> DEFINE n == ImageWords(area)
  <1>1. n \in Nat /\ n >= 3 BY AreaShape
  <1>2. 1 \in 1..n /\ n \in 1..n BY <1>1
  <1>3. image[SumAddress(area)] = Checksum(Body(area))
    BY <1>2, RamWords DEF SumAddress
  <1>4. StoredBody(image, area) = Body(area) BY <1>1, StoredWords, RamWords
  <1>5. Stored(image, area)[1] = Magic BY <1>2, StoredWords, RamWords
  <1>6. StoredSum(image, area) = Checksum(Body(area)) BY <1>3, StoredWords
  <1> QED BY <1>3, <1>4, <1>5, <1>6 DEF Valid

\* Marks, data words and checksums differ, and so do the checksums of different images.
LEMMA WordsDiffer ==
  /\ Erased # Torn /\ Erased # Magic /\ Torn # Magic
  /\ \A b : Checksum(b) \notin {Erased, Torn, Magic}
  /\ \A b, c : Checksum(b) = Checksum(c) => b = c
  BY DEF Erased, Torn, Magic, Checksum

\* An area that is accepted holds the image of a save in tried: a checksum
\* belongs to one image only.
LEMMA TriedAccepted ==
  ASSUME NEW image, NEW area \in Areas, SumsTried(image), Valid(image, area)
  PROVE  StoredBody(image, area) \in tried[area]
  <1>1. image[SumAddress(area)] = Checksum(StoredBody(image, area))
    BY StoredWords DEF Valid
  <1> QED BY <1>1, WordsDiffer DEF SumsTried

\* The data word of an accepted area is one a save stored.
LEMMA AcceptedData ==
  ASSUME NEW image, NEW area \in Areas, HistoryTyped, SumsTried(image), Valid(image, area)
  PROVE  StoredData(image, area) \in Data
  <1>1. StoredBody(image, area) \in Bodies(area) BY TriedAccepted DEF HistoryTyped
  <1>2. PICK d \in Data : StoredBody(image, area)[2] = Word(d) BY <1>1 DEF Bodies
  <1>3. Stored(image, area)[2] = StoredBody(image, area)[2]
    BY StoredWords
  <1> QED BY <1>2, <1>3 DEF StoredData, Word

\* What a recall sees of an area depends on the words of the area only.
LEMMA SameWords ==
  ASSUME NEW image, NEW other, NEW area \in Areas,
         \A i \in 1..ImageWords(area) : image[Address(area, i)] = other[Address(area, i)]
  PROVE  /\ Valid(image, area) <=> Valid(other, area)
         /\ StoredBody(image, area) = StoredBody(other, area)
  <1>1. Stored(image, area) = Stored(other, area) BY DEF Stored
  <1> QED BY <1>1 DEF Valid, StoredBody, StoredSum

\* Words that are erased or torn make no checksum.
LEMMA SumsStay ==
  ASSUME NEW image, SumsTried(flash),
         \A a \in Addresses : image[a] = flash[a] \/ image[a] \in {Erased, Torn}
  PROVE  SumsTried(image)
  <1> SUFFICES ASSUME NEW area \in Areas
               PROVE  \/ image[SumAddress(area)] \in {Erased, Torn}
                      \/ \E body \in tried[area] : image[SumAddress(area)] = Checksum(body)
    BY DEF SumsTried
  <1>1. ImageWords(area) \in 1..ImageWords(area) BY AreaShape
  <1>2. SumAddress(area) \in Addresses BY <1>1, AddressFacts DEF SumAddress
  <1> QED BY <1>2 DEF SumsTried

\* What no job touches stays saved.
LEMMA SavedStay ==
  ASSUME NEW image, SavedIn(flash),
         \A area \in Areas : saved[area] # Nothing =>
           \A i \in 1..ImageWords(area) : image[Address(area, i)] = flash[Address(area, i)]
  PROVE  SavedIn(image)
  <1> SUFFICES ASSUME NEW area \in Areas, saved[area] # Nothing
               PROVE  Valid(image, area) /\ StoredBody(image, area) = saved[area]
    BY DEF SavedIn
  <1>1. \A i \in 1..ImageWords(area) : image[Address(area, i)] = flash[Address(area, i)]
    OBVIOUS
  <1>2. /\ Valid(image, area) <=> Valid(flash, area)
        /\ StoredBody(image, area) = StoredBody(flash, area)
    BY <1>1, SameWords
  <1> QED BY <1>2 DEF SavedIn

\* An image of RAM is one a save may store.
LEMMA BodyStorable ==
  ASSUME RamTyped, NEW area \in Areas
  PROVE  Body(area) \in Bodies(area) /\ Body(area) # Nothing
         /\ Body(area) \in Images /\ Nothing \in Images /\ <<Magic>> \in Images
  <1>1. Body(area) \in Bodies(area) BY DEF RamTyped, Body, Bodies
  <1>2. Body(area) # Nothing BY DEF Body, Nothing
  <1> QED BY <1>1, <1>2 DEF Images

-----------------------------------------------------------------------------
(* The steps, with saves from the shell only. *)

OnlyShellSaves == Threads = {"shell"}

\* The flash is erased and nothing was saved.
LEMMA InitFlash == ASSUME OnlyShellSaves, Init PROVE FlashInv
  <1> USE DEF OnlyShellSaves
  <1>1. /\ flash = [a \in Addresses |-> Erased]
        /\ config = Default /\ setting = Default
        /\ sums = [f \in {"config", "setting"} |-> NoSum]
        /\ job = [t \in Threads |-> Idle]
        /\ saved = [a \in Areas |-> Nothing] /\ tried = [a \in Areas |-> {}]
    BY DEF Init
  <1>2. TypeOK
    <2>1. RamTyped BY <1>1, FlashAssumption DEF RamTyped
    <2>2. FlashTyped BY <1>1 DEF FlashTyped
    <2>3. SumsTyped BY <1>1 DEF SumsTyped
    <2>4. HistoryTyped BY <1>1 DEF HistoryTyped, Images
    <2>5. Idle \in Jobs BY DEF Idle, Jobs, Images, Nothing
    <2>6. job \in [Threads -> Jobs] BY <1>1, <2>5
    <2> QED BY <2>1, <2>2, <2>3, <2>4, <2>6 DEF TypeOK
  <1>3. Progress BY <1>1 DEF Progress
  <1>4. SumsTried(flash)
    <2> SUFFICES ASSUME NEW area \in Areas PROVE flash[SumAddress(area)] = Erased
      BY DEF SumsTried
    <2>1. ImageWords(area) \in 1..ImageWords(area) BY AreaShape
    <2>2. SumAddress(area) \in Addresses BY <2>1, AddressFacts DEF SumAddress
    <2> QED BY <1>1, <2>2
  <1>5. SavedIn(flash) BY <1>1 DEF SavedIn
  <1> QED BY <1>2, <1>3, <1>4, <1>5 DEF FlashInv

\* A save begins with its pages not yet erased and its checksum up to date.
LEMMA BeginSaveKeeps ==
  ASSUME OnlyShellSaves, FlashInv, NEW area \in Areas, BeginSave("shell", area)
  PROVE  FlashInv'
  <1> USE DEF OnlyShellSaves
  <1> DEFINE j == [area |-> area, page |-> FirstPage(area), word |-> 1, image |-> Body(area)]
  <1>1. TypeOK /\ SumsTried(flash) /\ SavedIn(flash) BY DEF FlashInv
  <1>2. /\ sums' = [sums EXCEPT ![Field(area)] = Checksum(Body(area))]
        /\ job' = [u \in Threads |-> IF u = "shell" THEN j ELSE job'[u]]
        /\ saved' = [saved EXCEPT ![area] = Nothing]
        /\ tried' = [tried EXCEPT ![area] = @ \cup {Body(area)}]
        /\ flash' = flash /\ config' = config /\ setting' = setting
    BY DEF BeginSave
  <1>3. /\ Body(area) \in Bodies(area) /\ Body(area) \in Images /\ Nothing \in Images
    BY <1>1, BodyStorable DEF TypeOK
  <1>4. job'["shell"] = j /\ j \in Jobs
    <2>1. job'["shell"] = j BY <1>2
    <2>2. FirstPage(area) \in Nat BY AreaShape, FlashAssumption
    <2> QED BY <1>3, <2>1, <2>2 DEF Jobs
  <1>5. TypeOK'
    <2>1. RamTyped' /\ FlashTyped' BY <1>1, <1>2 DEF TypeOK, RamTyped, FlashTyped
    <2>2. SumsTyped' BY <1>1, <1>2 DEF TypeOK, SumsTyped
    <2>3. HistoryTyped' BY <1>1, <1>2, <1>3 DEF TypeOK, HistoryTyped
    <2>4. job' \in [Threads -> Jobs] BY <1>2, <1>4
    <2> QED BY <2>1, <2>2, <2>3, <2>4 DEF TypeOK
  <1>6. Saving(area)'
    <2>1. Body(area)' = Body(area) BY <1>2 DEF Body
    <2>2. sums'[Field(area)] = Checksum(Body(area))
      <3>1. Field(area) \in {"config", "setting"} BY DEF Field
      <3> QED BY <1>1, <1>2, <3>1 DEF TypeOK, SumsTyped
    <2>3. Body(area) \in tried'[area] /\ saved'[area] = Nothing
      BY <1>1, <1>2 DEF TypeOK, HistoryTyped
    <2>4. Written(area)'
      <3>1. job'["shell"].word = 1 /\ job'["shell"].page = FirstPage(area) BY <1>4
      <3>2. \A i \in 1..ImageWords(area) :
              ~(i < 1) /\ ~(Address(area, i) \div PageWords < FirstPage(area))
        BY AddressFacts, AreaShape
      <3> QED BY <3>1, <3>2 DEF Written
    <2>5. /\ FirstPage(area) \in FirstPage(area)..(LastPage(area) + 1)
          /\ 1 \in 1..(ImageWords(area) + 1)
      BY AreaShape
    <2> QED BY <1>4, <2>1, <2>2, <2>3, <2>4, <2>5 DEF Saving
  <1>7. Progress' BY <1>6 DEF Progress
  <1>8. SumsTried(flash)'
    <2>1. \A b \in Areas : tried[b] \subseteq tried'[b] BY <1>1, <1>2 DEF TypeOK, HistoryTyped
    <2> QED BY <1>1, <1>2, <2>1 DEF SumsTried
  <1>9. SavedIn(flash)'
    <2>1. \A b \in Areas : saved'[b] # Nothing => saved'[b] = saved[b]
      BY <1>1, <1>2 DEF TypeOK, HistoryTyped
    <2> QED BY <1>1, <1>2, <2>1 DEF SavedIn
  <1> QED BY <1>5, <1>7, <1>8, <1>9 DEF FlashInv

\* A clear forgets what was saved before it erases the first page.
LEMMA BeginClearKeeps ==
  ASSUME OnlyShellSaves, FlashInv, BeginClear
  PROVE  FlashInv'
  <1> USE DEF OnlyShellSaves
  <1> DEFINE j == [area |-> AllAreas, page |-> 0, word |-> 1, image |-> <<Magic>>]
  <1>1. TypeOK /\ SumsTried(flash) BY DEF FlashInv
  <1>2. /\ job' = [job EXCEPT !["shell"] = j]
        /\ saved' = [a \in Areas |-> Nothing]
        /\ flash' = flash /\ config' = config /\ setting' = setting
        /\ sums' = sums /\ tried' = tried
    BY DEF BeginClear
  <1>3. job'["shell"] = j /\ j \in Jobs BY <1>1, <1>2 DEF TypeOK, Jobs, Images
  <1>4. TypeOK'
    <2>1. RamTyped' /\ FlashTyped' /\ SumsTyped'
      BY <1>1, <1>2 DEF TypeOK, RamTyped, FlashTyped, SumsTyped
    <2>2. HistoryTyped' BY <1>1, <1>2 DEF TypeOK, HistoryTyped, Images
    <2>3. job' \in [Threads -> Jobs] BY <1>1, <1>2, <1>3 DEF TypeOK
    <2> QED BY <2>1, <2>2, <2>3 DEF TypeOK
  <1>5. Progress' BY <1>2, <1>3 DEF Progress, Clearing
  <1>6. SumsTried(flash)' BY <1>1, <1>2 DEF SumsTried
  <1>7. SavedIn(flash)' BY <1>2 DEF SavedIn
  <1> QED BY <1>4, <1>5, <1>6, <1>7 DEF FlashInv

\* A job is a clear or the save of one area.
LEMMA JobKinds ==
  ASSUME FlashInv, job["shell"] # Idle
  PROVE  Clearing \/ \E area \in Areas : Saving(area)
  BY DEF FlashInv, Progress

\* An erased page is the area's own: nothing saved elsewhere is lost.
LEMMA EraseKeeps ==
  ASSUME OnlyShellSaves, FlashInv, Erase("shell")
  PROVE  FlashInv'
  <1> USE DEF OnlyShellSaves
  <1> DEFINE j == job["shell"]
             p == j.page
  <1>1. TypeOK /\ SumsTried(flash) /\ SavedIn(flash) BY DEF FlashInv
  <1>2. /\ flash' = [a \in Addresses |-> IF a \in WordsOf(p) THEN Erased ELSE flash[a]]
        /\ job' = [job EXCEPT !["shell"].page = @ + 1]
        /\ config' = config /\ setting' = setting /\ sums' = sums
        /\ saved' = saved /\ tried' = tried
        /\ j # Idle /\ p <= LastPage(j.area)
    BY DEF Erase, Erasing
  <1>3. j \in Jobs BY <1>1 DEF TypeOK
  <1>4. job'["shell"] = [j EXCEPT !.page = p + 1] /\ job' \in [Threads -> Jobs]
    BY <1>1, <1>2, <1>3 DEF TypeOK, Jobs
  <1>5. /\ job'["shell"].area = j.area /\ job'["shell"].word = j.word
        /\ job'["shell"].page = p + 1 /\ job'["shell"].image = j.image
    BY <1>3, <1>4 DEF Jobs
  <1>6. TypeOK'
    <2>1. RamTyped' /\ FlashTyped' /\ SumsTyped'
      BY <1>1, <1>2 DEF TypeOK, RamTyped, FlashTyped, SumsTyped
    <2>2. HistoryTyped' BY <1>1, <1>2 DEF TypeOK, HistoryTyped
    <2> QED BY <1>4, <2>1, <2>2 DEF TypeOK
  <1>7. SumsTried(flash)'
    <2>1. \A a \in Addresses : flash'[a] = flash[a] \/ flash'[a] \in {Erased, Torn} BY <1>2
    <2>2. SumsTried(flash') BY <1>1, <2>1, SumsStay
    <2> QED BY <1>2, <2>2 DEF SumsTried
  <1>8. CASE Clearing
    <2>1. Progress' BY <1>2, <1>5, <1>8 DEF Progress, Clearing
    <2>2. SavedIn(flash)' BY <1>2, <1>8 DEF SavedIn, Clearing
    <2> QED BY <1>6, <1>7, <2>1, <2>2 DEF FlashInv
  <1>9. ASSUME NEW area \in Areas, Saving(area) PROVE FlashInv'
    <2>1. /\ j.area = area /\ p \in FirstPage(area)..LastPage(area)
          /\ j.word = 1 /\ p \in Int
      BY <1>2, <1>9, AreaShape DEF Saving
    <2>2. Body(area)' = Body(area) BY <1>2 DEF Body
    <2>3. Written(area)'
      <3> SUFFICES ASSUME NEW i \in 1..ImageWords(area),
                          Address(area, i) \div PageWords < p + 1
                   PROVE  flash'[Address(area, i)] = Erased
        BY <1>5, <2>1, AreaShape DEF Written
      <3> DEFINE a == Address(area, i)
      <3>1. a \in Addresses /\ a \div PageWords \in Int BY AddressFacts, AreaShape
      <3>2. CASE a \div PageWords = p BY <1>2, <3>1, <3>2 DEF WordsOf
      <3>3. CASE a \div PageWords < p
        <4>1. flash[a] = Erased BY <1>9, <2>1, <3>3, AreaShape DEF Saving, Written
        <4> QED BY <1>2, <3>1, <4>1
      <3> QED BY <2>1, <3>1, <3>2, <3>3
    <2>4. Saving(area)'
      <3>1. /\ sums'[Field(area)] = Checksum(Body(area))
            /\ Body(area) \in tried'[area] /\ saved'[area] = Nothing /\ j.image = Body(area)
        BY <1>2, <1>9 DEF Saving
      <3>2. /\ p + 1 \in FirstPage(area)..(LastPage(area) + 1)
            /\ 1 \in 1..(ImageWords(area) + 1)
        BY <2>1, AreaShape
      <3> QED BY <1>5, <2>1, <2>2, <2>3, <3>1, <3>2 DEF Saving
    <2>5. Progress' BY <2>4 DEF Progress
    <2>6. SavedIn(flash)'
      <3>1. ASSUME NEW b \in Areas, saved[b] # Nothing, NEW i \in 1..ImageWords(b)
            PROVE  flash'[Address(b, i)] = flash[Address(b, i)]
        <4>1. b # area BY <1>9, <3>1 DEF Saving
        <4>2. Address(b, i) \in Addresses /\ Address(b, i) \notin WordsOf(p)
          BY <2>1, <4>1, AddressFacts, AreasApart DEF WordsOf
        <4> QED BY <1>2, <4>2
      <3>2. SavedIn(flash') BY <1>1, <3>1, SavedStay
      <3> QED BY <1>2, <3>2 DEF SavedIn
    <2> QED BY <1>6, <1>7, <2>5, <2>6 DEF FlashInv
  <1> QED BY <1>2, <1>8, <1>9, JobKinds

\* A word is programmed where it is erased, with what RAM holds; the last one
\* is the checksum of an image in tried.
LEMMA ProgramKeeps ==
  ASSUME OnlyShellSaves, FlashInv, Program("shell")
  PROVE  FlashInv'
  <1> USE DEF OnlyShellSaves
  <1> DEFINE j == job["shell"]
             k == j.word
  <1>1. TypeOK /\ SumsTried(flash) /\ SavedIn(flash) BY DEF FlashInv
  <1>2. /\ flash' = [flash EXCEPT ![Address(j.area, k)] =
                        IF @ = Erased THEN RamImage(j.area)[k] ELSE @]
        /\ job' = [job EXCEPT !["shell"].word = @ + 1]
        /\ config' = config /\ setting' = setting /\ sums' = sums
        /\ saved' = saved /\ tried' = tried
        /\ j # Idle /\ j.page > LastPage(j.area) /\ k <= ImageWords(j.area)
    BY DEF Program, Programming
  <1>3. ~Clearing
    <2>1. ImageWords(AllAreas) = 0 BY DEF ImageWords, AllAreas, ConfigArea
    <2> QED BY <1>2, <2>1 DEF Clearing
  <1>4. PICK area \in Areas : Saving(area) BY <1>2, <1>3, JobKinds
  <1>5. j \in Jobs BY <1>1 DEF TypeOK
  <1>6. job'["shell"] = [j EXCEPT !.word = k + 1] /\ job' \in [Threads -> Jobs]
    BY <1>1, <1>2, <1>5 DEF TypeOK, Jobs
  <1>7. /\ job'["shell"].area = j.area /\ job'["shell"].word = k + 1
        /\ job'["shell"].page = j.page /\ job'["shell"].image = j.image
    BY <1>5, <1>6 DEF Jobs
  <1>8. /\ j.area = area /\ j.page = LastPage(area) + 1 /\ j.page \in Int
        /\ k \in 1..ImageWords(area) /\ k \in Int
    BY <1>2, <1>4, AreaShape DEF Saving
  <1> DEFINE a == Address(area, k)
             word == RamImage(area)[k]
  <1>9. flash[a] = Erased
    <2>1. a \div PageWords < j.page BY <1>8, AddressFacts, AreaShape
    <2> QED BY <1>4, <1>8, <2>1 DEF Saving, Written
  <1>10. a \in Addresses BY <1>8, AddressFacts
  <1>11. flash' = [flash EXCEPT ![a] = word] BY <1>2, <1>8, <1>9
  <1>12. /\ flash' = [b \in Addresses |-> flash'[b]] /\ flash'[a] = word
         /\ \A b \in Addresses : b # a => flash'[b] = flash[b]
    <2>1. flash = [b \in Addresses |-> flash[b]] BY <1>1 DEF TypeOK, FlashTyped
    <2> HIDE DEF a, word
    <2> QED BY <1>10, <1>11, <2>1
  <1>13. \A b \in Areas : \A i \in 1..ImageWords(b) :
           b # area \/ i # k => flash'[Address(b, i)] = flash[Address(b, i)]
    BY <1>8, <1>12, AddressFacts, WordsApart
  <1>14. TypeOK'
    <2>1. RamTyped' /\ FlashTyped' /\ SumsTyped'
      BY <1>1, <1>2, <1>12 DEF TypeOK, RamTyped, FlashTyped, SumsTyped
    <2>2. HistoryTyped' BY <1>1, <1>2 DEF TypeOK, HistoryTyped
    <2> QED BY <1>6, <2>1, <2>2 DEF TypeOK
  <1>15. Body(area)' = Body(area) /\ RamImage(area)' = RamImage(area)
    BY <1>2 DEF Body, RamImage
  <1>16. Written(area)'
    <2> SUFFICES ASSUME NEW i \in 1..ImageWords(area)
                 PROVE  IF i < k + 1 THEN flash'[Address(area, i)] = RamImage(area)[i]
                        ELSE Address(area, i) \div PageWords < j.page =>
                               flash'[Address(area, i)] = Erased
      BY <1>7, <1>15 DEF Written
    <2>1. IF i < k THEN flash[Address(area, i)] = RamImage(area)[i]
          ELSE Address(area, i) \div PageWords < j.page => flash[Address(area, i)] = Erased
      BY <1>4 DEF Saving, Written
    <2>2. CASE i = k BY <1>8, <1>12, <2>2
    <2>3. CASE i # k
      <3>1. flash'[Address(area, i)] = flash[Address(area, i)] BY <1>13, <2>3
      <3>2. i < k + 1 <=> i < k BY <1>8, <2>3
      <3> QED BY <2>1, <3>1, <3>2
    <2> QED BY <2>2, <2>3
  <1>17. Saving(area)'
    <2>1. /\ sums'[Field(area)] = Checksum(Body(area))
          /\ Body(area) \in tried'[area] /\ saved'[area] = Nothing /\ j.image = Body(area)
      BY <1>2, <1>4 DEF Saving
    <2>2. /\ j.page \in FirstPage(area)..(LastPage(area) + 1)
          /\ k + 1 \in 1..(ImageWords(area) + 1) /\ ~(j.page <= LastPage(area))
      BY <1>8, AreaShape
    <2> QED BY <1>7, <1>8, <1>15, <1>16, <2>1, <2>2 DEF Saving
  <1>18. Progress' BY <1>17 DEF Progress
  <1>19. SumsTried(flash)'
    <2> SUFFICES ASSUME NEW b \in Areas
                 PROVE  \/ flash'[SumAddress(b)] \in {Erased, Torn}
                        \/ \E body \in tried[b] : flash'[SumAddress(b)] = Checksum(body)
      BY <1>2 DEF SumsTried
    <2>1. ImageWords(b) \in 1..ImageWords(b) BY AreaShape
    <2>2. CASE b = area /\ ImageWords(b) = k
      <3>1. flash'[SumAddress(b)] = sums[Field(area)]
        BY <1>12, <2>2, RamWords DEF SumAddress
      <3> QED BY <1>4, <2>2, <3>1 DEF Saving
    <2>3. CASE ~(b = area /\ ImageWords(b) = k)
      <3>1. flash'[SumAddress(b)] = flash[SumAddress(b)]
        BY <1>13, <2>1, <2>3 DEF SumAddress
      <3> QED BY <1>1, <3>1 DEF SumsTried
    <2> QED BY <2>2, <2>3
  <1>20. SavedIn(flash)'
    <2>1. \A b \in Areas : saved[b] # Nothing =>
             \A i \in 1..ImageWords(b) : flash'[Address(b, i)] = flash[Address(b, i)]
      BY <1>4, <1>13 DEF Saving
    <2>2. SavedIn(flash') BY <1>1, <2>1, SavedStay
    <2> QED BY <1>2, <2>2 DEF SavedIn
  <1> QED BY <1>14, <1>18, <1>19, <1>20 DEF FlashInv

\* What ends is a whole image, with its checksum.
LEMMA EndJobKeeps ==
  ASSUME OnlyShellSaves, FlashInv, EndJob("shell")
  PROVE  FlashInv'
  <1> USE DEF OnlyShellSaves
  <1> DEFINE j == job["shell"]
  <1>1. TypeOK /\ SumsTried(flash) /\ SavedIn(flash) BY DEF FlashInv
  <1>2. /\ job' = [job EXCEPT !["shell"] = Idle]
        /\ flash' = flash /\ config' = config /\ setting' = setting /\ sums' = sums
        /\ j # Idle /\ ~Erasing("shell") /\ ~Programming("shell")
    BY DEF EndJob
  <1>3. job'["shell"] = Idle /\ job' \in [Threads -> Jobs]
    BY <1>1, <1>2 DEF TypeOK, Jobs, Idle, Images, Nothing
  <1>4. Progress' BY <1>3 DEF Progress
  <1>5. RamTyped' /\ FlashTyped' /\ SumsTyped'
    BY <1>1, <1>2 DEF TypeOK, RamTyped, FlashTyped, SumsTyped
  <1>6. CASE Clearing
    <2>1. saved' = saved /\ tried' = tried BY <1>6 DEF Clearing, EndJob
    <2>2. HistoryTyped' BY <1>1, <2>1 DEF TypeOK, HistoryTyped
    <2>3. SumsTried(flash)' /\ SavedIn(flash)'
      BY <1>1, <1>2, <2>1 DEF SumsTried, SavedIn
    <2> QED BY <1>3, <1>4, <1>5, <2>2, <2>3 DEF FlashInv, TypeOK
  <1>7. ASSUME NEW area \in Areas, Saving(area) PROVE FlashInv'
    <2>1. /\ Body(area) \in Bodies(area) /\ Body(area) # Nothing /\ Body(area) \in Images
      BY <1>1, BodyStorable DEF TypeOK
    <2>2. j.area = area /\ j.image = Body(area) /\ area # AllAreas
      BY <1>7, AreaShape DEF Saving
    <2>3. /\ saved' = [saved EXCEPT ![area] = Body(area)]
          /\ tried' = [tried EXCEPT ![area] = {Body(area)}]
      BY <2>1, <2>2 DEF EndJob
    <2>4. HistoryTyped' BY <1>1, <2>1, <2>3 DEF TypeOK, HistoryTyped
    <2>5. \A i \in 1..ImageWords(area) : flash[Address(area, i)] = RamImage(area)[i]
      <3>1. MayRun("shell") BY DEF MayRun
      <3>2. ~(j.page <= LastPage(area)) BY <1>2, <2>2, <3>1 DEF Erasing
      <3>3. j.page > LastPage(area) BY <1>7, <3>2, AreaShape DEF Saving
      <3>4. ~(j.word <= ImageWords(area)) BY <1>2, <2>2, <3>1, <3>3 DEF Programming
      <3>5. \A i \in 1..ImageWords(area) : i < j.word
        BY <1>7, <3>4, AreaShape DEF Saving
      <3> QED BY <1>7, <3>5 DEF Saving, Written
    <2>6. sums[Field(area)] = Checksum(Body(area)) BY <1>7 DEF Saving
    <2>7. /\ Valid(flash, area) /\ StoredBody(flash, area) = Body(area)
          /\ flash[SumAddress(area)] = Checksum(Body(area))
      BY <2>5, <2>6, WholeImage
    <2>8. SumsTried(flash)'
      <3> SUFFICES ASSUME NEW b \in Areas
                   PROVE  \/ flash[SumAddress(b)] \in {Erased, Torn}
                          \/ \E body \in tried'[b] : flash[SumAddress(b)] = Checksum(body)
        BY <1>2 DEF SumsTried
      <3>1. CASE b = area
        <4>1. tried'[b] = {Body(area)} BY <1>1, <2>3, <3>1 DEF TypeOK, HistoryTyped
        <4> QED BY <2>7, <3>1, <4>1
      <3>2. CASE b # area
        <4>1. tried'[b] = tried[b] BY <1>1, <2>3, <3>2 DEF TypeOK, HistoryTyped
        <4> QED BY <1>1, <4>1 DEF SumsTried
      <3> QED BY <3>1, <3>2
    <2>9. SavedIn(flash)'
      <3> SUFFICES ASSUME NEW b \in Areas, saved'[b] # Nothing
                   PROVE  Valid(flash, b) /\ StoredBody(flash, b) = saved'[b]
        BY <1>2 DEF SavedIn
      <3>1. CASE b = area
        <4>1. saved'[b] = Body(area) BY <1>1, <2>3, <3>1 DEF TypeOK, HistoryTyped
        <4> QED BY <2>7, <3>1, <4>1
      <3>2. CASE b # area
        <4>1. saved'[b] = saved[b] BY <1>1, <2>3, <3>2 DEF TypeOK, HistoryTyped
        <4> QED BY <1>1, <4>1 DEF SavedIn
      <3> QED BY <3>1, <3>2
    <2> QED BY <1>3, <1>4, <1>5, <2>4, <2>8, <2>9 DEF FlashInv, TypeOK
  <1> QED BY <1>2, <1>6, <1>7, JobKinds

\* Between jobs the settings in RAM may change; the flash does not.
LEMMA RamStepKeeps ==
  ASSUME OnlyShellSaves, FlashInv, job["shell"] = Idle,
         RamTyped', SumsTyped', UNCHANGED <<flash, job, saved, tried>>
  PROVE  FlashInv'
  <1>1. TypeOK /\ SumsTried(flash) /\ SavedIn(flash) BY DEF FlashInv
  <1>2. FlashTyped' /\ HistoryTyped' BY <1>1 DEF TypeOK, FlashTyped, HistoryTyped
  <1>3. TypeOK' BY <1>1, <1>2 DEF TypeOK
  <1>4. Progress' BY DEF Progress
  <1>5. SumsTried(flash)' /\ SavedIn(flash)' BY <1>1 DEF SumsTried, SavedIn
  <1> QED BY <1>3, <1>4, <1>5 DEF FlashInv

\* Presets begin with number 0.
LEMMA PresetAreas == Presets \subseteq Areas /\ 0 \in Presets /\ ConfigArea \in Areas
  BY FlashAssumption DEF Presets, Areas

\* After a restart RAM holds the default or what a save stored, and the flash
\* keeps what it kept when power failed.
LEMMA RebootKeeps ==
  ASSUME OnlyShellSaves, FlashInv, NEW image, Reboot(image),
         image = [a \in Addresses |-> image[a]], SumsTried(image), SavedIn(image)
  PROVE  FlashInv'
  <1>1. TypeOK BY DEF FlashInv
  <1>2. /\ flash' = image /\ saved' = saved /\ tried' = tried
        /\ job' = [t \in Threads |-> Idle]
    BY DEF Reboot
  <1>3. RamTyped'
    <2>1. Valid(image, ConfigArea) => StoredData(image, ConfigArea) \in Data
      BY <1>1, PresetAreas, AcceptedData DEF TypeOK
    <2>2. Valid(image, 0) => StoredData(image, 0) \in Data
      BY <1>1, PresetAreas, AcceptedData DEF TypeOK
    <2> QED BY <2>1, <2>2, FlashAssumption DEF Reboot, RamTyped
  <1>4. SumsTyped'
    <2> DEFINE S(f) == LET area == IF f = "config" THEN ConfigArea ELSE 0
                       IN IF Valid(image, area) THEN StoredSum(image, area) ELSE NoSum
    <2>1. sums' = [f \in {"config", "setting"} |-> S(f)] BY DEF Reboot
    <2> HIDE DEF S
    <2> QED BY <2>1 DEF SumsTyped
  <1>5. FlashTyped' BY <1>2 DEF FlashTyped
  <1>6. HistoryTyped' BY <1>1, <1>2 DEF TypeOK, HistoryTyped
  <1>7. job' \in [Threads -> Jobs]
    <2>1. Idle \in Jobs BY DEF Idle, Jobs, Images, Nothing
    <2> QED BY <1>2, <2>1
  <1>8. Progress' BY <1>2 DEF Progress, OnlyShellSaves
  <1>9. SumsTried(flash)' /\ SavedIn(flash)' BY <1>2 DEF SumsTried, SavedIn
  <1> QED BY <1>3, <1>4, <1>5, <1>6, <1>7, <1>8, <1>9 DEF FlashInv, TypeOK

\* Power may fail while nothing is being written.
LEMMA PowerFailsKeeps ==
  ASSUME OnlyShellSaves, FlashInv, PowerFails
  PROVE  FlashInv'
  BY RebootKeeps DEF FlashInv, TypeOK, FlashTyped, PowerFails

\* Words torn by a failing erase are the job's own.
LEMMA PowerFailsErasingKeeps ==
  ASSUME OnlyShellSaves, FlashInv, PowerFailsErasing("shell")
  PROVE  FlashInv'
  <1> DEFINE j == job["shell"]
  <1>1. SumsTried(flash) /\ SavedIn(flash) BY DEF FlashInv
  <1>2. PICK torn \in SUBSET WordsOf(j.page) :
           Reboot([a \in Addresses |-> IF a \in torn THEN Torn ELSE flash[a]])
    BY DEF PowerFailsErasing
  <1> DEFINE image == [a \in Addresses |-> IF a \in torn THEN Torn ELSE flash[a]]
  <1>3. image = [a \in Addresses |-> image[a]] OBVIOUS
  <1>4. \A a \in Addresses : image[a] = flash[a] \/ image[a] \in {Erased, Torn} OBVIOUS
  <1>5. \A area \in Areas : saved[area] # Nothing =>
           \A i \in 1..ImageWords(area) : image[Address(area, i)] = flash[Address(area, i)]
    <2> SUFFICES ASSUME NEW area \in Areas, saved[area] # Nothing,
                        NEW i \in 1..ImageWords(area)
                 PROVE  image[Address(area, i)] = flash[Address(area, i)]
      OBVIOUS
    <2>1. j # Idle /\ j.page <= LastPage(j.area) BY DEF PowerFailsErasing, Erasing
    <2>2. ~Clearing BY DEF Clearing
    <2>3. PICK b \in Areas : Saving(b) BY <2>1, <2>2, JobKinds
    <2>4. b # area /\ j.page \in FirstPage(b)..LastPage(b)
      BY <2>1, <2>3, AreaShape DEF Saving
    <2>5. Address(area, i) \in Addresses /\ Address(area, i) \notin WordsOf(j.page)
      BY <2>4, AddressFacts, AreasApart DEF WordsOf
    <2> QED BY <2>5
  <1>6. Reboot(image) BY <1>2
  <1> HIDE DEF image
  <1>7. SumsTried(image) BY <1>1, <1>4, SumsStay
  <1>8. SavedIn(image) BY <1>1, <1>5, SavedStay
  <1> QED BY <1>3, <1>6, <1>7, <1>8, RebootKeeps

\* So is the word torn by a failing program.
LEMMA PowerFailsProgrammingKeeps ==
  ASSUME OnlyShellSaves, FlashInv, PowerFailsProgramming("shell")
  PROVE  FlashInv'
  <1> DEFINE j == job["shell"]
             image == [flash EXCEPT ![Address(j.area, j.word)] = Torn]
  <1>1. SumsTried(flash) /\ SavedIn(flash) /\ FlashTyped BY DEF FlashInv, TypeOK
  <1>2. Reboot(image) /\ j # Idle /\ j.word <= ImageWords(j.area)
    BY DEF PowerFailsProgramming, Programming
  <1>3. image = [a \in Addresses |-> image[a]] BY <1>1 DEF FlashTyped
  <1>4. /\ \A a \in Addresses : image[a] = flash[a] \/ image[a] \in {Erased, Torn}
        /\ \A a \in Addresses : a # Address(j.area, j.word) => image[a] = flash[a]
    BY <1>1 DEF FlashTyped
  <1> HIDE DEF image
  <1>5. \A area \in Areas : saved[area] # Nothing =>
           \A i \in 1..ImageWords(area) : image[Address(area, i)] = flash[Address(area, i)]
    <2> SUFFICES ASSUME NEW area \in Areas, saved[area] # Nothing,
                        NEW i \in 1..ImageWords(area)
                 PROVE  image[Address(area, i)] = flash[Address(area, i)]
      OBVIOUS
    <2>1. ~Clearing BY DEF Clearing
    <2>2. PICK b \in Areas : Saving(b) BY <1>2, <2>1, JobKinds
    <2>3. b # area /\ j.area = b /\ j.word \in 1..ImageWords(b)
      BY <1>2, <2>2, AreaShape DEF Saving
    <2>4. Address(area, i) \in Addresses /\ Address(area, i) # Address(b, j.word)
      BY <2>3, AddressFacts, WordsApart
    <2> QED BY <1>4, <2>3, <2>4
  <1>6. SumsTried(image) BY <1>1, <1>4, SumsStay
  <1>7. SavedIn(image) BY <1>1, <1>5, SavedStay
  <1> QED BY <1>2, <1>3, <1>6, <1>7, RebootKeeps

\* Every step keeps what was saved.
LEMMA NextFlash == ASSUME OnlyShellSaves, FlashInv, [Next]_vars PROVE FlashInv'
  <1>1. TypeOK /\ SumsTried(flash) /\ SavedIn(flash) /\ Progress BY DEF FlashInv
  <1>2. RamTyped /\ SumsTyped /\ HistoryTyped BY <1>1 DEF TypeOK
  <1>3. ASSUME NEW t \in Threads,
               \/ \E area \in Areas : BeginSave(t, area)
               \/ Erase(t) \/ Program(t) \/ EndJob(t)
               \/ PowerFailsErasing(t) \/ PowerFailsProgramming(t)
        PROVE  FlashInv'
    <2>1. t = "shell" BY DEF OnlyShellSaves
    <2> QED BY <1>3, <2>1, BeginSaveKeeps, EraseKeeps, ProgramKeeps, EndJobKeeps,
               PowerFailsErasingKeeps, PowerFailsProgrammingKeeps
  <1>4. ASSUME NEW area \in Presets, Recall(area) PROVE FlashInv'
    <2>1. StoredData(flash, area) \in Data
      BY <1>1, <1>2, <1>4, PresetAreas, AcceptedData DEF Recall
    <2>2. RamTyped' BY <1>2, <1>4, <2>1 DEF Recall, RamTyped
    <2>3. SumsTyped' BY <1>2, <1>4 DEF Recall, SumsTyped
    <2> QED BY <1>4, <2>2, <2>3, RamStepKeeps DEF Recall
  <1>5. ASSUME NEW area \in Presets, LoadFails(area) PROVE FlashInv'
    <2>1. RamTyped' BY <1>2, <1>5, FlashAssumption DEF LoadFails, RamTyped
    <2>2. SumsTyped' BY <1>2, <1>5 DEF LoadFails, SumsTyped
    <2> QED BY <1>5, <2>1, <2>2, RamStepKeeps DEF LoadFails
  <1>6. CASE Change
    <2>1. RamTyped' BY <1>2, <1>6 DEF Change, RamTyped
    <2>2. SumsTyped' BY <1>2, <1>6 DEF Change, SumsTyped
    <2> QED BY <1>6, <2>1, <2>2, RamStepKeeps DEF Change
  <1>7. CASE UNCHANGED vars
    <2>1. TypeOK' BY <1>1, <1>7 DEF vars, TypeOK, RamTyped, FlashTyped, SumsTyped, HistoryTyped
    <2>2. \A area \in Areas : Saving(area) => Saving(area)'
      BY <1>7 DEF vars, Saving, Written, Body, RamImage
    <2>3. Clearing => Clearing' BY <1>7 DEF vars, Clearing
    <2>4. Progress' BY <1>1, <1>7, <2>2, <2>3 DEF vars, Progress
    <2>5. SumsTried(flash)' /\ SavedIn(flash)' BY <1>1, <1>7 DEF vars, SumsTried, SavedIn
    <2> QED BY <2>1, <2>4, <2>5 DEF FlashInv
  <1> QED BY <1>3, <1>4, <1>5, <1>6, <1>7, BeginClearKeeps, PowerFailsKeeps DEF Next

\* What follows from the invariant.
LEMMA FlashSafe == FlashInv => AcceptedWasSaved /\ SavedLasts
  <1> SUFFICES ASSUME FlashInv PROVE AcceptedWasSaved /\ SavedLasts OBVIOUS
  <1>1. SumsTried(flash) /\ SavedIn(flash) BY DEF FlashInv
  <1>2. AcceptedWasSaved BY <1>1, TriedAccepted DEF AcceptedWasSaved
  <1>3. SavedLasts BY <1>1 DEF SavedLasts, SavedIn
  <1> QED BY <1>2, <1>3

\* Power may fail at any word of any save, any number of times: an area that a
\* recall accepts holds the whole image of its last finished save or of one
\* begun since (flash.c:97-132, 163-235), if only the shell saves.
THEOREM AcceptedOnlySaved == ASSUME OnlyShellSaves PROVE Spec => []AcceptedWasSaved
  BY InitFlash, NextFlash, FlashSafe, PTL DEF Spec

\* A finished save lasts until its area is saved again or cleared, through
\* saves elsewhere, power failures and restarts, if only the shell saves
\* (flash.c:97-107, 163-174).
THEOREM SavesLast == ASSUME OnlyShellSaves PROVE Spec => []SavedLasts
  BY InitFlash, NextFlash, FlashSafe, PTL DEF Spec
=============================================================================
