------------------------------ MODULE FlashStore ------------------------------
(***************************************************************************)
(* flash.c: the configuration and the presets saved in the STM32's flash.   *)
(* A save stores magic and checksum in the RAM image, erases the pages of   *)
(* its area one by one and programs the words of the live RAM image one by  *)
(* one.  The sweep thread saves from the menus of ui.c; the shell thread,   *)
(* of higher priority, saves, clears and changes settings from the console  *)
(* and may preempt the sweep thread anywhere.  Power may fail at any step.  *)
(*                                                                          *)
(* A page is three words.  The configuration is magic, a data word and a    *)
(* word that never changes, and a checksum in the second of its two pages;  *)
(* a preset is magic, a data word and a checksum in one page.  A checksum   *)
(* is the tuple of the words it covers: the model leaves out that two       *)
(* images may share a checksum.                                             *)
(***************************************************************************)
EXTENDS Integers, SequencesExt

CONSTANTS Data,            \* values of a data word
          Default,         \* its value in the initialised image
          SaveAreaMax,     \* SAVEAREA_MAX
          Threads          \* the threads that save: "shell", "sweep" or both

ASSUME FlashAssumption ==
  /\ Default \in Data /\ SaveAreaMax \in Nat \ {0}
  /\ "shell" \in Threads /\ Threads \subseteq {"sweep", "shell"}

PageWords == 3
Presets == 0..(SaveAreaMax - 1)
ConfigArea == -1
Areas == {ConfigArea} \cup Presets
\* the job of clear_all_config_prop_data
AllAreas == -2

Magic == <<"mark", "magic">>
Erased == <<"mark", "erased">>
Torn == <<"mark", "torn">>      \* being written when power failed
Fixed == <<"mark", "fixed">>    \* the fields that do not change
Word(d) == <<"data", d>>
Checksum(words) == <<"checksum", words>>
NoSum == Checksum(<<>>)      \* the field before any save or recall

\* The presets begin one page behind the configuration, which has two.
FirstPageAfterOne(area) == IF area \in Presets THEN 1 + area ELSE 0

\* The pages of an area, numbered from SAVE_CONFIG_ADDR.
FirstPage(area) == IF area \in Presets THEN 2 + area ELSE 0

\* the last page that begins before the end of what is erased
LastPage(area) == CASE area = ConfigArea -> 1
                    [] area = AllAreas   -> 1 + SaveAreaMax
                    [] OTHER             -> 2 + area

Pages == 0..(1 + SaveAreaMax)
Addresses == 0..(PageWords * Cardinality(Pages) - 1)
WordsOf(page) == {a \in Addresses : a \div PageWords = page}
ImageWords(area) == CASE area = ConfigArea -> 4 [] area = AllAreas -> 0 [] OTHER -> 3
Address(area, i) == PageWords * FirstPage(area) + i - 1

VARIABLES
  flash,       \* the words of the saved pages
  config,      \* the data word of the configuration in RAM
  setting,     \* the data word of the settings in RAM
  sums,        \* the checksum fields of config and setting in RAM
  job,         \* per thread: the save or clear in progress; its image is
               \* history, dropped when the other thread saves the same area
  saved,       \* history: the image of the last save of an area, once finished
  tried        \* history: the images of the last finished save and of all since

vars == <<flash, config, setting, sums, job, saved, tried>>

Idle == [area |-> AllAreas, page |-> 0, word |-> 0, image |-> <<>>]
Nothing == <<>>

\* The image of an area in RAM, without its checksum.
Body(area) == IF area = ConfigArea THEN <<Magic, Word(config), Fixed>>
                                   ELSE <<Magic, Word(setting)>>
Field(area) == IF area = ConfigArea THEN "config" ELSE "setting"
RamImage(area) == Append(Body(area), sums[Field(area)])

\* What an image of the flash holds for an area.
Stored(image, area) == [i \in 1..ImageWords(area) |-> image[Address(area, i)]]
StoredBody(image, area) == Front(Stored(image, area))
StoredSum(image, area) == Last(Stored(image, area))
StoredData(image, area) == Stored(image, area)[2][2]

\* The checksum is not compared.
ValidMagicOnly(image, area) == Stored(image, area)[1] = Magic

\* the checks of config_recall, caldata_recall and caldata_pointer
Valid(image, area) == /\ Stored(image, area)[1] = Magic
                      /\ StoredSum(image, area) = Checksum(StoredBody(image, area))

\* The shell preempts the sweep thread, which runs only while the shell is
\* blocked in its read.
MayRun(t) == t = "sweep" => job["shell"] = Idle

Init == /\ flash = [a \in Addresses |-> Erased]
        /\ config = Default /\ setting = Default
        /\ sums = [f \in {"config", "setting"} |-> NoSum]
        /\ job = [t \in Threads |-> Idle]
        /\ saved = [a \in Areas |-> Nothing] /\ tried = [a \in Areas |-> {}]

-----------------------------------------------------------------------------
\* config_save or caldata_save up to the first erase: the magic and checksum
\* fields of the RAM image are brought up to date.
BeginSave(t, area) ==
  /\ MayRun(t) /\ job[t] = Idle
  /\ sums' = [sums EXCEPT ![Field(area)] = Checksum(Body(area))]
  /\ job' = [u \in Threads |->
               IF u = t THEN [area |-> area, page |-> FirstPage(area),
                              word |-> 1, image |-> Body(area)]
               ELSE IF job[u].area = area THEN [job[u] EXCEPT !.image = Nothing]
               ELSE job[u]]
  /\ saved' = [saved EXCEPT ![area] = Nothing]
  /\ tried' = [tried EXCEPT ![area] = @ \cup {Body(area)}]
  /\ UNCHANGED <<flash, config, setting>>

\* clear_all_config_prop_data, a console command
BeginClear ==
  /\ job["shell"] = Idle
  /\ job' = [job EXCEPT !["shell"] = [area |-> AllAreas, page |-> 0, word |-> 1,
                                      image |-> <<Magic>>]]
  /\ saved' = [a \in Areas |-> Nothing]
  /\ UNCHANGED <<flash, config, setting, sums, tried>>

Erasing(t) == /\ job[t] # Idle /\ MayRun(t)
              /\ job[t].page <= LastPage(job[t].area)
Erase(t) == /\ Erasing(t)
            /\ flash' = [a \in Addresses |->
                           IF a \in WordsOf(job[t].page) THEN Erased ELSE flash[a]]
            /\ job' = [job EXCEPT ![t].page = @ + 1]
            /\ UNCHANGED <<config, setting, sums, saved, tried>>

Programming(t) == /\ job[t] # Idle /\ MayRun(t)
                  /\ job[t].page > LastPage(job[t].area)
                  /\ job[t].word <= ImageWords(job[t].area)

\* flash_program_half_word: a word that is not erased is left as it is.
Program(t) ==
  /\ Programming(t)
  /\ LET a == Address(job[t].area, job[t].word)
     IN flash' = [flash EXCEPT ![a] = IF @ = Erased
                                      THEN RamImage(job[t].area)[job[t].word]
                                      ELSE @]
  /\ job' = [job EXCEPT ![t].word = @ + 1]
  /\ UNCHANGED <<config, setting, sums, saved, tried>>

\* The save returns; its caller takes the image as stored.
EndJob(t) ==
  /\ job[t] # Idle /\ MayRun(t) /\ ~Erasing(t) /\ ~Programming(t)
  /\ IF job[t].area = AllAreas \/ job[t].image = Nothing
     THEN UNCHANGED <<saved, tried>>
     ELSE /\ saved' = [saved EXCEPT ![job[t].area] = job[t].image]
          /\ tried' = [tried EXCEPT ![job[t].area] = {job[t].image}]
  /\ job' = [job EXCEPT ![t] = Idle]
  /\ UNCHANGED <<flash, config, setting, sums>>

\* A menu or a console command changes a data word in RAM.
Change ==
  /\ job["shell"] = Idle
  /\ \/ config' \in Data /\ UNCHANGED setting
     \/ setting' \in Data /\ UNCHANGED config
  /\ UNCHANGED <<flash, sums, job, saved, tried>>

\* caldata_recall of a preset it accepts
Recall(area) ==
  /\ job["shell"] = Idle /\ Valid(flash, area)
  /\ setting' = StoredData(flash, area)
  /\ sums' = [sums EXCEPT !["setting"] = StoredSum(flash, area)]
  /\ UNCHANGED <<flash, config, job, saved, tried>>

\* cmd_load and the load menu, which reset the settings if it is preset 0;
\* cmd_recall leaves them as they are and prints "Err, default load".
LoadFails(area) ==
  /\ job["shell"] = Idle /\ ~Valid(flash, area)
  /\ setting' = IF area = 0 THEN Default ELSE setting
  /\ UNCHANGED <<flash, config, sums, job, saved, tried>>

\* Power fails, leaving image in flash, and main() starts again: it recalls the
\* configuration and preset 0.
Reboot(image) ==
  /\ flash' = image
  /\ config' = IF Valid(image, ConfigArea) THEN StoredData(image, ConfigArea)
                                           ELSE Default
  /\ setting' = IF Valid(image, 0) THEN StoredData(image, 0) ELSE Default
  /\ sums' = [f \in {"config", "setting"} |->
                LET area == IF f = "config" THEN ConfigArea ELSE 0
                IN IF Valid(image, area) THEN StoredSum(image, area) ELSE NoSum]
  /\ job' = [t \in Threads |-> Idle]
  /\ UNCHANGED <<saved, tried>>

PowerFails == Reboot(flash)

\* Each word of the page being erased is torn or still what it was.
PowerFailsErasing(t) ==
  /\ Erasing(t)
  /\ \E torn \in SUBSET WordsOf(job[t].page) :
       Reboot([a \in Addresses |-> IF a \in torn THEN Torn ELSE flash[a]])

PowerFailsProgramming(t) ==
  /\ Programming(t)
  /\ Reboot([flash EXCEPT ![Address(job[t].area, job[t].word)] = Torn])

Next == \/ \E t \in Threads : \/ \E area \in Areas : BeginSave(t, area)
                              \/ Erase(t) \/ Program(t) \/ EndJob(t)
                              \/ PowerFailsErasing(t) \/ PowerFailsProgramming(t)
        \/ \E area \in Presets : Recall(area) \/ LoadFails(area)
        \/ Change
        \/ BeginClear
        \/ PowerFails

Spec == Init /\ [][Next]_vars

-----------------------------------------------------------------------------
(* Properties.                                                               *)

\* Whatever was interrupted by a power failure, an area that a recall accepts
\* holds the whole image of its last finished save or of a save begun since:
\* never a mixture, never an older one (flash.c:116-120, 221-228).
AcceptedWasSaved ==
  \A area \in Areas : Valid(flash, area) => StoredBody(flash, area) \in tried[area]

\* A finished save lasts: through saves to the other areas, power failures in
\* them and restarts, until the area is saved again or cleared (flash.c:97-107,
\* 163-174).
SavedLasts == \A area \in Areas :
                saved[area] # Nothing =>
                  Valid(flash, area) /\ StoredBody(flash, area) = saved[area]

\* ui.c:526 saves the touch calibration: once config_save has returned, the
\* configuration it was called for is what the next boot recalls.
CalibrationSaved == saved[ConfigArea] # Nothing => Valid(flash, ConfigArea)
=============================================================================
