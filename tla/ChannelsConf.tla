---------------------------- MODULE ChannelsConf ----------------------------
(***************************************************************************)
(* internal/atsc: how channels.conf is read, and what the tuner makes of   *)
(* the channels.  A file is a sequence of lines, a line a sequence of      *)
(* fields, and a field is a text.                                          *)
(***************************************************************************)
EXTENDS Naturals, SequencesExt

CONSTANTS
  File,     \* the files that may be there
  Numeral,  \* the texts strconv.ParseUint accepts, mapped to their values
  Decimal   \* how fmt prints the values

\* What fmt prints, ParseUint accepts.
ASSUME ChannelsConfAssumption ==
  /\ File \subseteq Seq(Seq(STRING))
  /\ \A text \in DOMAIN Numeral :
       /\ Numeral[text] \in DOMAIN Decimal
       /\ Decimal[Numeral[text]] \in DOMAIN Numeral
       /\ Numeral[Decimal[Numeral[text]]] = Numeral[text]

VARIABLES
  file,      \* the file at hand
  line,      \* number of lines read
  channels,  \* what was parsed
  failure    \* where parsing has failed: <<line, field>>, <<0, 0>>, or <<>>

confVars == <<file, line, channels, failure>>

\* Modulations by text, normalized.
Modulation ==
  [text \in {"8VSB", "VSB_8", "QAM_64", "QAM_256"} |-> IF text = "VSB_8" THEN "8VSB" ELSE text]

Channel(fields) ==
  [name |-> fields[1], frequency |-> Numeral[fields[2]], modulation |-> Modulation[fields[3]],
   video |-> Numeral[fields[4]], audio |-> Numeral[fields[5]], program |-> Numeral[fields[6]]]

\* Channel.String.
Format_Swapped(ch) ==
  <<ch.name, Decimal[ch.frequency], ch.modulation, Decimal[ch.audio], Decimal[ch.video],
    Decimal[ch.program]>>
Format(ch) ==
  <<ch.name, Decimal[ch.frequency], ch.modulation, Decimal[ch.video], Decimal[ch.audio],
    Decimal[ch.program]>>

\* The fields of a line that do not parse; 0 stands for their number.
BadFields(fields) ==
  IF Len(fields) # 6 THEN {0}
  ELSE {i \in {2, 4, 5, 6} : fields[i] \notin DOMAIN Numeral}
       \union {i \in {3} : fields[i] \notin DOMAIN Modulation}

ConfInit ==
  /\ file \in File
  /\ line = 0
  /\ channels = <<>>
  /\ failure = <<>>

\* A broken loop, which goes on when a field did not parse.
ReadLine_Skips ==
  /\ line < Len(file)
  /\ failure = <<>>
  /\ line' = line + 1
  /\ LET fields == file[line'] IN
       channels' = IF BadFields(fields) = {} THEN Append(channels, Channel(fields)) ELSE channels
  /\ UNCHANGED <<file, failure>>

\* One turn of the loop of ParseChannelsConf: the first error is returned.
ReadLine ==
  /\ line < Len(file)
  /\ failure = <<>>
  /\ line' = line + 1
  /\ LET fields == file[line']
         bad == BadFields(fields)
     IN IF bad = {} THEN channels' = Append(channels, Channel(fields)) /\ UNCHANGED failure
        ELSE channels' = <<>> /\ failure' = <<line', Min(bad)>>
  /\ UNCHANGED file

\* The file cannot be opened, or not be read to its end.
ReadFails ==
  /\ failure = <<>>
  /\ failure' = <<0, 0>>
  /\ channels' = <<>>
  /\ UNCHANGED <<file, line>>

-----------------------------------------------------------------------------
(***************************************************************************)
(* The tuner's view of the channels.                                       *)
(***************************************************************************)

ChannelNames == [i \in DOMAIN channels |-> channels[i].name]

\* A broken makeChannelMap, which keeps the first channel of a name.
ChannelMap_First ==
  [name \in Range(ChannelNames) |->
     channels[Min({i \in DOMAIN channels : channels[i].name = name})]]

\* makeChannelMap: of several channels with a name, the last one counts.
ChannelMap ==
  [name \in Range(ChannelNames) |->
     channels[Max({i \in DOMAIN channels : channels[i].name = name})]]

\* What the description of a channel's pipeline is made of.  A modulation that
\* pipelineModulations does not have becomes an empty text.
Describe(ch) ==
  [modulation |-> CASE ch.modulation = "8VSB" -> "8vsb"
                    [] ch.modulation = "QAM_64" -> "qam-64"
                    [] ch.modulation = "QAM_256" -> "qam-256"
                    [] OTHER -> "",
   frequency |-> ch.frequency, program |-> ch.program]

=============================================================================
