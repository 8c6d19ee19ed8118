------------------------------ MODULE ChatEvents ------------------------------
(***************************************************************************)
(* From what happens on a game server to what Matrix shows of it, by both  *)
(* event sources: the plugin's listener (GameEventListener.java) and       *)
(* toChatLine (pluginstream.go), or the console line and parseLine         *)
(* (logtailer.go); then handleChatLine (client.go).                        *)
(*                                                                         *)
(* A text is a sequence of tokens: the parts the regular expressions and   *)
(* the prefix cuts tell apart.  There is no state; the operators are       *)
(* compared with each other over the happenings below.                     *)
(***************************************************************************)
EXTENDS Naturals, Sequences, FiniteSetsExt

Token(kind, v) == [kind |-> kind, v |-> v]
Name(p) == Token("name", p)        \* Steve
Angle(p) == Token("angle", p)      \* <Steve>
Tagged(x) == Token("bracket", x)   \* [x]
Verb(x) == Token("verb", x)        \* a verb of deathRegex
Word(x) == Token("word", x)
Mark(x) == Token("mark", x)        \* colour code, \r, log prefix, icon

\* The text without a token.
Without(kind, v, text) ==
  LET kept[i \in 0..Len(text)] ==
        IF i = 0 THEN <<>>
        ELSE IF text[i] = Token(kind, v) THEN kept[i - 1]
        ELSE Append(kept[i - 1], text[i])
  IN kept[Len(text)]

From(text, i) == SubSeq(text, i, Len(text))

-----------------------------------------------------------------------------
(* The plugin: a happening comes to Matrix as an event of its type.        *)

NoEvent == [type |-> "none", player |-> "", message |-> <<>>]
NoLine == [event |-> "none", player |-> "", message |-> <<>>, full |-> <<>>]

\* The listener's handlers and send: a cancelled chat message and an
\* advancement the world does not announce are no events, nor is an empty text.
SendEvent(h) ==
  LET message == Without("mark", "colour", h.text) IN
    IF message = <<>> \/ (h.kind \in {"chat", "advancement"} /\ ~h.announced)
      THEN NoEvent
      ELSE [type |-> h.kind, player |-> h.player, message |-> message]

\* Mutant of ToChatLine: the name stays in the text.
ToChatLineWhole(ev) ==
  IF ev.type = "none" \/ ev.player = "" \/ ev.message = <<>> THEN NoLine
  ELSE [event |-> ev.type, player |-> ev.player, message |-> ev.message,
        full |-> <<>>]

\* The name is split off where it leads; otherwise the whole text is kept.
ToChatLine(ev) ==
  IF ev.type = "none" \/ ev.player = "" \/ ev.message = <<>> THEN NoLine
  ELSE LET named == /\ Len(ev.message) > 1
                    /\ Head(ev.message) = Name(ev.player)
           line(message, full) == [event |-> ev.type, player |-> ev.player,
                                   message |-> message, full |-> full]
       IN CASE ev.type = "chat"           -> line(ev.message, <<>>)
            [] ev.type # "chat" /\ named  -> line(Tail(ev.message), <<>>)
            [] ev.type # "chat" /\ ~named -> line(ev.message, ev.message)

-----------------------------------------------------------------------------
(* The console, and what the log tailer makes of a line.                   *)

\* The server prints the text, in a console that may have a prompt and colours
\* and may name the source of broadcasts.
ConsoleLine(h, c) ==
  (IF c.prompt THEN <<Word(">"), Mark("cr")>> ELSE <<>>)
  \o (IF c.colours THEN <<Mark("colour")>> ELSE <<>>)
  \o <<Mark("prefix")>>
  \o (IF h.kind = "chat" THEN h.tags \o <<Angle(h.player)>>
      ELSE IF c.source THEN <<Mark("source")>> ELSE <<>>)
  \o h.text

\* Colours first, then everything up to the last carriage return.
NormaliseLine(raw) ==
  LET line == Without("mark", "colour", raw)
      crs == {i \in DOMAIN line : line[i] = Mark("cr")}
  IN IF crs = {} THEN line ELSE From(line, Max(crs) + 1)

\* Mutant of ChatAt: the pattern is not anchored.
ChatAnywhere(body) == {i \in DOMAIN body : body[i].kind = "angle" /\ i < Len(body)}

\* chatRegex: bracketed prefixes, <player>, and a text.
ChatAt(body) ==
  {i \in DOMAIN body : /\ body[i].kind = "angle"
                       /\ i < Len(body)
                       /\ \A j \in 1..(i - 1) : body[j].kind = "bracket"}

JoinLeave == {Word("joined the game"), Word("left the game")}

IsJoinLeave(body) ==
  Len(body) = 2 /\ body[1].kind = "name" /\ body[2] \in JoinLeave

\* deathRegex wants text behind the verb.
IsDeath(body) ==
  Len(body) > 2 /\ body[1].kind = "name" /\ body[2].kind = "verb"

IsAdvancement(body) ==
  /\ Len(body) = 3 /\ body[1].kind = "name"
  /\ body[2] = Word("has made the advancement") /\ body[3].kind = "bracket"

\* parseLine behind the prefixes: chat before all else.
ParseBody(body) ==
  LET line(event) == [event |-> event, player |-> body[1].v,
                      message |-> Tail(body), full |-> <<>>]
      at == ChatAt(body)
  IN IF at # {}
       THEN LET i == Max(at) IN [event |-> "chat", player |-> body[i].v,
                                 message |-> From(body, i + 1), full |-> <<>>]
     ELSE CASE IsJoinLeave(body) ->
                 line(IF body[2] = Word("left the game") THEN "leave" ELSE "join")
            [] IsDeath(body)       -> line("death")
            [] IsAdvancement(body) -> line("advancement")
            [] OTHER               -> NoLine

\* Mutant of ParseLine: the marker of the source stays.
ParseLineMarked(raw) ==
  LET line == NormaliseLine(raw) IN
    IF line = <<>> THEN NoLine
    ELSE IF Head(line) # Mark("prefix") THEN NoLine
    ELSE ParseBody(Tail(line))

\* parseLine: only behind a log prefix, and one marker of the source is cut.
ParseLine(raw) ==
  LET line == NormaliseLine(raw)
      body == Tail(line)
  IN IF line = <<>> THEN NoLine
     ELSE IF Head(line) # Mark("prefix") THEN NoLine
     ELSE ParseBody(IF body # <<>> /\ Head(body) = Mark("source")
                      THEN Tail(body) ELSE body)

-----------------------------------------------------------------------------
(* handleChatLine and what it has bridgev2 send.                           *)

NoMessage == [type |-> "none", sender |-> "", body |-> <<>>]

\* Mutant of HandleChatLine: the name is put before every text.
HandleChatLineNamed(line, allEvents) ==
  IF line.event = "none" \/ (~allEvents /\ line.event # "chat") THEN NoMessage
  ELSE IF line.event = "chat"
    THEN [type |-> "text", sender |-> line.player, body |-> line.message]
  ELSE [type |-> "notice", sender |-> line.player,
        body |-> <<Mark(line.event), Name(line.player)>> \o line.message]

\* Chat as the player's text; the rest, if bridge_all_events is on, as a
\* notice with an icon and the whole text.
HandleChatLine(line, allEvents) ==
  IF line.event = "none" \/ (~allEvents /\ line.event # "chat") THEN NoMessage
  ELSE IF line.event = "chat"
    THEN [type |-> "text", sender |-> line.player, body |-> line.message]
  ELSE [type |-> "notice", sender |-> line.player,
        body |-> <<Mark(line.event)>> \o
                 (IF line.full # <<>> THEN line.full
                  ELSE <<Name(line.player)>> \o line.message)]

ByPlugin(h, all) == HandleChatLine(ToChatLine(SendEvent(h)), all)

ByLog(h, console, all) ==
  IF h.announced /\ h.text # <<>>
    THEN HandleChatLine(ParseLine(ConsoleLine(h, console)), all)
    ELSE NoMessage

-----------------------------------------------------------------------------
(* Happenings: what the game announces itself, and with plugins.           *)

Players == {"Steve", ".Alex"}
Consoles == [prompt : BOOLEAN, colours : BOOLEAN, source : BOOLEAN]

\* What a player may type, other players' lines and console lines included.
ChatTexts(p) ==
  {<<Word("hello")>>, <<Mark("colour"), Word("hello")>>,
   <<Name(p), Word("joined the game")>>, <<Angle(p), Word("hello")>>,
   <<Name(p), Verb("died"), Word("again")>>,
   <<Mark("prefix"), Name(p), Word("left the game")>>,
   <<Angle(p), Name(p), Word("joined the game")>>}

Happen(kinds, p, texts) ==
  [kind : kinds, player : {p}, text : texts, tags : {<<>>}, announced : {TRUE}]

Vanilla(p) ==
  Happen({"join"}, p, {<<Name(p), Word("joined the game")>>})
  \cup Happen({"leave"}, p, {<<Name(p), Word("left the game")>>})
  \cup Happen({"death"}, p, {<<Name(p), Verb("was slain"), Name("Zombie")>>,
                             <<Name(p), Verb("drowned")>>,
                             <<Name(p), Word("was skewered"), Name("Goat")>>})
  \cup Happen({"advancement"}, p,
              {<<Name(p), Word("has made the advancement"), Tagged("Iron")>>})

Chat(p) ==
  [kind : {"chat"}, player : {p}, text : UNION {ChatTexts(q) : q \in Players},
   tags : {<<>>, <<Tagged("Not Secure")>>, <<Tagged("VIP"), Tagged("Staff")>>},
   announced : BOOLEAN]

\* Texts that a plugin of the server put in place, or took away.
Custom(p) ==
  Happen({"join", "leave", "death"}, p,
         {<<>>, <<Mark("colour")>>, <<Word("welcome"), Name(p)>>,
          <<Mark("colour"), Name(p), Word("is here")>>})

Unannounced(p) ==
  {[h EXCEPT !.announced = FALSE] :
     h \in {v \in Vanilla(p) : v.kind = "advancement"}}

Happenings ==
  UNION {Vanilla(p) \cup Chat(p) \cup Custom(p) \cup Unannounced(p) :
         p \in Players}

-----------------------------------------------------------------------------
(* Properties.                                                             *)

\* Which source a server happens to be read from makes no difference to the
\* room: what the log tailer bridges, the plugin bridges with the same text,
\* type and sender ("the Matrix side renders it the same way",
\* pluginstream.go:213-216), through every console and for both settings of
\* bridge_all_events.
SourcesAgree ==
  \A h \in Happenings, c \in Consoles, all \in BOOLEAN :
    ByLog(h, c, all) # NoMessage => ByLog(h, c, all) = ByPlugin(h, all)

\* Nothing a player types is taken for an event of the game or for another
\* player's words: chat comes out as chat, of its sender, with all its text.
NoFakeEvents ==
  \A p \in Players : \A h \in Chat(p), c \in Consoles, all \in BOOLEAN :
    h.announced =>
      LET chat == [type |-> "text", sender |-> p,
                   body |-> Without("mark", "colour", h.text)]
      IN ByPlugin(h, all) = chat /\ ByLog(h, c, all) = chat

\* The plugin source shows the announced text of everything that happens,
\* whole and unchanged, the texts of other plugins included.
PluginShowsAll ==
  \A h \in Happenings :
    LET text == Without("mark", "colour", h.text) IN
      h.kind # "chat" /\ h.announced /\ text # <<>> =>
        ByPlugin(h, TRUE) = [type |-> "notice", sender |-> h.player,
                             body |-> <<Mark(h.kind)>> \o text]

\* "Minecraft death messages always start with the player name followed by a
\* death message verb (was slain, was shot, drowned, fell, etc.)"
\* (logtailer.go:65-66), and deaths are bridged (README.md:10): the log tailer
\* shows every death whose verb deathRegex lists.
LogShowsKnownDeaths ==
  \A p \in Players : \A h \in Vanilla(p), c \in Consoles :
    h.kind = "death" /\ h.text[2].kind = "verb" => ByLog(h, c, TRUE) # NoMessage

=============================================================================
