---------------------------- MODULE SignalingText ----------------------------
(***************************************************************************)
(* The text of signalling: how SignalingProtocol, SignalingClient and the  *)
(* server write a message as a line of JSON and find a field in one.  No   *)
(* state: the other modules carry messages as records.                     *)
(*                                                                         *)
(* A text is a sequence of characters and words; a word is a run of        *)
(* characters without any that is special, and none follows a backslash    *)
(* but the single letters "n", "r" and "t".  A text that is not there and  *)
(* an empty one are the same.  The server's limit of 1024 characters of a  *)
(* field is left out: a user's id has 128 at most.                         *)
(***************************************************************************)
EXTENDS Integers, Sequences, SequencesExt, TLC

Quote == "\""
Backslash == "\\"
Spaces == {" ", "\t", "\r", "\n"}

-----------------------------------------------------------------------------
(* Writing. *)

\* Which characters are written as two, with the letter that follows the
\* backslash: by SignalingProtocol, by the login, by the server.
Letters == [c \in {"\n", "\r", "\t"} |->
               IF c = "\n" THEN "n" ELSE IF c = "\r" THEN "r" ELSE "t"]
Itself == [c \in {Quote, Backslash} |-> c]
Escapes == Itself @@ [c \in {"\n", "\r"} |-> Letters[c]]
LoginEscapes == Itself
ServerEscapes == Itself @@ Letters

EscapedBy(escapes, text) ==
    FlattenSeq([i \in DOMAIN text |->
        IF text[i] \in DOMAIN escapes THEN <<Backslash, escapes[text[i]]>>
                                      ELSE <<text[i]>>])

Escape(text) == EscapedBy(Escapes, text)

\* No other control character is kept; there is none here.
EscapeJson(text) == EscapedBy(ServerEscapes, text)

Quoted(text) == <<Quote>> \o text \o <<Quote>>
Field(name, value) == Quoted(<<name>>) \o <<":">> \o value

Listed(texts) ==
    FlattenSeq([i \in DOMAIN texts |-> IF i = 1 THEN texts[i] ELSE <<",">> \o texts[i]])
Object(fields) == <<"{">> \o Listed(fields) \o <<"}">>

Typed(type, fields) == Object(<<Field("type", Quoted(<<type>>))>> \o fields)
To(user) == Field("toUserId", Quoted(Escape(user)))
Sdp(sdp) == Field("sdp", Quoted(Escape(sdp)))

Offer(to, sdp) == Typed("offer", <<To(to), Sdp(sdp)>>)
Answer(to, sdp) == Typed("answer", <<To(to), Sdp(sdp)>>)
Hangup(to) == Typed("hangup", <<To(to)>>)
Candidate(to, mid, mlineIndex, candidate) ==
    Typed("ice-candidate",
          <<To(to), Field("mid", Quoted(Escape(mid))),
            Field("mlineIndex", <<ToString(mlineIndex)>>),
            Field("candidate", Quoted(Escape(candidate)))>>)

Login(user) ==
    Typed("login", <<Field("userId", Quoted(EscapedBy(LoginEscapes, user)))>>)

\* The server's own: the users online, one that comes or goes, and the sender
\* put before the last brace of a line.
UserId(user) == Field("userId", Quoted(EscapeJson(user)))

BuildPresenceSnapshot(others) ==
    Typed("presence.snapshot",
          <<Field("users", <<"[">> \o Listed([i \in DOMAIN others |->
                                                 Object(<<UserId(others[i])>>)])
                           \o <<"]">>)>>)

BroadcastPresence(user, online) ==
    Typed("presence.changed",
          <<UserId(user), Field("online", <<IF online THEN "true" ELSE "false">>)>>)

AddSender(line, sender) ==
    LET ends == {i \in DOMAIN line : line[i] = "}"}
    IN  IF ends = {} THEN <<>>
        ELSE SubSeq(line, 1, Max(ends) - 1) \o <<",">>
             \o Field("fromUserId", Quoted(EscapeJson(sender)))
             \o SubSeq(line, Max(ends), Len(line))

-----------------------------------------------------------------------------
(* Reading. *)

\* Where the name is found in quotes, be it a field's or a value.
Names(text, name) ==
    {i \in 1..(Len(text) - 2) : SubSeq(text, i, i + 2) = Quoted(<<name>>)}

\* The first place after the first colon after the first such name; 0: none.
FindValue(text, name) ==
    LET names  == Names(text, name)
        colons == {i \in DOMAIN text : text[i] = ":" /\ i > Min(names) + 2}
        values == {i \in DOMAIN text : text[i] \notin Spaces /\ i > Min(colons)}
    IN  IF names = {} \/ colons = {} \/ values = {} THEN 0 ELSE Min(values)

Plain(c) == IF c \in Range(Letters) THEN AntiFunction(Letters)[c] ELSE c

\* One character more.  Any other that is escaped stands for itself; there the
\* server gives the field up, but no writer escapes another.
Read(string, c) ==
    CASE string.at = "end" -> string
      [] string.at = "escape" ->
            [value |-> Append(string.value, Plain(c)), at |-> "text"]
      [] string.at = "text" /\ c = Quote -> [string EXCEPT !.at = "end"]
      [] string.at = "text" /\ c = Backslash -> [string EXCEPT !.at = "escape"]
      [] OTHER -> [string EXCEPT !.value = Append(@, c)]

StringAt(text, p) ==
    IF p = 0 \/ text[p] # Quote THEN <<>>
    ELSE LET string == FoldLeft(Read, [value |-> <<>>, at |-> "text"],
                                SubSeq(text, p + 1, Len(text)))
         IN  IF string.at = "end" THEN string.value ELSE <<>>

StringField(text, name) == StringAt(text, FindValue(text, name))

IntField(text, name, fallback) ==
    LET p == FindValue(text, name)
    IN  IF \E n \in 0..9 : p # 0 /\ text[p] = ToString(n)
        THEN CHOOSE n \in 0..9 : text[p] = ToString(n) ELSE fallback

BoolField(text, name, fallback) ==
    LET p == FindValue(text, name)
    IN  IF p # 0 /\ text[p] \in {"true", "false"} THEN text[p] = "true"
                                                  ELSE fallback

\* From every place where the name is found, those with a string.
UserIds(text) ==
    LET places == SetToSortSeq(Names(text, "userId"), <)
        ids == [i \in DOMAIN places |->
                   StringField(SubSeq(text, places[i], Len(text)), "userId")]
    IN  SelectSeq(ids, LAMBDA id : id # <<>>)
=============================================================================
