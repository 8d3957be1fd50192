----------------------------- MODULE MCService -----------------------------
(* One key at a time is varied over the layers, the rest is as issued. *)
EXTENDS Service, TLC

Plain(w) == [shape |-> "plain", word |-> w]
In(s, w) == [shape |-> s, word |-> w]

MCIssued == [token |-> Plain("T"), app |-> Plain("A"), key |-> Plain("K")]
MCWords == {"T", "A", "K", "v", "o", "true", "false", "bare", "nested", "env", "file",
            "alias", "flag", "x", "path", "-V", "none",
            "doctor", "ready", "version", "status", "health"}
MCAppBytes == [w \in MCWords |-> IF w = "A" THEN <<3, 3, 3>> ELSE <<5>>]

Good == [WECHAT_TOKEN |-> "T", WECHAT_APP_ID |-> "A",
         WECHAT_ENCODING_AES_KEY |-> "K", ADMIN_VIEW_KEY |-> "v",
         WECHAT_ADMIN_OPENIDS |-> "o",
         WECHAT_ENCRYPTED_CALLBACK_ENABLED |-> "true"]

Mention(k, f, t) == [key |-> k, form |-> f, text |-> t]
GoodLines(focus) ==
    LET line(k) == IF k = focus \/ k \notin DOMAIN Good THEN <<>>
                   ELSE <<Mention(k, "name", Plain(Good[k]))>>
    IN line("WECHAT_TOKEN") \o line("WECHAT_APP_ID") \o line("ADMIN_VIEW_KEY")
       \o line("WECHAT_ENCODING_AES_KEY") \o line("WECHAT_ADMIN_OPENIDS")
       \o line("WECHAT_ENCRYPTED_CALLBACK_ENABLED")

\* The words of a layer: the issued one where there is one.
Word(k, layer) ==
    IF Kind[k] = "bool" THEN IF layer = "flag" THEN "false" ELSE "true"
    ELSE IF k = "DATABASE_URL" THEN IF layer = "flag" THEN "bare" ELSE "nested"
    ELSE IF k \in DOMAIN Good /\ layer = "file" THEN Good[k] ELSE layer

Old(k) == IF "old" \in Forms(k) THEN "old" ELSE "alias"

Envs(k) == {{}, {Mention(k, "name", Plain(Word(k, "env")))},
            {Mention(k, "name", In("blank", "env")), Mention(k, "alias", Plain(Word(k, "alias")))}}
Files(k) ==
    {<<>>} \cup {<<Mention(k, "name", In(s, Word(k, "file")))>> :
                    s \in {"plain", "blank", "quoted", "wrong", "separators"}}
    \cup {<<Mention(k, Old(k), Plain(Word(k, "alias"))), Mention(k, "name", In("blank", "x"))>>,
          <<Mention(k, "name", In("blank", "x")), Mention(k, "name", Plain(Word(k, "file")))>>}
Flags(k) == {Absent} \cup {In(s, Word(k, "flag")) : s \in {"plain", "padded", "blank", "huge"}}

T(kind, name, text) == [kind |-> kind, name |-> name, text |-> text]
Verbose == T("switch", "verbose", In("wrong", "-V"))
Path == T("text", "path", Plain("path"))
Sources == <<T("switch", "processEnv", Absent), T("env-file", "f", Absent), Path>>
FlagArgs(k, t) == IF t = Absent THEN <<>> ELSE <<T("flag=", k, t)>>
FocusKeys == {"WECHAT_TOKEN", "WECHAT_APP_ID", "WECHAT_ENCODING_AES_KEY", "DATABASE_URL",
              "WECHAT_ENCRYPTED_CALLBACK_ENABLED", "WHITELIST_JOIN_COMMAND",
              "AI_SOURCE_THREAD_WINDOW_MINUTES"}

AllPresent == [d \in DoctorDirs |-> "present"]
Merges ==
    UNION {{[args |-> cmd \o Sources \o FlagArgs(k, t), env |-> e,
             file |-> [readable |-> TRUE, lines |-> GoodLines(k) \o l],
             disk |-> AllPresent] :
              cmd \in {<<>>, <<T("word", "doctor", Plain("doctor"))>>},
              e \in Envs(k), l \in Files(k), t \in Flags(k)} : k \in FocusKeys}

\* Other command lines and env files.
Plainly == [args |-> <<>>, env |-> {}, file |-> [readable |-> TRUE, lines |-> GoodLines("none")],
            disk |-> AllPresent]
Args == {<<T("word", c, Plain(c))>> \o Sources : c \in {"version", "status", "health"}}
        \cup {<<T("switch", c, Absent)>> : c \in {"help", "version"}}
        \cup {<<Verbose>>, <<T("flag", "WORKER_ENABLED", Absent), T("text", "x", Plain("false")),
                T("flag=", "WECHAT_TOKEN", Plain("T"))>>,
              <<T("flag", "WORKER_ENABLED", Absent), Verbose>>,
              <<T("flag", "WORKER_ENABLED", Absent), Sources[1]>>,
              <<T("env-file", "f", Absent)>>, <<T("unknown", "x", Absent)>>, <<Path>>,
              <<T("word", "doctor", Plain("doctor")), T("word", "ready", Plain("ready"))>>,
              \* A setting whose value is spelled like a command.
              <<T("flag", "DATABASE_URL", Absent), T("word", "doctor", Plain("doctor")),
                T("word", "doctor", Plain("doctor"))>> \o Sources}
MCLaunches ==
    Merges \cup {[Plainly EXCEPT !.args = a] : a \in Args}
    \cup {[Plainly EXCEPT !.args = cmd \o Sources \o FlagArgs("DATABASE_URL", t),
                          !.disk[d] = s] :
             cmd \in {<<>>, <<T("word", "doctor", Plain("doctor"))>>},
             t \in {Absent, Plain("bare")}, d \in {"source", "raw", "database"},
             s \in {"missing", "readonly", "forbidden"}}
    \cup {[Plainly EXCEPT !.args = Sources, !.file.readable = FALSE],
          [Plainly EXCEPT !.args = Sources,
                          !.file.lines = <<Mention("comment", "name", Absent),
                                           Mention("broken", "name", Absent)>>]}

MCMessages ==
    (<<1, 1>> :> [type |-> "text", elements |-> {"Content"}]) @@
    (<<2>> :> [type |-> "video", elements |-> {"Title"}]) @@
    (<<2, 4>> :> [type |-> "video", elements |-> {"MediaId", "Title"}]) @@
    (<<7>> :> [type |-> "event", elements |-> {}])
MCNoise == {<<>>, <<1, 2, 3>>, <<9, 9, 1, 7, 4, 2, 2>>}

Base == [aes |-> FALSE, signature |-> Unsigned, msgSignature |-> Unsigned, nonce |-> "n",
         safe |-> TRUE, envelope |-> FALSE, xml |-> <<>>, payload |-> NoPayload]
Plains == {[Base EXCEPT !.xml = x, !.signature = Signature(Plain("T"), "n", NoPayload)] :
              x \in DOMAIN MCMessages \cup {<<8>>}} \cup {[Base EXCEPT !.xml = <<1, 1>>]}
Sealed(x, app, key, tok) ==
    LET p == [key |-> key, bytes |-> Frame(x, app)] IN
      [Base EXCEPT !.aes = TRUE, !.envelope = TRUE, !.xml = x, !.payload = p,
                   !.msgSignature = Signature(Plain(tok), "n", p)]
SealedOnes ==
    {Sealed(x, <<3, 3, 3>>, "K", "T") : x \in {<<1, 1>>, <<2>>, <<2, 4>>}}
    \cup {Sealed(<<1, 1>>, <<5>>, "K", "T"), Sealed(<<1, 1>>, <<3, 3, 3>>, "L", "T"),
          Sealed(<<1, 1>>, <<3, 3, 3>>, "K", "U")}
Cut == LET s == Sealed(<<1, 1>>, <<3, 3, 3>>, "K", "T")
           p == [s.payload EXCEPT !.bytes = Tail(@)]
       IN [s EXCEPT !.payload = p, !.msgSignature = Signature(Plain("T"), "n", p)]
MCRequests ==
    Plains \cup SealedOnes \cup
    {Cut, [Cut EXCEPT !.msgSignature = Unsigned], [Cut EXCEPT !.envelope = FALSE],
     [Sealed(<<1, 1>>, <<3, 3, 3>>, "K", "T") EXCEPT !.safe = FALSE]}
============================================================================
