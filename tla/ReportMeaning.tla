--------------------------- MODULE ReportMeaning ---------------------------
(***************************************************************************)
(* What StatReport makes of a text, compared with what the text says by    *)
(* the grammar of JSON.                                                    *)
(***************************************************************************)
EXTENDS StatReport, JsonGrammar

Denoted == Denotation(text)

\* Whatever is sent, and whatever bytes follow the NUL behind it, Reader::parse
\* accepts a text exactly if it starts with a value of the grammar, and then the
\* root is that value: a report that is cut off is never taken for a whole one.
ParsedAsJson ==
  at = "done" /\ IsPlain =>
    /\ successful <=> Denoted.ok
    /\ successful => root = Denoted.value

\* What ssserver sends: an object whose members count bytes.
IsReport ==
  /\ IsPlain /\ Denoted.ok /\ Denoted.value.type = "object"
  /\ \A k \in Keys(Denoted.value) :
       LET v == Denoted.value.map[k]
       IN  v.type \in {"int", "uint"} /\ v.num >= 0

\* No report of ssserver ends the daemon: the exceptions of jsoncpp are left to
\* texts that ssserver does not send.
KilledOnlyByBadReports == daemon = "ended" /\ text # << >> => ~IsReport

\* When a datagram is done with, each user's usage has grown by what the report
\* tells for its port, exactly and once, all members or none: a text that is no
\* report of byte counts and was accepted is left out, one that is no JSON bills
\* nothing.
BilledAsReported ==
  daemon = "handled" /\ IsPlain =>
    \A p \in Port :
      /\ ~Denoted.ok => usage[p] = 0
      /\ IsReport =>
           LET counts == [k \in Keys(Denoted.value) |-> Denoted.value.map[k].num]
               K == {k \in Keys(Denoted.value) : AtolOf[k] % PortWord = p}
           IN  usage[p] = SumFunctionOnSet(counts, K) % LargeWord
=============================================================================
