--------------------------- MODULE MCDnsFiltering ---------------------------
EXTENDS DnsFiltering

Entry(r) == [row |-> r, count |-> 1]
TwoReports == {<<Entry("blocked")>>, <<Entry("blocked"), Entry("allowed")>>}
Bounds == [lists |-> 3, reports |-> 4]
Defaults == [k \in Keys |-> 1]
=============================================================================
