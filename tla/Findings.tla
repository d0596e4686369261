------------------------------ MODULE Findings ------------------------------
(***************************************************************************)
(* Findings, where the service gets them from, and the pure policies over  *)
(* them.  A citation is a pair <<framework, control>>; a text is "blank",  *)
(* "prose", "unsafe" (Terraform that the scan rejects) or "abstention".    *)
(***************************************************************************)
EXTENDS Errors, TLC

Frameworks == {"iso_27001", "loi_05_20", "dnssi", "nist_csf", "soc_2"}
Severities == <<"low", "medium", "high", "critical">>

\* The rule, the resource and the evidence go with the control; open: the
\* evidence mentions an address range that is open to the world.
Verdict(id, framework, control, domain, status, severity, open) ==
    [id |-> id, framework |-> framework, control |-> control, domain |-> domain,
     status |-> status, severity |-> severity, open |-> open]

\* sample_findings, and what demo_findings adds to it.
SampleFindings ==
    {Verdict("finding-iam-1", "nist_csf", "PR.AA-01", "iam", "fail", "high", FALSE),
     Verdict("finding-net-1", "nist_csf", "PR.IR-01", "network", "fail", "critical", TRUE)}

DemoFindings ==
    SampleFindings \cup
    {Verdict("finding-storage-1", "iso_27001", "A.5.10", "storage", "fail", "critical", FALSE),
     Verdict("finding-enc-1", "iso_27001", "A.8.24", "encryption", "fail", "high", FALSE),
     Verdict("finding-log-1", "loi_05_20", "Art.23", "logging", "fail", "medium", FALSE),
     Verdict("finding-iam-2", "dnssi", "DNSSI-AUTH-02", "iam", "fail", "high", FALSE),
     Verdict("finding-net-2", "soc_2", "CC6.6", "network", "fail", "medium", TRUE),
     Verdict("finding-storage-2", "iso_27001", "A.8.13", "storage", "fail", "low", FALSE),
     Verdict("finding-enc-2", "dnssi", "DNSSI-CRY-01", "encryption", "pass", "low", FALSE),
     Verdict("finding-log-2", "soc_2", "CC7.2", "logging", "pass", "low", FALSE),
     Verdict("finding-iam-3", "nist_csf", "PR.AA-05", "iam", "fail", "high", FALSE),
     Verdict("finding-net-3", "loi_05_20", "Art.18", "network", "fail", "medium", FALSE)}

\* A finding is a verdict on a resource of a tenant.
Of(tenant, verdict) == verdict @@ [tenant |-> tenant]

-----------------------------------------------------------------------------
\* The Core clients.  A reply is an error, or none and what was fetched.

Refusal(error) == [error |-> error, got |-> {}]
Reply(findings) == [error |-> "none", got |-> findings]

\* build_core_client seeds the stub for one tenant, with one of two sets.
StubSeed(settings) ==
    {Of("tenant-a", v) : v \in (IF settings.demoSeed THEN DemoFindings ELSE SampleFindings)}

\* StubCoreClient.get_finding.
StubGet(seed, tenant, id) ==
    LET found == {f \in seed : f.tenant = tenant /\ f.id = id}
    IN  IF found = {} THEN Refusal("NotFoundError") ELSE Reply(found)

\* StubCoreClient.list_findings, but for the cut into pages.  filters: the
\* fields that are asked for, and their values.
StubList(seed, tenant, filters) ==
    Reply({f \in seed : /\ f.tenant = tenant
                        /\ \A field \in DOMAIN filters : f[field] = filters[field]})

\* HttpCoreClient._raise_for_status.
ErrorFor(code) ==
    IF code < 400 THEN "none"
    ELSE IF code = 401 THEN "AuthenticationError"
    ELSE IF code = 403 THEN "AuthorizationError"
    ELSE IF code = 404 THEN "NotFoundError"
    ELSE "DependencyUnavailableError"

\* Mutant of SameTenant: what the Core returns is trusted.
SameTenantTrusted(tenant, findings) == tenant # ""

\* assert_same_tenant, for every one of the findings.
SameTenant(tenant, findings) == \A f \in findings : f.tenant = tenant

\* HttpCoreClient.get_finding and list_findings on an answer of the Core, code 0
\* when there is none.  A body that is no finding fails outside the client's try.
HttpResult(tenant, answer) ==
    IF answer.code = 0
    THEN Refusal("DependencyUnavailableError")
    ELSE IF ErrorFor(answer.code) # "none"
    THEN Refusal(ErrorFor(answer.code))
    ELSE IF ~answer.valid
    THEN Refusal("unexpected")
    ELSE IF SameTenant(tenant, answer.findings)
    THEN Reply(answer.findings)
    ELSE Refusal("TenantIsolationError")

-----------------------------------------------------------------------------
\* Policies.

\* verify_citations: the claimed ones among the retrieved ones.
Verified(claimed, available) == claimed \cap available
Unverified(claimed, available) == claimed \ available

\* estimate_exposure, in MAD; every product is whole, so rounding does nothing.
Exposure(f) ==
    LET base == [low |-> <<5000, 25000>>, medium |-> <<25000, 150000>>,
                 high |-> <<150000, 750000>>, critical |-> <<750000, 4000000>>][f.severity]
        tenths == [storage |-> 13, iam |-> 12, encryption |-> 12,
                   network |-> 11, logging |-> 10][f.domain]
    IN  IF f.status = "pass" THEN <<0, 0>>
        ELSE <<(base[1] * tenths) \div 10, (base[2] * tenths) \div 10>>

\* validate_terraform finds a forbidden pattern.
ForbiddenIn(text) == text = "unsafe"

\* scan_for_injection(text).exceeds(threshold), for the severities of the signals.
Exceeds(signals, threshold) ==
    LET Weight(severity) == CHOOSE i \in DOMAIN Severities : Severities[i] = severity
    IN  \E s \in signals : Weight(s) >= Weight(threshold)
=============================================================================
