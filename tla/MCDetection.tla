---------------------------- MODULE MCDetection ----------------------------
(* Detection around a previous close of 1000.                              *)
EXTENDS Detection

CONSTANTS yahoo, nse, bse

\* As it is delivered, and with ENABLE_NSE=1.
MCDeployments == {{yahoo, bse}, {yahoo, nse, bse}}

\* An error reading; prices that agree, differ a little (0.4%, 0.8%, 0.9%, 1%),
\* move by 3 or 10 percent, or are plain wrong; fresh, half and fully stale.
Priced(p, v, a) == [price |-> p, volume |-> v, age |-> a]
Failed == Priced(0, 0, 0)

MCReadings ==
    {Failed, Priced(1030, 0, 0), Priced(1020, 900, 12)}
    \cup {Priced(p, 100, 0) :
              p \in {900, 1000, 1004, 1008, 1009, 1010, 1030, 1100, 3000}}
    \cup {Priced(p, 100, a) : p \in {1000, 1030}, a \in {45, 90, 7200}}

\* No bars to speak of; a flat history; a volatile and a calm one.
MCHistories ==
    {[bars |-> n, prev |-> 1000, mean |-> m, stddev |-> d, avgVolume |-> v] :
        n \in {4, 5}, m \in {0, 20}, d \in {0, 100, 150}, v \in {0, 100}}

\* Nothing configured; a key found; the SDK missing; a pin without its key; both
\* keys but no HTTP client.
Config(pin, groqKey, anthropicKey, httpx, sdk) ==
    [pin |-> pin, groqKey |-> groqKey, anthropicKey |-> anthropicKey,
     httpx |-> httpx, sdk |-> sdk]

MCConfigs ==
    {Config("auto", FALSE, FALSE, TRUE, TRUE), Config("auto", TRUE, FALSE, TRUE, TRUE),
     Config("auto", FALSE, TRUE, TRUE, FALSE), Config("anthropic", TRUE, TRUE, TRUE, TRUE),
     Config("groq", FALSE, TRUE, TRUE, TRUE), Config("auto", TRUE, TRUE, FALSE, TRUE)}

\* No lookup, no news, one headline, more than are taken with an untitled one
\* among them, and a broken entry among those taken.
MCFeeds ==
    {[up |-> FALSE, entries |-> <<>>], [up |-> TRUE, entries |-> <<>>],
     [up |-> TRUE, entries |-> <<"h1">>],
     [up |-> TRUE, entries |-> <<"h1", "untitled", "h2", "h3", "h4", "malformed">>],
     [up |-> TRUE, entries |-> <<"h1", "malformed">>]}
=============================================================================
