SPECIFICATION FairSpec
CONSTANTS
  cash = cash
  alice = alice
  bob = bob
  desk = desk
  eve = eve
  ghost = ghost
  k1 = k1
  k2 = k2
  k3 = k3
  NoTx = NoTx
  NoCommand = NoCommand
  Requests = {r1, r2}
  Keys <- MCKeys
  Accounts <- MCAccounts
  AccountIds <- MCAccountIds
  ExternalAccounts <- MCExternal
  Currencies <- MCCurrencies
  CurrencyOf <- MCCurrencyOf
  MaxBalance = 2
  Commands <- MCCommands
  Managed <- MCManaged
PROPERTIES
  EveryRequestAnswered
